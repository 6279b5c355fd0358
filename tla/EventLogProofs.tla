---------------------------- MODULE EventLogProofs ----------------------------
(*****************************************************************************)
(* Why a call that was sent is in the transcript, and what a reader of the   *)
(* transcript gets back, for any number of calls and checks.                 *)
(*****************************************************************************)
EXTENDS EventLog, SumsProofs, SequenceTheorems, TLAPS

-----------------------------------------------------------------------------
(* The inductive invariant.                                                  *)

Events == [seq : Nat, type : {"llm_request", "llm_response", "llm_error", "lean_check"},
           call : Nat, content : Contents]
Pieces == [event : Events, kind : Cuts \cup {"whole"}]

\* A whole line of call c, which nothing in it breaks.
LineOf(c, i) ==
  /\ file[i].kind = "whole"
  /\ file[i].event.call = c
  /\ file[i].event.content # "separator"

HasLine(c) == \E i \in DOMAIN file : LineOf(c, i)

\* A request that emit() returned for has its line in the file.
LogInv ==
  /\ file \in Seq(Pieces)
  /\ seq \in Nat
  /\ stage \in [Calls -> {"idle", "logged", "sent", "ended", "failed"}]
  /\ \A c \in Calls : stage[c] \in {"logged", "sent", "ended"} => HasLine(c)

-----------------------------------------------------------------------------
(* Lines are only ever added.                                                *)

LEMMA EventsAreEvents ==
  ASSUME LogInv, NEW type \in {"llm_request", "llm_response", "llm_error", "lean_check"},
         NEW c \in Nat, NEW content \in Contents, NEW kind \in Cuts \cup {"whole"}
  PROVE  /\ Piece(Event(type, c, content), kind) \in Pieces
         /\ Event(type, c, content).call = c
         /\ Event(type, c, content).content = content
         /\ Piece(Event(type, c, content), kind).kind = kind
         /\ Piece(Event(type, c, content), kind).event = Event(type, c, content)
BY DEF LogInv, Piece, Event, Pieces, Events

LEMMA LinesStay ==
  ASSUME file \in Seq(Pieces), NEW piece \in Pieces,
         file' = file \/ file' = Append(file, piece)
  PROVE  /\ file' \in Seq(Pieces)
         /\ \A i \in DOMAIN file : i \in DOMAIN file' /\ file'[i] = file[i]
         /\ file' = Append(file, piece) => \E i \in DOMAIN file' : file'[i] = piece
<1>1. /\ Append(file, piece) \in Seq(Pieces)
      /\ Len(Append(file, piece)) = Len(file) + 1
      /\ Append(file, piece)[Len(file) + 1] = piece
      /\ \A i \in 1 .. Len(file) : Append(file, piece)[i] = file[i]
  BY AppendProperties
<1>2. /\ DOMAIN file = 1 .. Len(file) /\ Len(file) \in Nat
      /\ DOMAIN Append(file, piece) = 1 .. Len(Append(file, piece))
  BY <1>1, LenProperties
<1>3. \E i \in DOMAIN Append(file, piece) : Append(file, piece)[i] = piece
  <2>1. Len(file) + 1 \in DOMAIN Append(file, piece)
    BY <1>1, <1>2
  <2>2. QED
    BY <1>1, <2>1
<1>4. CASE file' = file
  BY <1>3, <1>4
<1>5. CASE file' = Append(file, piece)
  BY <1>1, <1>2, <1>3, <1>5
<1>6. QED
  BY <1>4, <1>5

\* What a write, whole or failed, does.
LEMMA WritesKeepLines ==
  ASSUME LogInv, NEW type \in {"llm_request", "llm_response", "llm_error", "lean_check"},
         NEW c \in Nat, NEW content \in Contents,
         Write(Event(type, c, content)) \/ WriteFails(Event(type, c, content))
  PROVE  /\ file' \in Seq(Pieces) /\ seq' \in Nat
         /\ \A d \in Calls : HasLine(d) => HasLine(d)'
<1>1. seq' \in Nat
  BY DEF LogInv, Write, WriteFails
<1>2. PICK piece \in Pieces : file' = file \/ file' = Append(file, piece)
  <2>1. \A kind \in Cuts \cup {"whole"} : Piece(Event(type, c, content), kind) \in Pieces
    BY EventsAreEvents
  <2>2. \/ file' = file
        \/ \E kind \in Cuts \cup {"whole"} :
             file' = Append(file, Piece(Event(type, c, content), kind))
    BY DEF Write, WriteFails
  <2>3. "whole" \in Cuts \cup {"whole"}
    OBVIOUS
  <2>4. QED
    BY <2>1, <2>2, <2>3
<1>3. /\ file' \in Seq(Pieces)
      /\ \A i \in DOMAIN file : i \in DOMAIN file' /\ file'[i] = file[i]
  BY <1>2, LinesStay DEF LogInv
<1>4. QED
  BY <1>1, <1>3 DEF HasLine, LineOf

\* A write that returns leaves the line there.
LEMMA WritesAddTheirLine ==
  ASSUME LogInv, NEW type \in {"llm_request", "llm_response", "llm_error", "lean_check"},
         NEW c \in Nat, NEW content \in Contents, content # "separator",
         Write(Event(type, c, content))
  PROVE  HasLine(c)'
<1> DEFINE piece == Piece(Event(type, c, content), "whole")
<1>1. /\ piece \in Pieces /\ piece.kind = "whole"
      /\ piece.event.call = c /\ piece.event.content # "separator"
  BY EventsAreEvents
<1>2. file' = Append(file, piece)
  BY DEF Write
<1> HIDE DEF piece
<1>3. \E i \in DOMAIN file' : file'[i] = piece
  BY <1>1, <1>2, LinesStay DEF LogInv
<1>4. QED
  BY <1>1, <1>3 DEF HasLine, LineOf

-----------------------------------------------------------------------------
(* The invariant holds where no line can hold a separator.                   *)

LEMMA StepHolds ==
  ASSUME "separator" \notin Contents, LogInv, [Next]_vars
  PROVE  LogInv'
<1>1. \A c \in Calls : c \in Nat
  BY EventLogAssumption DEF Calls
<1>2. ASSUME NEW c \in Calls, LogRequest(c)
      PROVE  LogInv'
  <2>1. PICK content \in Contents :
          \/ /\ Write(Event("llm_request", c, content))
             /\ stage' = [stage EXCEPT ![c] = "logged"]
          \/ /\ WriteFails(Event("llm_request", c, content))
             /\ stage' = [stage EXCEPT ![c] = "failed"]
    BY <1>2 DEF LogRequest
  <2>2. /\ file' \in Seq(Pieces) /\ seq' \in Nat
        /\ \A d \in Calls : HasLine(d) => HasLine(d)'
    BY <1>1, <2>1, WritesKeepLines
  <2>3. stage'[c] = "logged" => HasLine(c)'
    BY <1>1, <2>1, WritesAddTheirLine DEF LogInv
  <2>4. /\ stage' \in [Calls -> {"idle", "logged", "sent", "ended", "failed"}]
        /\ stage'[c] \in {"logged", "failed"}
        /\ \A d \in Calls : d # c => stage'[d] = stage[d]
    BY <2>1 DEF LogInv
  <2>5. \A d \in Calls : stage'[d] \in {"logged", "sent", "ended"} => HasLine(d)'
    BY <2>2, <2>3, <2>4 DEF LogInv
  <2>6. QED
    BY <2>2, <2>4, <2>5 DEF LogInv
<1>3. ASSUME NEW c \in Calls, Post(c)
      PROVE  LogInv'
  <2>1. /\ file' = file /\ seq' = seq /\ stage[c] = "logged"
        /\ stage' = [stage EXCEPT ![c] = "sent"]
    BY <1>3 DEF Post
  <2>2. \A d \in Calls : HasLine(d)' <=> HasLine(d)
    BY <2>1 DEF HasLine, LineOf
  <2>3. QED
    BY <2>1, <2>2 DEF LogInv
<1>4. ASSUME NEW c \in Calls, LogAnswer(c)
      PROVE  LogInv'
  <2>1. PICK type \in {"llm_response", "llm_error"}, content \in Contents :
          Write(Event(type, c, content)) \/ WriteFails(Event(type, c, content))
    BY <1>4 DEF LogAnswer
  <2>2. /\ file' \in Seq(Pieces) /\ seq' \in Nat
        /\ \A d \in Calls : HasLine(d) => HasLine(d)'
    BY <1>1, <2>1, WritesKeepLines
  <2>3. stage[c] = "sent" /\ stage' = [stage EXCEPT ![c] = "ended"]
    BY <1>4 DEF LogAnswer
  <2>4. QED
    BY <2>2, <2>3 DEF LogInv
<1>5. ASSUME LogCheck
      PROVE  LogInv'
  <2>1. PICK content \in Contents :
          Write(Event("lean_check", 0, content)) \/ WriteFails(Event("lean_check", 0, content))
    BY <1>5 DEF LogCheck
  <2>2. /\ file' \in Seq(Pieces) /\ seq' \in Nat
        /\ \A d \in Calls : HasLine(d) => HasLine(d)'
    BY <2>1, WritesKeepLines
  <2>3. stage' = stage
    BY <1>5 DEF LogCheck
  <2>4. QED
    BY <2>2, <2>3 DEF LogInv
<1>6. ASSUME KillWriter
      PROVE  LogInv'
  <2>1. seq' = seq /\ stage' = stage
    BY <1>6 DEF KillWriter
  <2>2. \/ file' = file
        \/ \E content \in Contents, kind \in Cuts \cup {"whole"} :
             file' = Append(file, Piece(Event("lean_check", 0, content), kind))
    BY <1>6 DEF KillWriter
  <2>3. /\ file' \in Seq(Pieces)
        /\ \A i \in DOMAIN file : i \in DOMAIN file' /\ file'[i] = file[i]
    <3>1. CASE file' = file
      BY <3>1 DEF LogInv
    <3>2. ASSUME NEW content \in Contents, NEW kind \in Cuts \cup {"whole"},
                 file' = Append(file, Piece(Event("lean_check", 0, content), kind))
          PROVE  /\ file' \in Seq(Pieces)
                 /\ \A i \in DOMAIN file : i \in DOMAIN file' /\ file'[i] = file[i]
      <4>1. Piece(Event("lean_check", 0, content), kind) \in Pieces
        BY EventsAreEvents
      <4>2. QED
        BY <3>2, <4>1, LinesStay DEF LogInv
    <3>3. QED
      BY <2>2, <3>1, <3>2
  <2>4. \A d \in Calls : HasLine(d) => HasLine(d)'
    BY <2>3 DEF HasLine, LineOf
  <2>5. QED
    BY <2>1, <2>3, <2>4 DEF LogInv
<1>7. CASE UNCHANGED vars
  BY <1>7 DEF vars, LogInv, HasLine, LineOf
<1>8. QED
  BY <1>2, <1>3, <1>4, <1>5, <1>6, <1>7 DEF Next

\* In a log whose only incomplete line is the last, a whole line is read.
LEMMA WholeLinesAreRead ==
  ASSUME LogInv, Intact, NEW c \in Calls, HasLine(c)
  PROVE  c \in Transcribed
<1>1. PICK i \in DOMAIN file : LineOf(c, i)
  BY DEF HasLine
<1>2. DOMAIN file = 1 .. Len(file) /\ Len(file) \in Nat
  BY LenProperties DEF LogInv
<1>3. i > 1 => file[i - 1].kind = "whole"
  BY <1>2 DEF Intact
<1>4. Parses(i)
  BY <1>1, <1>3 DEF Parses, LineOf
<1>5. c # 0
  BY EventLogAssumption DEF Calls
<1>6. QED
  BY <1>1, <1>4, <1>5 DEF Transcribed, LineOf

-----------------------------------------------------------------------------
(* The theorem.                                                              *)

\* docs/OUTPUTS.md:41-45: where no content can hold a character that splits lines,
\* every call the provider can have seen is in the transcript, whenever it is built.
THEOREM SentCallsAlwaysTranscribed ==
  ASSUME "separator" \notin Contents
  PROVE  Spec => []SentCallsAreTranscribed
<1>1. Init => LogInv
  <2>1. <<>> \in Seq(Pieces)
    BY EmptySeq
  <2>2. QED
    BY <2>1 DEF Init, LogInv
<1>2. LogInv /\ [Next]_vars => LogInv'
  BY StepHolds
<1>3. LogInv => SentCallsAreTranscribed
  BY WholeLinesAreRead DEF LogInv, SentCallsAreTranscribed
<1>4. QED
  BY <1>1, <1>2, <1>3, PTL DEF Spec

-----------------------------------------------------------------------------
(* The file, its numbers, and what was acknowledged.                         *)

\* Only the last line may be incomplete.
OnlyLastTorn == \A i \in 1..(Len(file) - 1) : file[i].kind = "whole"

\* The numbers on the lines rise, and while no line but the last is torn, the file is the
\* lines emit() returned for and at most one more.
FileInv ==
  /\ file \in Seq(Pieces) /\ acked \in Seq(Events) /\ seq \in Nat
  /\ \A i, j \in 1..Len(file) : i < j => file[i].event.seq < file[j].event.seq
  /\ alive => \A i \in 1..Len(file) : file[i].event.seq <= seq
  /\ OnlyLastTorn =>
       /\ Len(acked) \in {Len(file), Len(file) - 1}
       /\ \A i \in 1..Len(acked) : file[i] = Piece(acked[i], "whole")
       /\ alive /\ Len(acked) # Len(file) => file[Len(file)].kind # "whole"

\* A step adds a line with the next number, whole and acknowledged or torn; or it is the
\* kill, after which nothing is written.
AddsLine(piece) ==
  /\ alive /\ piece.event.seq = seq + 1 /\ file' = Append(file, piece)
  /\ \/ seq' = seq + 1 /\ piece.kind = "whole" /\ acked' = Append(acked, piece.event)
     \/ seq' = seq + 1 /\ piece.kind # "whole" /\ acked' = acked
     \/ seq' = seq /\ acked' = acked /\ ~alive'

LEMMA NewLine ==
  ASSUME seq \in Nat, NEW type \in {"llm_request", "llm_response", "llm_error", "lean_check"},
         NEW c \in Nat, NEW content \in Contents, NEW kind \in Cuts \cup {"whole"}
  PROVE  /\ Piece(Event(type, c, content), kind) \in Pieces
         /\ Piece(Event(type, c, content), kind).event = Event(type, c, content)
         /\ Piece(Event(type, c, content), kind).kind = kind
         /\ Piece(Event(type, c, content), kind).event.seq = seq + 1
BY DEF Piece, Event, Pieces, Events

LEMMA EmitAddsLine ==
  ASSUME seq \in Nat, alive,
         NEW type \in {"llm_request", "llm_response", "llm_error", "lean_check"},
         NEW c \in Nat, NEW content \in Contents,
         Write(Event(type, c, content)) \/ WriteFails(Event(type, c, content))
  PROVE  \/ UNCHANGED <<file, acked>> /\ seq' = seq + 1
         \/ \E piece \in Pieces : AddsLine(piece)
<1> DEFINE event == Event(type, c, content)
<1>1. CASE Write(event)
  <2>1. "whole" \in Cuts \cup {"whole"}
    OBVIOUS
  <2>2. PICK piece \in Pieces : /\ piece = Piece(event, "whole")
                                /\ piece.event = event /\ piece.kind = "whole"
                                /\ piece.event.seq = seq + 1
    BY <2>1, NewLine
  <2>3. AddsLine(piece)
    BY <1>1, <2>2 DEF Write, AddsLine
  <2>4. QED
    BY <2>3
<1>2. CASE WriteFails(event)
  <2>1. CASE file' = file
    BY <1>2, <2>1 DEF WriteFails
  <2>2. ASSUME NEW cut \in Cuts, file' = Append(file, Piece(event, cut))
        PROVE  \E piece \in Pieces : AddsLine(piece)
    <3>1. cut \in Cuts \cup {"whole"} /\ cut # "whole"
      BY DEF Cuts
    <3>2. PICK piece \in Pieces : /\ piece = Piece(event, cut)
                                  /\ piece.kind = cut /\ piece.event.seq = seq + 1
      BY <3>1, NewLine
    <3>3. AddsLine(piece)
      BY <1>2, <2>2, <3>1, <3>2 DEF WriteFails, AddsLine
    <3>4. QED
      BY <3>3
  <2>3. QED
    BY <1>2, <2>1, <2>2 DEF WriteFails
<1>3. QED
  BY <1>1, <1>2

LEMMA StepAddsLine ==
  ASSUME seq \in Nat, [Next]_vars
  PROVE  \/ UNCHANGED <<file, acked>> /\ seq' \in {seq, seq + 1} /\ (alive' => alive)
         \/ \E piece \in Pieces : AddsLine(piece)
<1>1. ASSUME NEW c \in Calls, LogRequest(c) \/ LogAnswer(c)
      PROVE  \/ UNCHANGED <<file, acked>> /\ seq' = seq + 1 /\ alive' = alive
             \/ \E piece \in Pieces : AddsLine(piece)
  <2>1. c \in Nat /\ alive /\ alive' = alive
    BY <1>1, EventLogAssumption DEF Calls, LogRequest, LogAnswer
  <2>2. PICK type \in {"llm_request", "llm_response", "llm_error", "lean_check"},
             content \in Contents :
          Write(Event(type, c, content)) \/ WriteFails(Event(type, c, content))
    BY <1>1 DEF LogRequest, LogAnswer
  <2>3. QED
    BY <2>1, <2>2, EmitAddsLine
<1>2. ASSUME LogCheck
      PROVE  \/ UNCHANGED <<file, acked>> /\ seq' = seq + 1 /\ alive' = alive
             \/ \E piece \in Pieces : AddsLine(piece)
  <2>1. alive /\ alive' = alive
    BY <1>2 DEF LogCheck
  <2>2. PICK content \in Contents :
          Write(Event("lean_check", 0, content)) \/ WriteFails(Event("lean_check", 0, content))
    BY <1>2 DEF LogCheck
  <2>3. QED
    BY <2>1, <2>2, EmitAddsLine
<1>3. CASE KillWriter
  <2>1. alive /\ ~alive' /\ seq' = seq /\ acked' = acked
    BY <1>3 DEF KillWriter
  <2>2. CASE file' = file
    BY <2>1, <2>2
  <2>3. ASSUME NEW content \in Contents, NEW kind \in Cuts \cup {"whole"},
               file' = Append(file, Piece(Event("lean_check", 0, content), kind))
        PROVE  \E piece \in Pieces : AddsLine(piece)
    <3>1. PICK piece \in Pieces : /\ piece = Piece(Event("lean_check", 0, content), kind)
                                  /\ piece.event.seq = seq + 1
      BY NewLine
    <3>2. AddsLine(piece)
      BY <2>1, <2>3, <3>1 DEF AddsLine
    <3>3. QED
      BY <3>2
  <2>4. QED
    BY <1>3, <2>2, <2>3 DEF KillWriter
<1>4. ASSUME NEW c \in Calls, Post(c)
      PROVE  UNCHANGED <<file, acked, seq, alive>>
  BY <1>4 DEF Post
<1>5. CASE UNCHANGED vars
  BY <1>5 DEF vars
<1>6. QED
  BY <1>1, <1>2, <1>3, <1>4, <1>5 DEF Next

LEMMA LineAdded ==
  ASSUME FileInv, NEW piece \in Pieces, AddsLine(piece)
  PROVE  FileInv'
<1>1. /\ file \in Seq(Pieces) /\ acked \in Seq(Events) /\ seq \in Nat /\ alive
      /\ file' = Append(file, piece) /\ piece.event.seq = seq + 1
      /\ piece.event \in Events /\ piece.event.seq \in Nat
  BY DEF FileInv, AddsLine, Pieces, Events
<1>2. /\ file' \in Seq(Pieces) /\ Len(file') = Len(file) + 1 /\ Len(file) \in Nat
      /\ \A i \in 1..Len(file) : file'[i] = file[i] /\ file[i].event.seq \in Nat
      /\ file'[Len(file) + 1] = piece
  <2>1. \A i \in 1..Len(file) : file[i] \in Pieces
    BY <1>1, ElementOfSeq
  <2>2. \A i \in 1..Len(file) : file[i].event.seq \in Nat
    BY <2>1 DEF Pieces, Events
  <2>3. QED
    BY <1>1, <2>2, AppendProperties, LenProperties
<1>3. \A i \in 1..Len(file') : i \in 1..Len(file) \/ i = Len(file) + 1
  BY <1>2
<1>4. \A i \in 1..Len(file) : file[i].event.seq <= seq
  BY <1>1 DEF FileInv
<1>5. ASSUME NEW i \in 1..Len(file'), NEW j \in 1..Len(file'), i < j
      PROVE  file'[i].event.seq < file'[j].event.seq
  <2>1. i \in 1..Len(file)
    BY <1>2, <1>3, <1>5
  <2>2. CASE j \in 1..Len(file)
    <3>1. file[i].event.seq < file[j].event.seq
      BY <1>5, <2>1, <2>2 DEF FileInv
    <3>2. QED
      BY <1>2, <2>1, <2>2, <3>1
  <2>3. CASE j = Len(file) + 1
    <3>1. file[i].event.seq <= seq /\ file[i].event.seq \in Nat
      BY <1>2, <1>4, <2>1
    <3>2. QED
      BY <1>1, <1>2, <2>1, <2>3, <3>1
  <2>4. QED
    BY <1>3, <2>2, <2>3
<1>6. ASSUME alive', NEW i \in 1..Len(file')
      PROVE  file'[i].event.seq <= seq'
  <2>1. seq' = seq + 1
    BY <1>6 DEF AddsLine
  <2>2. CASE i \in 1..Len(file)
    <3>1. file[i].event.seq <= seq /\ file[i].event.seq \in Nat
      BY <1>2, <1>4, <2>2
    <3>2. QED
      BY <1>1, <1>2, <2>1, <2>2, <3>1
  <2>3. CASE i = Len(file) + 1
    BY <1>1, <1>2, <2>1, <2>3
  <2>4. QED
    BY <1>3, <2>2, <2>3
<1>7. acked' \in Seq(Events) /\ seq' \in Nat
  <2>1. acked' = acked \/ acked' = Append(acked, piece.event)
    BY DEF AddsLine
  <2>2. seq' = seq \/ seq' = seq + 1
    BY DEF AddsLine
  <2>3. Append(acked, piece.event) \in Seq(Events)
    BY <1>1, AppendProperties
  <2>4. acked' \in Seq(Events)
    BY <1>1, <2>1, <2>3
  <2>5. QED
    BY <1>1, <2>2, <2>4
<1>8. ASSUME OnlyLastTorn'
      PROVE  /\ Len(acked') \in {Len(file'), Len(file') - 1}
             /\ \A i \in 1..Len(acked') : file'[i] = Piece(acked'[i], "whole")
             /\ alive' /\ Len(acked') # Len(file') => file'[Len(file')].kind # "whole"
  <2>1. \A i \in 1..Len(file) : file[i].kind = "whole"
    <3>1. \A i \in 1..(Len(file') - 1) : file'[i].kind = "whole"
      BY <1>8 DEF OnlyLastTorn
    <3>2. QED
      BY <1>2, <3>1
  <2>2. OnlyLastTorn
    BY <1>2, <2>1 DEF OnlyLastTorn
  <2>3. Len(acked) \in Nat /\ Len(acked) \in {Len(file), Len(file) - 1}
    BY <1>1, <2>2, LenProperties DEF FileInv
  <2>4. Len(acked) = Len(file)
    <3>1. SUFFICES ASSUME Len(acked) # Len(file)
                   PROVE  FALSE
      OBVIOUS
    <3>2. file[Len(file)].kind # "whole"
      BY <1>1, <2>2, <3>1 DEF FileInv
    <3>3. Len(file) \in 1..Len(file)
      BY <1>2, <2>3, <3>1
    <3>4. QED
      BY <2>1, <3>2, <3>3
  <2>5. \A i \in 1..Len(acked) : file[i] = Piece(acked[i], "whole")
    BY <2>2 DEF FileInv
  <2>6. CASE piece.kind = "whole" /\ acked' = Append(acked, piece.event)
    <3>1. /\ Len(acked') = Len(acked) + 1
          /\ \A i \in 1..Len(acked) : acked'[i] = acked[i]
          /\ acked'[Len(acked) + 1] = piece.event
      BY <1>1, <2>6, AppendProperties
    <3>2. piece = Piece(piece.event, "whole")
      BY <2>6 DEF Piece, Pieces
    <3>3. ASSUME NEW i \in 1..Len(acked')
          PROVE  file'[i] = Piece(acked'[i], "whole")
      <4>1. i \in 1..Len(file) \/ i = Len(file) + 1
        BY <2>3, <2>4, <3>1
      <4>2. CASE i \in 1..Len(file)
        BY <1>2, <2>4, <2>5, <3>1, <4>2
      <4>3. CASE i = Len(file) + 1
        BY <1>2, <2>4, <3>1, <3>2, <4>3
      <4>4. QED
        BY <4>1, <4>2, <4>3
    <3>4. Len(acked') = Len(file')
      BY <1>2, <2>4, <3>1
    <3>5. QED
      BY <3>3, <3>4
  <2>7. CASE acked' = acked /\ (piece.kind # "whole" \/ ~alive')
    <3>1. Len(acked') = Len(file') - 1
      BY <1>2, <2>4, <2>7
    <3>2. \A i \in 1..Len(acked') : file'[i] = Piece(acked'[i], "whole")
      BY <1>2, <2>4, <2>5, <2>7
    <3>3. alive' => file'[Len(file')].kind # "whole"
      BY <1>2, <2>7
    <3>4. QED
      BY <3>1, <3>2, <3>3
  <2>8. QED
    BY <2>6, <2>7 DEF AddsLine
<1>9. QED
  BY <1>2, <1>5, <1>6, <1>7, <1>8 DEF FileInv

LEMMA FileStep == FileInv /\ [Next]_vars => FileInv'
<1> SUFFICES ASSUME FileInv, [Next]_vars
             PROVE  FileInv'
  OBVIOUS
<1>1. seq \in Nat
  BY DEF FileInv
<1>2. CASE UNCHANGED <<file, acked>> /\ seq' \in {seq, seq + 1} /\ (alive' => alive)
  <2>1. \A i \in 1..Len(file) : file[i].event.seq \in Nat
    <3>1. \A i \in 1..Len(file) : file[i] \in Pieces
      BY ElementOfSeq DEF FileInv
    <3>2. QED
      BY <3>1 DEF Pieces, Events
  <2>2. alive' => \A i \in 1..Len(file) : file[i].event.seq <= seq'
    BY <1>1, <1>2, <2>1 DEF FileInv
  <2>3. seq' \in Nat
    BY <1>1, <1>2
  <2>4. QED
    BY <1>2, <2>2, <2>3 DEF FileInv, OnlyLastTorn
<1>3. QED
  BY <1>1, <1>2, LineAdded, StepAddsLine

LEMMA FileInit == Init => FileInv
<1>1. <<>> \in Seq(Pieces) /\ <<>> \in Seq(Events) /\ Len(<<>>) = 0
  BY EmptySeq
<1>2. QED
  BY <1>1 DEF Init, FileInv

-----------------------------------------------------------------------------
(* What is read.                                                             *)

\* read_events, line by line: events[i] is what it has after i of them.
ReadsTo(events) ==
  /\ events[0] = <<>>
  /\ \A i \in 1..Len(file) :
       events[i] = IF Parses(i) THEN Append(events[i-1], file[i].event) ELSE events[i-1]

LEMMA RecordsAreRead ==
  ASSUME FileInv
  PROVE  \E events : ReadsTo(events) /\ Records = events[Len(file)]
<1> DEFINE n == Len(file)
           S == Seq(Events)
           turn == [i \in 1..n |-> [r \in S |-> IF Parses(i) THEN Append(r, file[i].event) ELSE r]]
           Step(g) == [i \in 0..n |->
                         IF i = 0 THEN <<>>
                         ELSE IF Parses(i) THEN Append(g[i-1], file[i].event) ELSE g[i-1]]
<1>1. n \in Nat /\ <<>> \in S
  BY EmptySeq, LenProperties DEF FileInv
<1>2. \A i \in 1..n : file[i].event \in Events
  <2>1. \A i \in 1..n : file[i] \in Pieces
    BY ElementOfSeq DEF FileInv
  <2>2. QED
    BY <2>1 DEF Pieces
<1>3. turn \in Loops(n, S)
  <2>1. \A i \in 1..n, r \in S : Append(r, file[i].event) \in S
    BY <1>2, AppendProperties
  <2> HIDE DEF S, n
  <2>2. QED
    BY <2>1 DEF Loops
<1>4. \A i \in 1..n, r \in S : turn[i][r] = IF Parses(i) THEN Append(r, file[i].event) ELSE r
  OBVIOUS
<1>5. Records = (CHOOSE h : h = Step(h))[n]
  BY DEF Records
<1> HIDE DEF n, S, turn
<1>6. PICK g \in [0..n -> S] : RunsThrough(g, turn, n, <<>>)
  BY <1>1, <1>3, LoopRuns
<1>7. g = Step(g)
  <2>1. ASSUME NEW i \in 0..n
        PROVE  g[i] = IF i = 0 THEN <<>>
                      ELSE IF Parses(i) THEN Append(g[i-1], file[i].event) ELSE g[i-1]
    <3>1. CASE i = 0
      BY <1>6, <3>1 DEF RunsThrough
    <3>2. CASE i # 0
      <4>1. i \in 1..n /\ i - 1 \in 0..n
        BY <1>1, <3>2
      <4>2. g[i-1] \in S /\ g[i] = turn[i][g[i-1]]
        BY <1>6, <4>1 DEF RunsThrough
      <4>3. QED
        BY <1>4, <3>2, <4>1, <4>2
    <3>3. QED
      BY <3>1, <3>2
  <2>2. QED
    BY <2>1
<1> DEFINE events == CHOOSE h : h = Step(h)
<1>8. events = Step(events)
  BY <1>7
<1>9. Records = events[n]
  BY <1>5
<1> HIDE DEF events
<1>10. ReadsTo(events)
  <2>1. \A i \in 0..n : events[i] = IF i = 0 THEN <<>>
                                    ELSE IF Parses(i) THEN Append(events[i-1], file[i].event)
                                    ELSE events[i-1]
    BY <1>8
  <2>2. 0 \in 0..n /\ \A i \in 1..n : i \in 0..n /\ i # 0
    BY <1>1
  <2>3. QED
    BY <2>1, <2>2 DEF ReadsTo, n
<1>11. QED
  BY <1>9, <1>10 DEF n

\* What is read so far comes from the lines so far, in their order.
InOrderTo(r, i) ==
  /\ r \in Seq(Events)
  /\ \A j \in 1..Len(r) : \E m \in 1..i : r[j].seq = file[m].event.seq
  /\ \A j, k \in 1..Len(r) : j < k => r[j].seq < r[k].seq

LEMMA ReadInOrder ==
  ASSUME FileInv, NEW events, ReadsTo(events), NEW i \in 0..Len(file)
  PROVE  InOrderTo(events[i], i)
<1> DEFINE n == Len(file)
           Good == {k \in 0..n : InOrderTo(events[k], k)}
<1>1. n \in Nat /\ \A m \in 1..n : file[m].event \in Events
  <2>1. n \in Nat /\ \A m \in 1..n : file[m] \in Pieces
    BY ElementOfSeq, LenProperties DEF FileInv
  <2>2. QED
    BY <2>1 DEF Pieces
<1>2. 0 \in Good
  <2>1. <<>> \in Seq(Events) /\ Len(<<>>) = 0
    BY EmptySeq
  <2>2. InOrderTo(<<>>, 0)
    BY <2>1 DEF InOrderTo
  <2>3. QED
    BY <1>1, <2>2 DEF ReadsTo
<1>3. ASSUME NEW k \in 1..n, k - 1 \in Good
      PROVE  k \in Good
  <2> DEFINE r == events[k-1]
             e == file[k].event
  <2>1. InOrderTo(r, k - 1) /\ k \in 0..n /\ \A m \in 1..(k-1) : m \in 1..k /\ m \in 1..n /\ m < k
    BY <1>1, <1>3
  <2>2. events[k] = IF Parses(k) THEN Append(r, e) ELSE r
    BY DEF ReadsTo
  <2>3. e \in Events /\ e.seq \in Nat
    BY <1>1 DEF Events
  <2> HIDE DEF r, e, n
  <2>4. CASE ~Parses(k)
    <3>1. InOrderTo(r, k)
      BY <2>1 DEF InOrderTo
    <3>2. QED
      BY <2>1, <2>2, <2>4, <3>1
  <2>5. CASE Parses(k)
    <3> DEFINE s == Append(r, e)
    <3>1. /\ s \in Seq(Events) /\ Len(s) = Len(r) + 1 /\ Len(r) \in Nat
          /\ \A j \in 1..Len(r) : s[j] = r[j]
          /\ s[Len(r) + 1] = e
      BY <2>1, <2>3, AppendProperties, LenProperties DEF InOrderTo
    <3> HIDE DEF s
    <3>2. \A j \in 1..Len(s) : j \in 1..Len(r) \/ j = Len(r) + 1
      BY <3>1
    <3>3. \A j \in 1..Len(r) : r[j].seq < e.seq
      <4>1. \A m \in 1..(k-1) : file[m].event.seq < e.seq
        BY <1>1, <2>1 DEF FileInv, e, n
      <4>2. QED
        BY <2>1, <4>1 DEF InOrderTo
    <3>4. ASSUME NEW j \in 1..Len(s)
          PROVE  \E m \in 1..k : s[j].seq = file[m].event.seq
      <4>1. CASE j \in 1..Len(r)
        BY <2>1, <3>1, <4>1 DEF InOrderTo
      <4>2. CASE j = Len(r) + 1
        <5>1. k \in 1..k
          BY <1>3, <1>1
        <5>2. QED
          BY <3>1, <4>2, <5>1 DEF e
      <4>3. QED
        BY <3>2, <4>1, <4>2
    <3>5. ASSUME NEW j \in 1..Len(s), NEW l \in 1..Len(s), j < l
          PROVE  s[j].seq < s[l].seq
      <4>1. j \in 1..Len(r)
        BY <3>1, <3>2, <3>5
      <4>2. CASE l \in 1..Len(r)
        BY <2>1, <3>1, <3>5, <4>1, <4>2 DEF InOrderTo
      <4>3. CASE l = Len(r) + 1
        BY <3>1, <3>3, <4>1, <4>3
      <4>4. QED
        BY <3>2, <4>2, <4>3
    <3>6. InOrderTo(s, k)
      BY <3>1, <3>4, <3>5 DEF InOrderTo
    <3>7. QED
      BY <2>1, <2>2, <2>5, <3>6 DEF s
  <2>6. QED
    BY <2>4, <2>5
<1> HIDE DEF Good
<1>4. i \in Good
  BY <1>1, <1>2, <1>3, InductionUpTo
<1>5. QED
  BY <1>4 DEF Good

\* docs/OUTPUTS.md:41-45: for any number of calls and checks, and wherever lines are cut and
\* others glued to them, the events read back have rising numbers.
THEOREM RecordsStayOrdered == Spec => []RecordsAreOrdered
<1>1. FileInv => RecordsAreOrdered
  <2> SUFFICES ASSUME FileInv
               PROVE  RecordsAreOrdered
    OBVIOUS
  <2>1. PICK events : ReadsTo(events) /\ Records = events[Len(file)]
    BY RecordsAreRead
  <2>2. Len(file) \in 0..Len(file)
    BY LenProperties DEF FileInv
  <2>3. InOrderTo(Records, Len(file))
    BY <2>1, <2>2, ReadInOrder
  <2>4. DOMAIN Records = 1..Len(Records)
    BY <2>3, LenProperties DEF InOrderTo
  <2>5. QED
    BY <2>3, <2>4 DEF InOrderTo, RecordsAreOrdered
<1>2. QED
  BY <1>1, FileInit, FileStep, PTL DEF Spec

\* In an intact log the lines acknowledged are read, each in its place.
LEMMA AckedInPlace ==
  ASSUME "separator" \notin Contents, FileInv, Intact, NEW events, ReadsTo(events),
         NEW i \in 0..Len(acked)
  PROVE  events[i] \in Seq(Events) /\ Len(events[i]) = i /\ \A j \in 1..i : events[i][j] = acked[j]
<1> DEFINE n == Len(acked)
           Good == {k \in 0..n : /\ events[k] \in Seq(Events) /\ Len(events[k]) = k
                                 /\ \A j \in 1..k : events[k][j] = acked[j]}
<1>1. /\ n \in Nat /\ Len(file) \in Nat /\ n <= Len(file)
      /\ \A k \in 1..n : k \in 1..Len(file) /\ file[k] = Piece(acked[k], "whole")
  <2>1. n \in Nat /\ Len(file) \in Nat
    BY LenProperties DEF FileInv
  <2>2. OnlyLastTorn
    BY DEF Intact, OnlyLastTorn
  <2>3. QED
    BY <2>1, <2>2 DEF FileInv
<1>2. ASSUME NEW k \in 1..n
      PROVE  file[k].kind = "whole" /\ file[k].event = acked[k]
  <2>1. file[k] = Piece(acked[k], "whole")
    BY <1>1
  <2>2. Piece(acked[k], "whole").kind = "whole" /\ Piece(acked[k], "whole").event = acked[k]
    BY DEF Piece
  <2>3. QED
    BY <2>1, <2>2
<1>3. \A k \in 1..n : acked[k] \in Events
  BY ElementOfSeq DEF FileInv
<1>4. ASSUME NEW k \in 1..n
      PROVE  Parses(k)
  <2>1. k > 1 => file[k-1].kind = "whole"
    BY <1>1, <1>2
  <2>2. file[k].event.content \in Contents
    BY <1>2, <1>3 DEF Events
  <2>3. QED
    BY <1>2, <2>1, <2>2 DEF Parses
<1>5. 0 \in Good
  <2>1. <<>> \in Seq(Events) /\ Len(<<>>) = 0
    BY EmptySeq
  <2>2. events[0] = <<>> /\ 0 \in 0..n
    BY <1>1 DEF ReadsTo
  <2>3. \A j \in 1..0 : events[0][j] = acked[j]
    OBVIOUS
  <2>4. QED
    BY <2>1, <2>2, <2>3
<1>6. ASSUME NEW k \in 1..n, k - 1 \in Good
      PROVE  k \in Good
  <2> DEFINE r == events[k-1]
  <2>1. events[k] = Append(r, acked[k])
    BY <1>1, <1>2, <1>4 DEF ReadsTo
  <2>2. /\ r \in Seq(Events) /\ Len(r) = k - 1
        /\ \A j \in 1..(k-1) : r[j] = acked[j]
    BY <1>6
  <2> HIDE DEF r
  <2>3. /\ Append(r, acked[k]) \in Seq(Events) /\ Len(Append(r, acked[k])) = k - 1 + 1
        /\ \A j \in 1..(k-1) : Append(r, acked[k])[j] = r[j]
        /\ Append(r, acked[k])[k - 1 + 1] = acked[k]
    BY <1>3, <2>2, AppendProperties
  <2>4. k - 1 + 1 = k /\ k \in 0..n /\ \A j \in 1..k : j \in 1..(k-1) \/ j = k
    BY <1>1
  <2>5. \A j \in 1..k : events[k][j] = acked[j]
    BY <2>1, <2>2, <2>3, <2>4
  <2>6. QED
    BY <2>1, <2>3, <2>4, <2>5
<1> HIDE DEF Good
<1>7. i \in Good
  BY <1>1, <1>5, <1>6, InductionUpTo
<1>8. QED
  BY <1>7 DEF Good

\* docs/OUTPUTS.md:43-45: where no content can hold a character that splits lines, whatever
\* emit() returned for is read back from an intact log, complete and in order.
THEOREM AckedEventsAlwaysRead ==
  ASSUME "separator" \notin Contents
  PROVE  Spec => []AckedEventsAreRead
<1>1. FileInv => AckedEventsAreRead
  <2> SUFFICES ASSUME FileInv, Intact
               PROVE  IsPrefix(acked, Records)
    BY DEF AckedEventsAreRead
  <2>1. PICK events : ReadsTo(events) /\ Records = events[Len(file)]
    BY RecordsAreRead
  <2> DEFINE n == Len(acked)
  <2>2. n \in Nat /\ n \in 0..n /\ Len(file) \in Nat /\ Len(file) \in {n, n + 1}
    <3>1. n \in Nat /\ Len(file) \in Nat
      BY LenProperties DEF FileInv
    <3>2. OnlyLastTorn
      BY DEF Intact, OnlyLastTorn
    <3>3. n \in {Len(file), Len(file) - 1}
      BY <3>2 DEF FileInv
    <3>4. QED
      BY <3>1, <3>3
  <2>3. /\ events[n] \in Seq(Events) /\ Len(events[n]) = n
        /\ \A j \in 1..n : events[n][j] = acked[j]
    BY <2>1, <2>2, AckedInPlace
  <2>4. /\ Records \in Seq(Events) /\ n <= Len(Records)
        /\ \A j \in 1..n : Records[j] = acked[j]
    <3>1. CASE Len(file) = n
      BY <2>1, <2>2, <2>3, <3>1
    <3>2. CASE Len(file) = n + 1
      <4>1. n + 1 \in 1..Len(file) /\ n + 1 - 1 = n
        BY <2>2, <3>2
      <4>2. Records = IF Parses(n + 1) THEN Append(events[n], file[n + 1].event) ELSE events[n]
        BY <2>1, <3>2, <4>1 DEF ReadsTo
      <4>3. file[n + 1].event \in Events
        <5>1. file[n + 1] \in Pieces
          BY <4>1, ElementOfSeq DEF FileInv
        <5>2. QED
          BY <5>1 DEF Pieces
      <4>4. /\ Append(events[n], file[n + 1].event) \in Seq(Events)
            /\ Len(Append(events[n], file[n + 1].event)) = n + 1
            /\ \A j \in 1..n : Append(events[n], file[n + 1].event)[j] = events[n][j]
        BY <2>3, <4>3, AppendProperties
      <4>5. QED
        BY <2>2, <2>3, <4>2, <4>4
    <3>3. QED
      BY <2>2, <3>1, <3>2
  <2>5. SubSeq(acked, 1, n) = SubSeq(Records, 1, n)
    <3> DEFINE a == SubSeq(acked, 1, n)
               b == SubSeq(Records, 1, n)
    <3>1. /\ 1 \in Int /\ n \in Int
          /\ \A j \in 1..n : acked[j] \in Events /\ Records[j] \in Events
      <4>1. \A j \in 1..n : acked[j] \in Events
        BY ElementOfSeq DEF FileInv
      <4>2. QED
        BY <2>2, <2>4, <4>1
    <3>2. /\ a \in Seq(Events) /\ b \in Seq(Events)
          /\ Len(a) = IF 1 <= n THEN n - 1 + 1 ELSE 0
          /\ Len(b) = IF 1 <= n THEN n - 1 + 1 ELSE 0
          /\ \A j \in 1..(n - 1 + 1) : a[j] = acked[1 + j - 1] /\ b[j] = Records[1 + j - 1]
      BY <3>1, SubSeqProperties
    <3> HIDE DEF a, b
    <3>3. Len(a) = n /\ Len(b) = n
      BY <2>2, <3>2
    <3>4. \A j \in 1..n : a[j] = acked[j] /\ b[j] = Records[j]
      <4>1. \A j \in 1..n : j \in 1..(n - 1 + 1) /\ 1 + j - 1 = j
        BY <2>2
      <4>2. QED
        BY <3>2, <4>1
    <3>5. a = b
      BY <2>4, <3>2, <3>3, <3>4, SeqEqual
    <3>6. QED
      BY <3>5 DEF a, b
  <2>6. QED
    BY <2>4, <2>5 DEF IsPrefix
<1>2. QED
  BY <1>1, FileInit, FileStep, PTL DEF Spec

=============================================================================
