------------------------------- MODULE EventLog -------------------------------
(***************************************************************************)
(* events.jsonl as a file: EventLogger.emit and read_events of              *)
(* re_harness/events.py, and the transcript build_transcript of             *)
(* re_harness/artifacts.py makes of it, for the calls of one worker and the *)
(* Lean checks logged from other threads.                                   *)
(*                                                                          *)
(* emit() numbers, encodes, appends and fsyncs one line under its lock, so  *)
(* an emission is one action.  It fails before writing anything, when the   *)
(* event has no UTF-8 encoding (a lone surrogate), or part of the way,      *)
(* when the disk does; and a kill may stop it at any byte.  What is on disk *)
(* is a sequence of pieces: whole lines, and the beginnings of lines that   *)
(* were cut, which the next line is glued to.                               *)
(***************************************************************************)
EXTENDS Integers, SequencesExt

CONSTANTS
  NumCalls,     \* calls to complete() (bound of the model)
  NumChecks,    \* Lean checks that log an event (bound of the model)
  Contents      \* what a line may hold: subset of {"plain", "separator", "surrogate"}

ASSUME EventLogAssumption ==
  /\ NumCalls \in Nat /\ NumChecks \in Nat
  /\ Contents \subseteq {"plain", "separator", "surrogate"}

Calls == 1..NumCalls

\* Where a line may be cut: somewhere, inside a multi-byte character, or before
\* its newline.
Cuts == {"inside", "character", "newline"}

VARIABLES
  file,    \* the pieces of events.jsonl
  seq,     \* _seq
  acked,   \* the events whose emit() returned, in order
  stage,   \* stage of each call: idle, logged, sent, ended or failed
  checks,  \* Lean checks logged so far
  alive    \* the process runs

vars == <<file, seq, acked, stage, checks, alive>>

\* A piece: an event, and how much of its line is there.
Piece(event, kind) == [event |-> event, kind |-> kind]

\* An event: its number, its type, its call (0 for a Lean check), its content.
Event(type, c, content) == [seq |-> seq + 1, type |-> type, call |-> c, content |-> content]

Init ==
  /\ file = <<>>
  /\ seq = 0
  /\ acked = <<>>
  /\ stage = [c \in Calls |-> "idle"]
  /\ checks = 0
  /\ alive = TRUE

-----------------------------------------------------------------------------
(* Writing. *)

\* Mutant: the number is taken and not kept.
WriteUnnumbered(event) ==
  /\ event.content # "surrogate"
  /\ file' = Append(file, Piece(event, "whole"))
  /\ acked' = Append(acked, event)
  /\ UNCHANGED seq

\* emit() returns: the line is on disk.
Write(event) ==
  /\ event.content # "surrogate"
  /\ seq' = seq + 1
  /\ file' = Append(file, Piece(event, "whole"))
  /\ acked' = Append(acked, event)

\* emit() raises: the number is used up, and part of the line may be there.
WriteFails(event) ==
  /\ seq' = seq + 1
  /\ \/ event.content = "surrogate" /\ UNCHANGED file
     \/ /\ event.content # "surrogate"
        /\ \/ UNCHANGED file
           \/ \E cut \in Cuts : file' = Append(file, Piece(event, cut))
  /\ UNCHANGED acked

-----------------------------------------------------------------------------
(* Reading. *)

\* read_text(encoding="utf-8") does not raise.
Decodable == \A i \in DOMAIN file : file[i].kind # "character"

\* Mutant: the last line is always taken for incomplete.
ParsesButLast(i) ==
  /\ i < Len(file)
  /\ file[i].kind = "whole" /\ file[i + 1].kind = "whole"
  /\ i > 1 => file[i - 1].kind = "whole"
  /\ file[i].event.content # "separator"

\* The line piece i ends or lies on is one JSON object: nothing is glued to it,
\* and nothing in it makes splitlines() break it (U+2028, U+2029 and U+0085 are
\* not escaped with ensure_ascii=False).
Parses(i) ==
  /\ file[i].kind \in {"whole", "newline"}
  /\ i > 1 => file[i - 1].kind = "whole"
  /\ i < Len(file) => file[i].kind = "whole"
  /\ file[i].event.content # "separator"

\* read_events, when it returns: line by line, those that parse.
Records ==
  LET events[i \in 0..Len(file)] ==
        IF i = 0 THEN <<>>
        ELSE IF Parses(i) THEN Append(events[i-1], file[i].event) ELSE events[i-1]
  IN  events[Len(file)]

\* build_transcript: a call appears once one of its llm_* events is read.
Transcribed == {file[i].event.call : i \in {j \in DOMAIN file : Parses(j)}} \ {0}

-----------------------------------------------------------------------------
(* The worker. *)

LogRequest(c) ==
  /\ alive /\ stage[c] = "idle"
  /\ \E content \in Contents :
       \/ Write(Event("llm_request", c, content)) /\ stage' = [stage EXCEPT ![c] = "logged"]
       \/ WriteFails(Event("llm_request", c, content)) /\ stage' = [stage EXCEPT ![c] = "failed"]
  /\ UNCHANGED <<checks, alive>>

\* Mutant: the request goes out whether or not it could be logged.
PostAnyway(c) ==
  /\ alive /\ stage[c] \in {"logged", "failed"}
  /\ stage' = [stage EXCEPT ![c] = "sent"]
  /\ UNCHANGED <<file, seq, acked, checks, alive>>

\* The request goes out only after emit() returned.
Post(c) ==
  /\ alive /\ stage[c] = "logged"
  /\ stage' = [stage EXCEPT ![c] = "sent"]
  /\ UNCHANGED <<file, seq, acked, checks, alive>>

\* The answer, or the failure of the post, is logged.
LogAnswer(c) ==
  /\ alive /\ stage[c] = "sent"
  /\ \E type \in {"llm_response", "llm_error"}, content \in Contents :
       \/ Write(Event(type, c, content)) /\ stage' = [stage EXCEPT ![c] = "ended"]
       \/ WriteFails(Event(type, c, content)) /\ stage' = [stage EXCEPT ![c] = "ended"]
  /\ UNCHANGED <<checks, alive>>

\* A thread logs a lean_check.
LogCheck ==
  /\ alive /\ checks < NumChecks
  /\ checks' = checks + 1
  /\ \E content \in Contents :
       Write(Event("lean_check", 0, content)) \/ WriteFails(Event("lean_check", 0, content))
  /\ UNCHANGED <<stage, alive>>

\* The process is killed, possibly while emit() writes a line of which it has
\* written a part, or all without having returned yet (call 0 stands for any).
KillWriter ==
  /\ alive
  /\ alive' = FALSE
  /\ \/ UNCHANGED file
     \/ \E content \in Contents \ {"surrogate"}, cut \in Cuts \cup {"whole"} :
          file' = Append(file, Piece(Event("lean_check", 0, content), cut))
  /\ UNCHANGED <<seq, acked, stage, checks>>

Next ==
  \/ \E c \in Calls : LogRequest(c) \/ Post(c) \/ LogAnswer(c)
  \/ LogCheck
  \/ KillWriter

Spec == Init /\ [][Next]_vars

-----------------------------------------------------------------------------
(* Properties. *)

\* The process that writes the log found no line of its own torn by the disk,
\* and the file can be decoded: at most the last line is incomplete.
Intact ==
  /\ Decodable
  /\ \A i \in 1..(Len(file) - 1) : file[i].kind = "whole"

\* docs/OUTPUTS.md:43-45: whatever emit() returned for is read back, complete
\* and in the order of emission, also after a kill or a failed write in the
\* middle of the last line.
AckedEventsAreRead == Intact => IsPrefix(acked, Records)

\* docs/OUTPUTS.md:41-45: a request is on disk before it is sent, so every call
\* the provider can have seen is in the transcript, whenever it is built.
SentCallsAreTranscribed ==
  Intact => \A c \in Calls : stage[c] \in {"sent", "ended"} => c \in Transcribed

\* Lines that cannot be read, cut or glued ones included, never bring the events
\* that can out of order or make two of them one.
RecordsAreOrdered ==
  \A j, k \in DOMAIN Records : j < k => Records[j].seq < Records[k].seq
=============================================================================
