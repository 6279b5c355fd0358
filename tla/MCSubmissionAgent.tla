------------------------- MODULE MCSubmissionAgent -------------------------
(***************************************************************************)
(* Instances of SubmissionAgent for TLC.                                    *)
(***************************************************************************)
EXTENDS SubmissionAgent

\* A theorem alone, or after a complete declaration, or after the answer it asks for; a
\* complete declaration between two theorems; two theorems about one answer; and one about
\* two answers.
SmallChallenges == {<<"thm">>, <<"given", "thm">>, <<"numeric", "thm">>,
                    <<"thm", "given", "thm">>, <<"def", "thm", "thm">>,
                    <<"def", "def", "thm">>}
=============================================================================
