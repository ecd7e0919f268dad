----------------------------- MODULE NativeTurns -----------------------------
(***************************************************************************)
(* What an adapter promises of the turns of one native session, whichever  *)
(* program works on them and however it is run.  Work on a turn begins at  *)
(* most once, and on one turn at a time.  An answer is given once, and     *)
(* never for a turn that is being worked on; the answer "absent" says that *)
(* the model was not given the prompt, a verdict that it was.  Nothing     *)
(* begins after an answer: who hears "absent" and sends the turn again     *)
(* does not have it done twice.                                            *)
(*                                                                         *)
(* The module models no code of its own: it is the specification that      *)
(* ClaudeTurn, AgyTurn and CodexTurn are shown to implement.               *)
(***************************************************************************)

CONSTANTS
  Turns,
  Verdicts  \* what the model's work on a turn can come to

VARIABLES
  work,     \* work[t]: "none", "running" or "over"
  given,    \* given[t]: the model has the prompt
  answer    \* answer[t]: "none", "absent" or a verdict

vars == <<work, given, answer>>

Init ==
  /\ work = [t \in Turns |-> "none"]
  /\ given = [t \in Turns |-> FALSE]
  /\ answer = [t \in Turns |-> "none"]

Begin(t) ==
  /\ work[t] = "none" /\ answer[t] = "none"
  /\ \A u \in Turns : work[u] # "running"
  /\ work' = [work EXCEPT ![t] = "running"]
  /\ UNCHANGED <<given, answer>>

Give(t) ==
  /\ work[t] = "running" /\ ~given[t]
  /\ given' = [given EXCEPT ![t] = TRUE]
  /\ UNCHANGED <<work, answer>>

End(t) ==
  /\ work[t] = "running"
  /\ work' = [work EXCEPT ![t] = "over"]
  /\ UNCHANGED <<given, answer>>

Deny(t) ==
  /\ work[t] # "running" /\ ~given[t] /\ answer[t] = "none"
  /\ answer' = [answer EXCEPT ![t] = "absent"]
  /\ UNCHANGED <<work, given>>

Conclude(t, v) ==
  /\ work[t] = "over" /\ given[t] /\ answer[t] = "none"
  /\ answer' = [answer EXCEPT ![t] = v]
  /\ UNCHANGED <<work, given>>

Next ==
  \E t \in Turns :
    Begin(t) \/ Give(t) \/ End(t) \/ Deny(t) \/ \E v \in Verdicts : Conclude(t, v)
=============================================================================
