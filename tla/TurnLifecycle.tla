--------------------------- MODULE TurnLifecycle ---------------------------
(***************************************************************************)
(* What a contributor session promises about its turns, whatever keeps the *)
(* state: the in-memory kernel (CouncilKernel) or the durable store        *)
(* (SessionStore).  Every turn key is queued, perhaps withdrawn, begun at  *)
(* most once, and concluded at most once with one outcome; one turn at a   *)
(* time runs in a session; a session that lost its host begins nothing     *)
(* until the host is found again; an archived session is frozen.           *)
(*                                                                         *)
(* The module models no code of its own: it is the specification that the  *)
(* two detailed modules are shown to implement.                            *)
(***************************************************************************)

CONSTANTS
  TurnKeys,   \* identifiers a controller may give to turns
  Outcomes,   \* what a concluded turn can have recorded
  NoOutcome   \* the outcome of a turn that has not concluded

VARIABLES
  phase,      \* phase[k]: where turn k stands
  outcome,    \* outcome[k]: what turn k concluded with
  lost,       \* the host of the session is lost
  archived    \* the session is archived

vars == <<phase, outcome, lost, archived>>

Phases == {"absent", "queued", "running", "cancelling", "done"}

\* The turns that occupy the session.
Occupying == {k \in TurnKeys : phase[k] \in {"running", "cancelling"}}

\* Every turn stands in one of the five phases.
TypeOK ==
  /\ phase \in [TurnKeys -> Phases]
  /\ outcome \in [TurnKeys -> Outcomes \cup {NoOutcome}]
  /\ lost \in BOOLEAN
  /\ archived \in BOOLEAN

Init ==
  /\ phase = [k \in TurnKeys |-> "absent"]
  /\ outcome = [k \in TurnKeys |-> NoOutcome]
  /\ lost = FALSE
  /\ archived = FALSE

Move(k, from, to) ==
  /\ phase[k] \in from
  /\ phase' = [phase EXCEPT ![k] = to]

Enqueue(k) ==
  /\ ~archived
  /\ Move(k, {"absent"}, "queued")
  /\ UNCHANGED <<outcome, lost, archived>>

Withdraw(k) ==
  /\ ~archived
  /\ Move(k, {"queued"}, "absent")
  /\ UNCHANGED <<outcome, lost, archived>>

Begin(k) ==
  /\ ~archived
  /\ ~lost
  /\ Occupying = {}
  /\ Move(k, {"queued"}, "running")
  /\ UNCHANGED <<outcome, lost, archived>>

\* The turn is being cancelled, or ends; when its host was lost, the same step
\* may also find it.
AskCancel(k) ==
  /\ Move(k, {"running"}, "cancelling")
  /\ lost' \in {lost, FALSE}
  /\ UNCHANGED <<outcome, archived>>

Conclude(k, o) ==
  /\ Move(k, {"running", "cancelling"}, "done")
  /\ outcome' = [outcome EXCEPT ![k] = o]
  /\ lost' \in {lost, FALSE}
  /\ UNCHANGED archived

LoseHost ==
  /\ Occupying # {}
  /\ lost' = TRUE
  /\ UNCHANGED <<phase, outcome, archived>>

FindHost ==
  /\ lost' = FALSE
  /\ UNCHANGED <<phase, outcome, archived>>

Archive ==
  /\ Occupying = {}
  /\ ~lost
  /\ archived' = TRUE
  /\ UNCHANGED <<phase, outcome, lost>>

Next ==
  \/ \E k \in TurnKeys :
       \/ Enqueue(k) \/ Withdraw(k) \/ Begin(k) \/ AskCancel(k)
       \/ \E o \in Outcomes : Conclude(k, o)
  \/ LoseHost
  \/ FindHost
  \/ Archive

Spec == Init /\ [][Next]_vars
=============================================================================
