------------------------------- MODULE MCService -------------------------------
(***************************************************************************)
(* ServiceLifecycle for model checking.  Two commands, a signal and a crash*)
(* are explored while no poll or stop is under way; polls and stops with   *)
(* one command in the first instance, before a signal.                     *)
(***************************************************************************)
EXTENDS ServiceLifecycle

InBounds ==
  \/ \A p \in {"status", "stop"} : refresh[p].pc = "off"
  \/ refresh["signal"].pc = "off" /\ controls <= 1 /\ instance = 1

-----------------------------------------------------------------------------

\* The types hold, and a turn is handed to an adapter once, whatever is retried and whenever the
\* process crashes (DispatchedOnce).
ServiceInv == TypeOK /\ DispatchedOnce
=============================================================================
