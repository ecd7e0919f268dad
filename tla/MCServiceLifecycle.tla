------------------------- MODULE MCServiceLifecycle -------------------------
(***************************************************************************)
(* ServiceLifecycle for model checking the loops that stop a service: a    *)
(* drain or a signal, the signal without a command.  Nothing fair is cut   *)
(* off: no client is obliged to send a command and nobody to stop anything.*)
(***************************************************************************)
EXTENDS ServiceLifecycle

OneLoop ==
  /\ \A p, q \in Observers : refresh'[p].pc # "off" /\ refresh'[q].pc # "off" => p = q
  /\ "signal" \in Observers => refresh'["signal"].pc = "off" \/ controls' = 0

OneLoopSpec == Init /\ [][Next /\ OneLoop]_vars /\ Fairness
=============================================================================
