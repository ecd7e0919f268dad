------------------------------- MODULE MCControl -------------------------------
(***************************************************************************)
(* The control plane's shared memory for model checking: the controller's  *)
(* lease and attachment, the observation stream of the adapters, and the   *)
(* events route.  They share no state; a behaviour is one of one of them,  *)
(* and the others' fair steps are not enabled in it.                       *)
(***************************************************************************)
EXTENDS ControllerLease, BufferedStream, EventStream

VARIABLE part   \* whose behaviour this is

mcVars == <<vars, streamVars, eventVars, part>>

\* Operation ids are interchangeable: they are used in the order of their numbers.
OpsInOrder == \A o, p \in OpIDs : p < o /\ journal[o] # NoEntry => journal[p] # NoEntry

MCInit ==
  /\ part \in {"lease", "stream", "events"}
  /\ Init /\ StreamInit /\ EventInit

MCNext ==
  \/ part = "lease" /\ Next /\ OpsInOrder' /\ UNCHANGED <<streamVars, eventVars, part>>
  \/ part = "stream" /\ StreamNext /\ UNCHANGED <<vars, eventVars, part>>
  \/ part = "events" /\ EventNext /\ UNCHANGED <<vars, streamVars, part>>

MCSpec ==
  MCInit /\ [][MCNext]_mcVars /\ ConnectFairness /\ StreamFairness /\ EventFairness

-----------------------------------------------------------------------------

\* No channel is used after it was closed, by a sender of an adapter's stream or by a
\* broadcast, which would panic; and a terminal event is on its way to a client of the events
\* route only once the outcome is committed.
ChannelsAreSound == NoSendOnClosedChannel /\ StreamsAreSound
=============================================================================
