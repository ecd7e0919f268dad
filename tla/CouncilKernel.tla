---------------------------- MODULE CouncilKernel ----------------------------
(***************************************************************************)
(* The in-memory Session of internal/council: the domain rules of one      *)
(* contributor's session, without authority, versions or durability.       *)
(*                                                                         *)
(* One action per method; a call that returns an error changes nothing.    *)
(* Active and ActiveTurn are one variable: every method sets both or       *)
(* clears both, and ActiveTurn points at the record under Active.          *)
(***************************************************************************)
EXTENDS Naturals

CONSTANTS
  TurnKeys,       \* identifiers of turns
  Prompts,        \* prompt texts
  Results,        \* results and failure reasons
  NoKey, NoResult, NoPrompt,
  MaxRecoveries   \* bound on the recovery episodes of a behaviour

ASSUME KernelAssumption ==
  /\ NoKey \notin TurnKeys
  /\ NoResult \notin Results
  /\ NoPrompt \notin Prompts
  /\ MaxRecoveries \in Nat

VARIABLES
  state, lifecycle, controllerStatus, visibility,
  pending,            \* pending[k]: the queued prompt of k
  active,             \* the key of the active turn
  turns,              \* turns[k]: the record of k
  recoveryContext, recoveryGeneration, activeRecoveryGen

recoveryVars == <<visibility, recoveryContext, recoveryGeneration, activeRecoveryGen>>
vars == <<state, lifecycle, controllerStatus, pending, active, turns, recoveryVars>>

Live == {"running", "cancelling"}
Terminal == {"completed", "cancelled", "failed", "interrupted"}
TurnStatus == {"pending"} \cup Live \cup Terminal
ResultTexts == Results \cup {NoResult}

NoTurn == [prompt |-> NoPrompt, status |-> "none", result |-> NoResult]
TurnRecord == [prompt : Prompts, status : Live \cup Terminal, result : ResultTexts]

\* Every field of a Session holds a value of its Go type's named constants.
TypeOK ==
  /\ state \in {"parked", "running", "archived"}
  /\ lifecycle \in {"active", "archived"}
  /\ controllerStatus \in {"connected", "disconnected"}
  /\ visibility \in {"reachable", "host_lost"}
  /\ pending \in [TurnKeys -> Prompts \cup {NoPrompt}]
  /\ active \in TurnKeys \cup {NoKey}
  /\ turns \in [TurnKeys -> TurnRecord \cup {NoTurn}]
  /\ recoveryContext \in TurnKeys \cup {NoKey}
  /\ recoveryGeneration \in 0 .. MaxRecoveries
  /\ activeRecoveryGen \in 0 .. MaxRecoveries

\* NewSession.
Init ==
  /\ state = "parked"
  /\ lifecycle = "active"
  /\ controllerStatus = "connected"
  /\ visibility = "reachable"
  /\ pending = [k \in TurnKeys |-> NoPrompt]
  /\ active = NoKey
  /\ turns = [k \in TurnKeys |-> NoTurn]
  /\ recoveryContext = NoKey
  /\ recoveryGeneration = 0
  /\ activeRecoveryGen = 0

\* What authorize asks of the session, of a caller with the right lease.
Authorized ==
  /\ lifecycle # "archived"
  /\ state # "archived"
  /\ controllerStatus # "disconnected"

-----------------------------------------------------------------------------

\* Queuing the identical pending prompt again returns success and does nothing.
Queue(k, p) ==
  /\ Authorized
  /\ active # k
  /\ turns[k] = NoTurn
  /\ pending[k] = NoPrompt
  /\ pending' = [pending EXCEPT ![k] = p]
  /\ UNCHANGED <<state, lifecycle, controllerStatus, active, turns, recoveryVars>>

Discard(k) ==
  /\ Authorized
  /\ pending[k] # NoPrompt
  /\ pending' = [pending EXCEPT ![k] = NoPrompt]
  /\ UNCHANGED <<state, lifecycle, controllerStatus, active, turns, recoveryVars>>

Replace(k, p) ==
  /\ Authorized
  /\ pending[k] # NoPrompt
  /\ pending' = [pending EXCEPT ![k] = p]
  /\ UNCHANGED <<state, lifecycle, controllerStatus, active, turns, recoveryVars>>

\* Slip: the recovery episode is not checked.
SlipReleasable == state = "parked"

Releasable ==
  /\ visibility # "host_lost"
  /\ active # NoKey => turns[active].status # "cancelling"
  /\ state = "parked"

Release(k) ==
  /\ Authorized
  /\ Releasable
  /\ pending[k] # NoPrompt
  /\ pending' = [pending EXCEPT ![k] = NoPrompt]
  /\ turns' = [turns EXCEPT ![k] =
                 [prompt |-> pending[k], status |-> "running", result |-> NoResult]]
  /\ active' = k
  /\ state' = "running"
  /\ UNCHANGED <<lifecycle, controllerStatus, recoveryVars>>

\* The end of every method that concludes the active turn.
Park(k, status, result) ==
  /\ turns' = [turns EXCEPT ![k].status = status, ![k].result = result]
  /\ active' = NoKey
  /\ state' = "parked"
  /\ UNCHANGED <<lifecycle, controllerStatus, pending>>

Complete(k, r) ==
  /\ turns[k].status # "completed"
  /\ state = "running"
  /\ active = k
  /\ Park(k, "completed", r)
  /\ UNCHANGED recoveryVars

RequestCancel ==
  /\ Authorized
  /\ state = "running"
  /\ active # NoKey
  /\ turns[active].status = "running"
  /\ turns' = [turns EXCEPT ![active].status = "cancelling"]
  /\ UNCHANGED <<state, lifecycle, controllerStatus, pending, active, recoveryVars>>

ConfirmCancel(k) ==
  /\ active = k
  /\ turns[k].status = "cancelling"
  /\ Park(k, "cancelled", turns[k].result)
  /\ UNCHANGED recoveryVars

Interrupt(k) ==
  /\ active = k
  /\ turns[k].status \in Live
  /\ Park(k, "interrupted", turns[k].result)
  /\ UNCHANGED recoveryVars

Fail(k, r) ==
  /\ active = k
  /\ Park(k, "failed", r)
  /\ UNCHANGED recoveryVars

-----------------------------------------------------------------------------

RecordHostLoss ==
  /\ visibility # "host_lost"
  /\ state = "running"
  /\ active # NoKey
  /\ recoveryGeneration < MaxRecoveries
  /\ recoveryGeneration' = recoveryGeneration + 1
  /\ activeRecoveryGen' = recoveryGeneration + 1
  /\ visibility' = "host_lost"
  /\ recoveryContext' = active
  /\ UNCHANGED <<state, lifecycle, controllerStatus, pending, active, turns>>

CloseEpisode ==
  /\ visibility' = "reachable"
  /\ recoveryContext' = NoKey
  /\ activeRecoveryGen' = 0
  /\ UNCHANGED recoveryGeneration

\* Slip: a probe that saw the turn running undoes its cancellation.
SlipReconciledStatus(k, status) == status

\* A turn that is being cancelled stays so when it is found running.
ReconciledStatus(k, status) ==
  IF status = "running" /\ turns[k].status = "cancelling" THEN "cancelling" ELSE status

Conclusive(status) == status \in Terminal

ReconcileActive(k, status, r) ==
  /\ active = k
  /\ \/ /\ status \in Live
        /\ turns' = [turns EXCEPT ![k].status = ReconciledStatus(k, status)]
        /\ state' = "running"
        /\ UNCHANGED <<lifecycle, controllerStatus, pending, active>>
     \/ /\ Conclusive(status)
        /\ Park(k, status, r)

ReconcilePostTerminal(k, status) ==
  /\ active = NoKey
  /\ recoveryContext = k
  /\ Conclusive(status)
  /\ UNCHANGED <<state, lifecycle, controllerStatus, pending, active, turns>>

ReconcileHost(k, g, status, r) ==
  /\ visibility = "host_lost"
  /\ g # 0
  /\ g = activeRecoveryGen
  /\ ReconcileActive(k, status, r) \/ ReconcilePostTerminal(k, status)
  /\ CloseEpisode

-----------------------------------------------------------------------------

DisconnectController ==
  /\ controllerStatus' = "disconnected"
  /\ UNCHANGED <<state, lifecycle, pending, active, turns, recoveryVars>>

ReconnectController ==
  /\ lifecycle # "archived"
  /\ state # "archived"
  /\ controllerStatus' = "connected"
  /\ UNCHANGED <<state, lifecycle, pending, active, turns, recoveryVars>>

Archive ==
  /\ Authorized
  /\ state # "running"
  /\ active = NoKey
  /\ visibility # "host_lost"
  /\ state' = "archived"
  /\ lifecycle' = "archived"
  /\ UNCHANGED <<controllerStatus, pending, active, turns, recoveryVars>>

TurnMethod(k) ==
  \/ \E p \in Prompts : Queue(k, p) \/ Replace(k, p)
  \/ Discard(k)
  \/ Release(k)
  \/ ConfirmCancel(k)
  \/ Interrupt(k)
  \/ \E r \in ResultTexts : Complete(k, r) \/ Fail(k, r)
  \/ \E g \in 0 .. MaxRecoveries, status \in TurnStatus, r \in ResultTexts :
       ReconcileHost(k, g, status, r)

Next ==
  \/ \E k \in TurnKeys : TurnMethod(k)
  \/ RequestCancel
  \/ RecordHostLoss
  \/ DisconnectController
  \/ ReconnectController
  \/ Archive

Spec == Init /\ [][Next]_vars

-----------------------------------------------------------------------------
(* Properties.                                                             *)

TurnPhase(k) ==
  CASE turns[k].status \in Live -> turns[k].status
    [] turns[k].status \in Terminal -> "done"
    [] OTHER -> IF pending[k] = NoPrompt THEN "absent" ELSE "queued"

NoOutcome == [status |-> "none", result |-> NoResult]

TurnOutcome(k) ==
  IF turns[k].status \in Terminal
    THEN [status |-> turns[k].status, result |-> turns[k].result]
    ELSE NoOutcome

Lifecycle == INSTANCE TurnLifecycle WITH
  Outcomes <- [status : Terminal, result : ResultTexts],
  phase <- [k \in TurnKeys |-> TurnPhase(k)],
  outcome <- [k \in TurnKeys |-> TurnOutcome(k)],
  lost <- (visibility = "host_lost"),
  archived <- (lifecycle = "archived")

\* The domain kernel obeys the same turn lifecycle as the durable store: in
\* particular a probe cannot bring a turn that is being cancelled back to
\* running, and nothing begins while the host is lost.
ImplementsLifecycle == Lifecycle!Spec

\* A lost session stays recoverable: the open episode carries the newest
\* generation and names a released turn, and the turn that is active, if any,
\* is that one, so that a reconciliation under (context, generation) is
\* accepted whatever happened to the turn in the meantime.
EpisodeNamesTurn ==
  visibility = "host_lost" =>
    /\ activeRecoveryGen = recoveryGeneration /\ recoveryGeneration > 0
    /\ recoveryContext \in TurnKeys /\ turns[recoveryContext] # NoTurn
    /\ active \in {NoKey, recoveryContext}
=============================================================================
