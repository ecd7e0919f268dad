---------------------------- MODULE SessionStore ----------------------------
(***************************************************************************)
(* One contributor session as the SQLite store keeps it: its row in        *)
(* `sessions`, its rows in `pending_prompts`, `turns` and                  *)
(* `dispatch_intents`, its native binding, and the idempotency journal.    *)
(*                                                                         *)
(* Every operation of internal/storage is one immediate transaction on the *)
(* single writer connection, so it is one action.  A call that is refused, *)
(* and the replay of an operation that is already in the journal, change   *)
(* nothing: they are the stuttering steps of this specification.  The      *)
(* expected version of a compare-and-set call is the current one, or the   *)
(* call is refused.                                                        *)
(*                                                                         *)
(* The run's controller authority is the one of RunGrant: its steps happen *)
(* here together with what they write to the session's row.                *)
(***************************************************************************)
EXTENDS RunGrant

CONSTANTS
  TurnKeys,    \* identifiers of turns
  Prompts,     \* prompt texts, as sanitized for persistence
  Tools,       \* sets of required tools a prompt may state
  Results,     \* result texts of turns, as sanitized for persistence
  OpIDs,       \* operation ids that callers may present again
  Untracked,   \* stands for an operation id that is presented once
  NoKey, NoResult, Unstated, NotQueued, NoReceipt,
  MaxVersion   \* bound on the session's row version

ASSUME StoreAssumption ==
  /\ NoKey \notin TurnKeys
  /\ NoResult \notin Results
  /\ Unstated \notin Tools
  /\ NotQueued \notin [prompt : Prompts, tools : Tools]
  /\ Untracked \notin OpIDs
  /\ MaxVersion \in Nat

VARIABLES
  state,             \* "parked", "running" or "archived"
  lifecycle,         \* "active" or "archived"
  controllerStatus,  \* the projection of the run's connection
  visibility,        \* "reachable" or "host_lost"
  activeKey,         \* the turn the session is reserved for
  recoveryContext,   \* the turn a recovery episode is about
  recoveryGen,       \* recovery episodes opened so far
  activeRecoveryGen, \* the open episode, or 0
  rowVersion,        \* the row's optimistic-concurrency version
  bound,             \* a native binding is recorded
  pending,           \* pending[k]: the queued prompt of turn k
  turns,             \* turns[k]: the turn's row
  intents,           \* intents[k]: the turn's dispatch intent
  journal,           \* journal[o]: the receipt committed under o
  declared           \* history: the tools turn k was queued with

recoveryVars == <<visibility, recoveryContext, recoveryGen, activeRecoveryGen>>
rowVars == <<state, lifecycle, controllerStatus, activeKey, recoveryVars>>
childVars == <<bound, pending, turns, intents, declared>>
vars == <<grantVars, rowVars, rowVersion, childVars, journal>>

Live == {"running", "cancelling"}
Terminal == {"completed", "cancelled", "failed", "interrupted"}

NoTurn == [status |-> "none", result |-> NoResult, attempt |-> 0]
NoIntent == [phase |-> "none", attempt |-> 0, gen |-> 0, tools |-> Unstated]

PendingPrompt == [prompt : Prompts, tools : Tools]
TurnRow == [status : Live \cup Terminal \cup {"none"},
            result : Results \cup {NoResult},
            attempt : Nat]
IntentPhases == {"none", "intent_recorded", "receipt_acknowledged",
                 "acceptance_unknown", "resolved"}
IntentRow == [phase : IntentPhases, attempt : Nat, gen : Nat,
              tools : Tools \cup {Unstated}]
Commands == {"queue_prompt", "replace_pending_prompt", "discard_pending_prompt",
             "release_turn", "request_cancel", "record_terminal_outcome",
             "record_observed_execution_outcome", "record_dispatch_observation",
             "record_host_loss", "reconcile_session", "set_native_binding",
             "set_controller_connection", "archive_session"}
Receipt == [cmd : Commands, key : TurnKeys \cup {NoKey}, ver : Nat]

\* Every column holds a value of its domain (the CHECK clauses of the schema).
TypeOK ==
  /\ GrantTypeOK
  /\ state \in {"parked", "running", "archived"}
  /\ lifecycle \in {"active", "archived"}
  /\ controllerStatus \in {"connected", "disconnected"}
  /\ visibility \in {"reachable", "host_lost"}
  /\ activeKey \in TurnKeys \cup {NoKey}
  /\ recoveryContext \in TurnKeys \cup {NoKey}
  /\ recoveryGen \in Nat
  /\ activeRecoveryGen \in Nat
  /\ rowVersion \in Nat
  /\ bound \in BOOLEAN
  /\ pending \in [TurnKeys -> PendingPrompt \cup {NotQueued}]
  /\ turns \in [TurnKeys -> TurnRow]
  /\ intents \in [TurnKeys -> IntentRow]
  /\ journal \in [OpIDs -> Receipt \cup {NoReceipt}]
  /\ declared \in [TurnKeys -> Tools \cup {Unstated}]

-----------------------------------------------------------------------------
(* The session as CreateSession inserts it into a run that nobody adopted. *)

Init ==
  /\ GrantInit
  /\ state = "parked"
  /\ lifecycle = "active"
  /\ controllerStatus = "disconnected"
  /\ visibility = "reachable"
  /\ activeKey = NoKey
  /\ recoveryContext = NoKey
  /\ recoveryGen = 0
  /\ activeRecoveryGen = 0
  /\ rowVersion = 1
  /\ bound = FALSE
  /\ pending = [k \in TurnKeys |-> NotQueued]
  /\ turns = [k \in TurnKeys |-> NoTurn]
  /\ intents = [k \in TurnKeys |-> NoIntent]
  /\ journal = [o \in OpIDs |-> NoReceipt]
  /\ declared = [k \in TurnKeys |-> Unstated]

-----------------------------------------------------------------------------
(* Authority, idempotency and version bookkeeping.                         *)

\* A controller-class caller exists: an adopted grant is in force.
ControllerClass == active

\* An administrator-class caller exists: the grant in force, or the
\* bootstrap credential of a run that nobody adopted.
AdministratorClass == active \/ legacy

\* The run's grant is connected, the authoritative check of a new decision.
RunConnected == active /\ connected

\* The common gate of the operations that make a new decision.
DecisionAllowed ==
  /\ ControllerClass
  /\ RunConnected
  /\ lifecycle = "active"
  /\ controllerStatus = "connected"

\* The operation id has not been journaled.
Unjournaled(o) == o \in OpIDs => journal[o] = NoReceipt

RecordJournalEntry(o, cmd, k, ver) ==
  journal' = IF o \in OpIDs
               THEN [journal EXCEPT ![o] = [cmd |-> cmd, key |-> k, ver |-> ver]]
               ELSE journal

Bump ==
  /\ rowVersion < MaxVersion
  /\ rowVersion' = rowVersion + 1

\* The effectful end of an operation: version and journal move together.
Commit(o, cmd, k) == Bump /\ RecordJournalEntry(o, cmd, k, rowVersion + 1)

\* The end of an operation that found its effect already in place.
CommitNoop(o, cmd, k) ==
  /\ RecordJournalEntry(o, cmd, k, rowVersion)
  /\ UNCHANGED <<grantVars, rowVars, rowVersion, childVars>>

-----------------------------------------------------------------------------
(* Prompts.                                                                *)

QueuePrompt(o, k, p, t) ==
  /\ DecisionAllowed
  /\ Unjournaled(o)
  /\ k # activeKey
  /\ turns[k] = NoTurn
  /\ \/ /\ pending[k] = [prompt |-> p, tools |-> t]
        /\ CommitNoop(o, "queue_prompt", k)
     \/ /\ pending[k] = NotQueued
        /\ pending' = [pending EXCEPT ![k] = [prompt |-> p, tools |-> t]]
        /\ declared' = [declared EXCEPT ![k] = t]
        /\ Commit(o, "queue_prompt", k)
        /\ UNCHANGED <<grantVars, rowVars, bound, turns, intents>>

\* Slip: a restated set of tools is written instead of compared.
SlipReplaceTools(o, k, p, stated) ==
  /\ DecisionAllowed
  /\ Unjournaled(o)
  /\ pending[k] # NotQueued
  /\ pending' = [pending EXCEPT ![k] =
       [prompt |-> p, tools |-> IF stated = Unstated THEN pending[k].tools ELSE stated]]
  /\ Commit(o, "replace_pending_prompt", k)
  /\ UNCHANGED <<grantVars, rowVars, bound, turns, intents, declared>>

\* The stated tools, when stated, must be the ones journaled at queue time;
\* only the text is updated.
ReplacePendingPrompt(o, k, p, stated) ==
  /\ DecisionAllowed
  /\ Unjournaled(o)
  /\ pending[k] # NotQueued
  /\ stated # Unstated => stated = pending[k].tools
  /\ pending' = [pending EXCEPT ![k] = [prompt |-> p, tools |-> pending[k].tools]]
  /\ Commit(o, "replace_pending_prompt", k)
  /\ UNCHANGED <<grantVars, rowVars, bound, turns, intents, declared>>

DiscardPendingPrompt(o, k) ==
  /\ DecisionAllowed
  /\ Unjournaled(o)
  /\ pending[k] # NotQueued
  /\ pending' = [pending EXCEPT ![k] = NotQueued]
  /\ declared' = [declared EXCEPT ![k] = Unstated]
  /\ Commit(o, "discard_pending_prompt", k)
  /\ UNCHANGED <<grantVars, rowVars, bound, turns, intents>>

-----------------------------------------------------------------------------
(* Turns.  The attempt id, att_<version>_<key>, is kept as its version: a  *)
(* reference to an execution is a key and an attempt.                      *)

\* Slip: the attempt is named after the version before the release.
SlipAttempt == rowVersion

NewAttempt == rowVersion + 1

\* Slip: the reservation of the session is not checked.
SlipReleasableRunning == visibility # "host_lost"

\* Slip: the recovery episode is not checked.
SlipReleasableLost == state = "parked" /\ activeKey = NoKey

Releasable ==
  /\ visibility # "host_lost"
  /\ state = "parked"
  /\ activeKey = NoKey

ReleaseTurn(o, k) ==
  /\ DecisionAllowed
  /\ Unjournaled(o)
  /\ Releasable
  /\ pending[k] # NotQueued
  /\ pending' = [pending EXCEPT ![k] = NotQueued]
  /\ turns' = [turns EXCEPT ![k] = [status |-> "running", result |-> NoResult,
                                    attempt |-> NewAttempt]]
  /\ intents' = [intents EXCEPT ![k] = [phase |-> "intent_recorded",
                                        attempt |-> NewAttempt,
                                        gen |-> gen,
                                        tools |-> pending[k].tools]]
  /\ activeKey' = k
  /\ state' = "running"
  /\ Commit(o, "release_turn", k)
  /\ UNCHANGED <<grantVars, lifecycle, controllerStatus, recoveryVars, bound, declared>>

RequestCancel(o, k) ==
  /\ DecisionAllowed
  /\ Unjournaled(o)
  /\ state = "running"
  /\ activeKey = k
  /\ \/ /\ turns[k].status = "cancelling"
        /\ CommitNoop(o, "request_cancel", k)
     \/ /\ turns[k].status = "running"
        /\ turns' = [turns EXCEPT ![k].status = "cancelling"]
        /\ Commit(o, "request_cancel", k)
        /\ UNCHANGED <<grantVars, rowVars, bound, pending, intents, declared>>

\* An execution reference validates against the persisted attempt.
ResolveExecutionRef(k, attempt) == intents[k] # NoIntent /\ intents[k].attempt = attempt

\* The turn an outcome may be recorded for.
MatchesReservation(k) ==
  IF visibility = "host_lost"
    THEN k = activeKey \/ k = recoveryContext
    ELSE state = "running" /\ k = activeKey

\* Slip: a concluded turn accepts another outcome.
SlipUndecided(k) == TRUE

Undecided(k) == turns[k].status \notin Terminal

\* Slip: the turn is forgotten by the recovery episode it belongs to.
SlipRetainedContext(k) == NoKey

\* A turn that concludes while its host is lost stays the episode's turn.
RetainedContext(k) == IF visibility = "host_lost" THEN k ELSE recoveryContext

\* The write both outcome operations share: an exact duplicate is journaled,
\* a conflicting outcome of a concluded turn is refused, and a live turn is
\* concluded and its session parked; a lost host stays lost.
RecordOutcome(o, cmd, k, s, r) ==
  /\ Unjournaled(o)
  /\ lifecycle = "active"
  /\ turns[k] # NoTurn
  /\ \/ /\ turns[k].status = s
        /\ turns[k].result = r
        /\ CommitNoop(o, cmd, k)
     \/ /\ Undecided(k)
        /\ MatchesReservation(k)
        /\ turns' = [turns EXCEPT ![k].status = s, ![k].result = r]
        /\ intents' = [intents EXCEPT ![k].phase = "resolved"]
        /\ activeKey' = NoKey
        /\ state' = "parked"
        /\ recoveryContext' = RetainedContext(k)
        /\ Commit(o, cmd, k)
        /\ UNCHANGED <<grantVars, lifecycle, controllerStatus, visibility,
                       recoveryGen, activeRecoveryGen, bound, pending, declared>>

RecordTerminalOutcome(o, k, s, r) ==
  /\ ControllerClass
  /\ RecordOutcome(o, "record_terminal_outcome", k, s, r)

RecordObservedExecutionOutcome(o, k, attempt, s, r) ==
  /\ ResolveExecutionRef(k, attempt)
  /\ RecordOutcome(o, "record_observed_execution_outcome", k, s, r)

\* Slip: the child row changes under an unchanged session version.
SlipSetIntentPhase(o, k, ph) ==
  /\ intents' = [intents EXCEPT ![k].phase = ph]
  /\ RecordJournalEntry(o, "record_dispatch_observation", k, rowVersion)
  /\ UNCHANGED <<grantVars, rowVars, rowVersion, bound, pending, turns, declared>>

\* The write both acknowledgement operations share.
SetIntentPhase(o, k, ph) ==
  /\ intents' = [intents EXCEPT ![k].phase = ph]
  /\ Commit(o, "record_dispatch_observation", k)
  /\ UNCHANGED <<grantVars, rowVars, bound, pending, turns, declared>>

\* Execution path: refused once the intent is resolved.
RecordObservedDispatchAcknowledgement(o, k, attempt, ph) ==
  /\ ResolveExecutionRef(k, attempt)
  /\ Unjournaled(o)
  /\ intents[k].phase # "resolved"
  /\ SetIntentPhase(o, k, ph)

\* Controller path: a late or repeated observation is a journaled no-op.  The
\* caller presents the run's recorded lease, whatever that is.
RecordDispatchObservation(o, k, ph) ==
  /\ Unjournaled(o)
  /\ intents[k] # NoIntent
  /\ \/ /\ intents[k].phase \in {"resolved", ph}
        /\ CommitNoop(o, "record_dispatch_observation", k)
     \/ /\ intents[k].phase \notin {"resolved", ph}
        /\ SetIntentPhase(o, k, ph)

-----------------------------------------------------------------------------
(* Host loss and recovery.                                                 *)

RecordHostLoss(o) ==
  /\ ControllerClass
  /\ Unjournaled(o)
  /\ lifecycle = "active"
  /\ \/ /\ visibility = "host_lost"
        /\ CommitNoop(o, "record_host_loss", activeKey)
     \/ /\ visibility # "host_lost"
        /\ state = "running"
        /\ activeKey # NoKey
        /\ visibility' = "host_lost"
        /\ recoveryGen' = recoveryGen + 1
        /\ activeRecoveryGen' = recoveryGen + 1
        /\ recoveryContext' = activeKey
        /\ Commit(o, "record_host_loss", activeKey)
        /\ UNCHANGED <<grantVars, state, lifecycle, controllerStatus, activeKey, childVars>>

\* What the adapter's probe of a lost execution reports: still active,
\* uncertain, definitively missing, or terminal with a status.
ProbeOutcomes == {"reachable_active", "uncertain", "definitively_missing"} \cup Terminal

CloseEpisode ==
  /\ visibility' = "reachable"
  /\ activeRecoveryGen' = 0
  /\ recoveryContext' = NoKey
  /\ UNCHANGED recoveryGen

\* Slip: the probe's own word becomes the turn's status.
SlipReconciledStatus(out) == out

ReconciledStatus(out) == IF out \in Terminal THEN out ELSE "failed"

\* A probe that found the active turn's host.
ReconcileActive(k, out, r) ==
  /\ activeKey = k
  /\ \/ /\ out = "reachable_active"
        /\ CloseEpisode
        /\ UNCHANGED <<state, activeKey, turns, intents>>
     \/ /\ out = "uncertain"
        /\ UNCHANGED <<recoveryVars, state, activeKey, turns, intents>>
     \/ /\ out \in Terminal \cup {"definitively_missing"}
        /\ turns' = [turns EXCEPT
                       ![k].status = ReconciledStatus(out),
                       ![k].result = r]
        /\ intents' = [intents EXCEPT ![k].phase = "resolved"]
        /\ activeKey' = NoKey
        /\ state' = "parked"
        /\ CloseEpisode

\* A probe for a turn whose outcome arrived while its host was lost.
ReconcilePostTerminal(k, out) ==
  /\ activeKey = NoKey
  /\ recoveryContext = k
  /\ \/ out \in Terminal \cup {"definitively_missing"} /\ CloseEpisode
     \/ out = "uncertain" /\ UNCHANGED recoveryVars
  /\ UNCHANGED <<state, activeKey, turns, intents>>

ReconcileSession(o, k, attempt, g, out, r) ==
  /\ ResolveExecutionRef(k, attempt)
  /\ Unjournaled(o)
  /\ visibility = "host_lost"
  /\ g # 0
  /\ g = activeRecoveryGen
  /\ ReconcileActive(k, out, r) \/ ReconcilePostTerminal(k, out)
  /\ Commit(o, "reconcile_session", k)
  /\ UNCHANGED <<grantVars, lifecycle, controllerStatus, bound, pending, declared>>

-----------------------------------------------------------------------------
(* Administration of the session.                                          *)

SetNativeBinding(o) ==
  /\ AdministratorClass
  /\ Unjournaled(o)
  /\ lifecycle = "active"
  /\ bound' = TRUE
  /\ Commit(o, "set_native_binding", NoKey)
  /\ UNCHANGED <<grantVars, rowVars, pending, turns, intents, declared>>

SetControllerConnection(o, status) ==
  /\ ControllerClass
  /\ Unjournaled(o)
  /\ lifecycle = "active"
  /\ \/ /\ controllerStatus = status
        /\ CommitNoop(o, "set_controller_connection", NoKey)
     \/ /\ controllerStatus # status
        /\ controllerStatus' = status
        /\ Commit(o, "set_controller_connection", NoKey)
        /\ UNCHANGED <<grantVars, state, lifecycle, activeKey, recoveryVars, childVars>>

\* Slip: an open recovery episode does not keep the session.
SlipArchivable == state # "running" /\ activeKey = NoKey

Archivable == state # "running" /\ activeKey = NoKey /\ visibility # "host_lost"

ArchiveSession(o) ==
  /\ AdministratorClass
  /\ Unjournaled(o)
  /\ \/ /\ lifecycle = "archived"
        /\ CommitNoop(o, "archive_session", NoKey)
     \/ /\ lifecycle = "active"
        /\ Archivable
        /\ lifecycle' = "archived"
        /\ state' = "archived"
        /\ Commit(o, "archive_session", NoKey)
        /\ UNCHANGED <<grantVars, controllerStatus, activeKey, recoveryVars, childVars>>

-----------------------------------------------------------------------------
(* What the run's controller operations write to the session's row.        *)

ProjectSessionConnection(status) ==
  /\ controllerStatus' = status
  /\ IF controllerStatus # status THEN Bump ELSE UNCHANGED rowVersion
  /\ UNCHANGED <<state, lifecycle, activeKey, recoveryVars, childVars, journal>>

AdoptController ==
  /\ Adopt
  /\ UNCHANGED <<rowVars, rowVersion, childVars, journal>>

HandoffController == Handoff /\ ProjectSessionConnection("disconnected")

RevokeController ==
  (Revoke \/ RevokeLegacy) /\ ProjectSessionConnection("disconnected")

ConnectRunController == Connect /\ ProjectSessionConnection("connected")

DisconnectRunController == Disconnect /\ ProjectSessionConnection("disconnected")

-----------------------------------------------------------------------------

AllOps == OpIDs \cup {Untracked}
Attempts == 1 .. MaxVersion
ResultTexts == Results \cup {NoResult}
Acknowledgements == {"receipt_acknowledged", "acceptance_unknown"}

TurnOperation(o, k) ==
  \/ \E p \in Prompts, t \in Tools : QueuePrompt(o, k, p, t)
  \/ \E p \in Prompts, t \in Tools \cup {Unstated} : ReplacePendingPrompt(o, k, p, t)
  \/ DiscardPendingPrompt(o, k)
  \/ ReleaseTurn(o, k)
  \/ RequestCancel(o, k)
  \/ \E s \in Terminal, r \in ResultTexts : RecordTerminalOutcome(o, k, s, r)
  \/ \E a \in Attempts, s \in Terminal, r \in ResultTexts :
       RecordObservedExecutionOutcome(o, k, a, s, r)
  \/ \E a \in Attempts, ph \in Acknowledgements :
       RecordObservedDispatchAcknowledgement(o, k, a, ph)
  \/ \E ph \in Acknowledgements : RecordDispatchObservation(o, k, ph)
  \/ \E a \in Attempts, g \in 0 .. recoveryGen, out \in ProbeOutcomes, r \in ResultTexts :
       ReconcileSession(o, k, a, g, out, r)

SessionOperation(o) ==
  \/ RecordHostLoss(o)
  \/ SetNativeBinding(o)
  \/ \E status \in {"connected", "disconnected"} : SetControllerConnection(o, status)
  \/ ArchiveSession(o)

RunOperation ==
  \/ AdoptController \/ HandoffController \/ RevokeController
  \/ ConnectRunController \/ DisconnectRunController

Next ==
  \/ \E o \in AllOps, k \in TurnKeys : TurnOperation(o, k)
  \/ \E o \in AllOps : SessionOperation(o)
  \/ RunOperation

Spec == Init /\ [][Next]_vars
-----------------------------------------------------------------------------
(* Safety.                                                                 *)

\* The relational rules HydrateState enforces when it rebuilds the service's
\* state from disk (recovery.go, step 9): no sequence of committed operations
\* leaves a session that a restart would refuse as inconsistent.
HydrateConsistent ==
  /\ state = "running" =>
       /\ activeKey \in TurnKeys
       /\ turns[activeKey].status \in Live
       /\ intents[activeKey].phase \notin {"none", "resolved"}
  /\ state = "parked" =>
       /\ activeKey = NoKey
       /\ \A k \in TurnKeys : turns[k].status \notin Live
  /\ state = "archived" => activeKey = NoKey

\* A session that lost its host can always be brought back: the open episode
\* has a generation a caller can present and names a released turn, the one
\* the reservation is for or the one that concluded meanwhile, so that
\* handleReconcile's turn check and ReconcileSession's cases accept it.
HostLossRecoverable ==
  visibility = "host_lost" =>
    /\ activeRecoveryGen = recoveryGen /\ recoveryGen > 0
    /\ \E k \in TurnKeys :
         /\ intents[k] # NoIntent
         /\ activeKey = k \/ (activeKey = NoKey /\ recoveryContext = k)

\* An execution reference identifies one execution: attempts are never shared
\* by two turns, the two child rows of a turn agree on it, and the receipt of
\* a release, which a retried request is answered with, names the attempt that
\* is on the turn's row.
AttemptsNameExecutions ==
  /\ \A k \in TurnKeys : turns[k].attempt = intents[k].attempt
  /\ \A j, k \in TurnKeys :
       turns[j] # NoTurn /\ turns[j].attempt = turns[k].attempt => j = k
  /\ \A o \in OpIDs :
       journal[o] # NoReceipt /\ journal[o].cmd = "release_turn" =>
         turns[journal[o].key].attempt = journal[o].ver

\* What an execution is dispatched with is the tool set the controller queued
\* it with, through every replacement of the prompt in between.
ToolsAsQueued ==
  \A k \in TurnKeys : intents[k] # NoIntent => intents[k].tools = declared[k]

\* A recorded outcome is final: whatever arrives late, twice, or from a probe,
\* the row of a concluded turn never changes and its intent stays resolved.
TerminalIsFinal ==
  [][\A k \in TurnKeys :
       turns[k].status \in Terminal =>
         turns'[k] = turns[k] /\ intents'[k] = intents[k]]_vars

\* Optimistic concurrency is sound: whatever a snapshot of the session shows,
\* child rows included, cannot change under an unchanged row version, and
\* versions never go back.
EveryChangeMovesVersion ==
  [][/\ rowVersion' >= rowVersion
     /\ <<rowVars, childVars>>' # <<rowVars, childVars>> => rowVersion' > rowVersion]_vars

\* Nothing but the projection of the run's connection reaches the rows of an
\* archived session.
ArchivedFrozen ==
  [][lifecycle = "archived" =>
       UNCHANGED <<state, lifecycle, activeKey, recoveryVars, childVars>>]_vars

-----------------------------------------------------------------------------
(* The inductive invariant: how the rows of a session depend on each other.*)

\* The reservation on the session's row is for the one live turn.
ReservationExact ==
  /\ state = "running" <=> activeKey # NoKey
  /\ \A k \in TurnKeys : turns[k].status \in Live <=> activeKey = k
  /\ lifecycle = "archived" <=> state = "archived"

\* A turn's row, its intent and its queued prompt tell the same story.
RowsAgree ==
  \A k \in TurnKeys :
    /\ turns[k].status = "none" => turns[k] = NoTurn /\ intents[k] = NoIntent
    /\ turns[k].status # "none" =>
         /\ intents[k].phase # "none"
         /\ pending[k] = NotQueued
         /\ turns[k].attempt \in 1 .. rowVersion
    /\ turns[k].status \in Terminal <=> intents[k].phase = "resolved"
    /\ turns[k].status \notin Terminal => turns[k].result = NoResult
    /\ turns[k].attempt = intents[k].attempt
    /\ pending[k] # NotQueued => pending[k].tools = declared[k]
    /\ intents[k].phase # "none" => intents[k].tools = declared[k]

\* An open recovery episode is about the reserved turn, or about a concluded
\* one; a closed one leaves no trace but its generation.
EpisodeWellFormed ==
  /\ visibility = "host_lost" =>
       /\ lifecycle = "active"
       /\ recoveryGen > 0 /\ activeRecoveryGen = recoveryGen
       /\ recoveryContext \in TurnKeys
       /\ turns[recoveryContext].status # "none"
       /\ activeKey \in {NoKey, recoveryContext}
  /\ visibility = "reachable" => activeRecoveryGen = 0 /\ recoveryContext = NoKey

AttemptsDistinct ==
  \A j, k \in TurnKeys :
    turns[j].status # "none" /\ turns[j].attempt = turns[k].attempt => j = k

ReceiptsAgree ==
  \A o \in OpIDs :
    journal[o] # NoReceipt /\ journal[o].cmd = "release_turn" =>
      /\ journal[o].key \in TurnKeys
      /\ turns[journal[o].key].status # "none"
      /\ turns[journal[o].key].attempt = journal[o].ver

\* Everything the rows of a session owe each other, preserved by every
\* operation of the store; the invariants above follow from it.
StoreInv ==
  /\ TypeOK
  /\ ReservationExact
  /\ RowsAgree
  /\ EpisodeWellFormed
  /\ AttemptsDistinct
  /\ ReceiptsAgree

-----------------------------------------------------------------------------
(* The session as an implementation of TurnLifecycle.                      *)

TurnPhase(k) ==
  CASE turns[k].status \in Live -> turns[k].status
    [] turns[k].status \in Terminal -> "done"
    [] OTHER -> IF pending[k] = NotQueued THEN "absent" ELSE "queued"

NoOutcome == [status |-> "none", result |-> NoResult]

TurnOutcome(k) ==
  IF turns[k].status \in Terminal
    THEN [status |-> turns[k].status, result |-> turns[k].result]
    ELSE NoOutcome

Lifecycle == INSTANCE TurnLifecycle WITH
  Outcomes <- [status : Terminal, result : Results \cup {NoResult}],
  phase <- [k \in TurnKeys |-> TurnPhase(k)],
  outcome <- [k \in TurnKeys |-> TurnOutcome(k)],
  lost <- (visibility = "host_lost"),
  archived <- (lifecycle = "archived")

\* Every operation of the store is a step of the turn lifecycle, or changes
\* nothing the lifecycle speaks of: a turn begins once, alone, on a reachable
\* host, and concludes once.
ImplementsLifecycle == Lifecycle!Spec
=============================================================================
