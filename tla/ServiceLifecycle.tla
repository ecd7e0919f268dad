-------------------------- MODULE ServiceLifecycle --------------------------
(***************************************************************************)
(* The service around the store: the coordinator's admission gate and      *)
(* shutdown counters, the supervisor of each accepted execution, the       *)
(* release, cancel and reconcile handlers, the diagnostic refreshes, the   *)
(* three ways to stop, and a crash at any moment.                          *)
(*                                                                         *)
(* Every turn is the only turn of a session of its own, so that several    *)
(* executions run at once; SessionStore models the turns of one session.   *)
(* At most one release, one cancel and one reconcile handler of a turn run *)
(* at a time; recovery generations are SessionStore's and the controller   *)
(* gate is ControllerLease's, and both pass here.  A step is one critical  *)
(* section of the coordinator, one store transaction or read, or one call  *)
(* of the adapter.                                                         *)
(*                                                                         *)
(* pendingHandoffs, liveWorkers and inFlightControl count handlers and     *)
(* workers between their registration and their deferred done(), and are   *)
(* derived from the program counters; pendingCommits counts a part of a    *)
(* worker's life and is covered by liveWorkers.                            *)
(***************************************************************************)
EXTENDS Naturals, FiniteSets

CONSTANTS
  Turns,
  Observers,   \* refreshes in use: of {"status", "stop", "drain", "signal"}
  NoVerdict,
  MaxEpoch,    \* bound on the coordinator's epoch, over which nothing starts
  MaxControls, \* bound on cancel and reconcile requests
  MaxInstance  \* bound on service instances

ASSUME ServiceAssumption ==
  /\ IsFiniteSet(Turns)
  /\ Observers \subseteq {"status", "stop", "drain", "signal"}
  /\ MaxEpoch \in Nat /\ MaxControls \in Nat /\ MaxInstance \in Nat

Live == {"running", "cancelling"}
Terminal == {"completed", "cancelled", "failed", "interrupted"}
ASSUME VerdictAssumption == NoVerdict \notin Terminal

VARIABLES
  turn,       \* turn[k]: the turn's status on disk, "queued" before release
  lost,       \* lost[k]: the session's visibility is host_lost
  asked,      \* asked[k]: a cancellation of k is in the journal
  gate,       \* the coordinator's state
  phase,      \* "up", "joining" (teardown has begun), "closed" or "forced"
  release,    \* release[k]: program counter of the release handler of k
  worker,     \* worker[k]: program counter of the supervisor of k
  verdict,    \* verdict[k]: the outcome that supervisor is recording
  cancelled,  \* cancelled[k]: its termination scope is cancelled
  cancel,     \* cancel[k]: program counter of the cancel handler of k
  reconcile,  \* reconcile[k]: program counter of the reconcile handler of k
  controls,   \* cancel and reconcile requests so far
  blockers,   \* recoveryBlockers
  epoch,      \* blockerEpoch
  refresh,    \* refresh[p]: program counter and locals of a refresh
  instance,   \* the service instance
  idle,       \* history: this instance accepted an idle stop
  dispatched, \* history: how often k was handed to the adapter
  evidence    \* history: the outcomes somebody had grounds for

diskVars == <<turn, lost, asked>>
coordVars == <<gate, blockers, epoch>>
workVars == <<worker, verdict, cancelled>>
handlerVars == <<release, cancel, reconcile, controls>>
historyVars == <<dispatched, evidence>>
vars == <<diskVars, coordVars, phase, workVars, handlerVars, refresh, instance, idle, historyVars>>

Off == [pc |-> "off", epoch |-> 0, live |-> {}, n |-> 0]

\* Every counter, program counter and row has a value of its domain: no
\* supervisor reaches its commit without an outcome of the closed set.
TypeOK ==
  /\ turn \in [Turns -> {"queued"} \cup Live \cup Terminal]
  /\ lost \in [Turns -> BOOLEAN]
  /\ asked \in [Turns -> BOOLEAN]
  /\ gate \in {"running", "draining", "stopping"}
  /\ phase \in {"up", "joining", "closed", "forced"}
  /\ release \in [Turns -> {"idle", "admitted", "committed", "leaving"}]
  /\ worker \in [Turns -> {"none", "start", "dispatching", "observe", "collect",
                           "commit", "abort", "unrecorded", "block", "retire"}]
  /\ verdict \in [Turns -> Terminal \cup {NoVerdict}]
  /\ cancelled \in [Turns -> BOOLEAN]
  /\ cancel \in [Turns -> {"idle", "tracked", "requested", "confirmed"}]
  /\ reconcile \in [Turns -> {"idle", "tracked", "probing"}]
  /\ controls \in Nat
  /\ blockers \in Nat
  /\ epoch \in Nat
  /\ refresh \in [Observers ->
       [pc : {"off", "epoch", "live", "turns", "lost", "apply", "decide", "teardown"},
        epoch : Nat, live : SUBSET Turns, n : Nat]]
  /\ instance \in Nat
  /\ idle \in BOOLEAN
  /\ dispatched \in [Turns -> Nat]
  /\ evidence \in [Turns -> SUBSET Terminal]

\* A service that has just started on a file with queued turns only.
Init ==
  /\ turn = [k \in Turns |-> "queued"]
  /\ lost = [k \in Turns |-> FALSE]
  /\ asked = [k \in Turns |-> FALSE]
  /\ gate = "running"
  /\ phase = "up"
  /\ release = [k \in Turns |-> "idle"]
  /\ worker = [k \in Turns |-> "none"]
  /\ verdict = [k \in Turns |-> NoVerdict]
  /\ cancelled = [k \in Turns |-> FALSE]
  /\ cancel = [k \in Turns |-> "idle"]
  /\ reconcile = [k \in Turns |-> "idle"]
  /\ controls = 0
  /\ blockers = 0
  /\ epoch = 0
  /\ refresh = [p \in Observers |-> Off]
  /\ instance = 1
  /\ idle = FALSE
  /\ dispatched = [k \in Turns |-> 0]
  /\ evidence = [k \in Turns |-> {}]

-----------------------------------------------------------------------------
(* The coordinator.                                                        *)

LiveWorkerKeys == {k \in Turns : worker[k] # "none"}

\* The counters other than recoveryBlockers are zero.
NothingInFlight ==
  \A k \in Turns :
    /\ release[k] = "idle"
    /\ worker[k] = "none"
    /\ cancel[k] = "idle"
    /\ reconcile[k] = "idle"

IsShutdownEligible == NothingInFlight /\ blockers = 0

\* SetState never goes back.
SetState(s) == gate' = IF gate = "stopping" THEN gate ELSE s

AdvanceEpoch == epoch' = epoch + 1

TrackControl == gate # "stopping"

\* Slip: a worker that retires leaves the epoch as it is.
SlipRetireEpoch == UNCHANGED epoch

RetireEpoch == AdvanceEpoch

\* A store transaction failed, timed out or was refused as stale; the request
\* ends in an error and changes nothing.
GiveUp(pc, k) ==
  /\ UNCHANGED <<diskVars, coordVars, phase, workVars, refresh, instance, idle, historyVars>>
  /\ pc' = [pc EXCEPT ![k] = "idle"]

-----------------------------------------------------------------------------
(* handleRelease.                                                          *)

\* New requests reach a handler as long as the listener is open.
Serving == phase = "up" /\ epoch < MaxEpoch

\* Slip: only a drain closes the gate to releases.
SlipReleaseOpen == gate # "draining"

ReleaseOpen == gate = "running"

AdmitRelease(k) ==
  /\ Serving
  /\ release[k] = "idle"
  /\ ReleaseOpen
  /\ release' = [release EXCEPT ![k] = "admitted"]
  /\ UNCHANGED <<diskVars, coordVars, phase, workVars, cancel, reconcile, controls,
                 refresh, instance, idle, historyVars>>

\* Slip: a replayed release is taken for a new one.
SlipNewRelease(k) == turn[k] \in {"queued", "running"}

\* ReleaseDispositionNew: any other release of k is refused or a replay.
NewRelease(k) == turn[k] = "queued"

ReleaseTurn(k) ==
  /\ release[k] = "admitted"
  /\ NewRelease(k)
  /\ turn' = [turn EXCEPT ![k] = "running"]
  /\ release' = [release EXCEPT ![k] = "committed"]
  /\ UNCHANGED <<lost, asked, coordVars, phase, workVars, cancel, reconcile, controls,
                 refresh, instance, idle, historyVars>>

ReleaseRefused(k) ==
  /\ release[k] = "admitted"
  /\ GiveUp(release, k)
  /\ UNCHANGED <<cancel, reconcile, controls>>

\* RegisterWorker and the start of the supervisor; a stopping service leaves the
\* committed turn to the next instance.
RegisterWorker(k) ==
  /\ release[k] = "committed"
  /\ release' = [release EXCEPT ![k] = "leaving"]
  /\ \/ /\ gate = "stopping"
        /\ UNCHANGED <<worker, epoch>>
     \/ /\ gate # "stopping"
        /\ worker' = [worker EXCEPT ![k] = "start"]
        /\ AdvanceEpoch
  /\ UNCHANGED <<diskVars, gate, blockers, phase, verdict, cancelled, cancel, reconcile,
                 controls, refresh, instance, idle, historyVars>>

DoneAdmission(k) ==
  /\ release[k] = "leaving"
  /\ release' = [release EXCEPT ![k] = "idle"]
  /\ UNCHANGED <<diskVars, coordVars, phase, workVars, cancel, reconcile, controls,
                 refresh, instance, idle, historyVars>>

ReleaseStep(k) ==
  AdmitRelease(k) \/ ReleaseTurn(k) \/ ReleaseRefused(k) \/ RegisterWorker(k) \/ DoneAdmission(k)

-----------------------------------------------------------------------------
(* ExecutionSupervisor.Run.                                                *)

Goto(k, pc) == worker' = [worker EXCEPT ![k] = pc]

\* The supervisor has an outcome with grounds to record it: one it collected, or
\* the failure of an execution that never started.
Resolve(k, pc, o) ==
  /\ Goto(k, pc)
  /\ verdict' = [verdict EXCEPT ![k] = o]
  /\ evidence' = [evidence EXCEPT ![k] = @ \cup {o}]

\* Slip: a supervisor that is being terminated records a failure.
SlipTerminated(k) ==
  /\ Goto(k, "commit")
  /\ verdict' = [verdict EXCEPT ![k] = "failed"]

\* A terminating service fabricates nothing: the turn stays unresolved.
Terminated(k) == Goto(k, "retire") /\ UNCHANGED verdict

\* Up to the call of Dispatch.  A prompt that cannot be read is a failure.
BeginExecution(k) ==
  /\ worker[k] = "start"
  /\ \/ cancelled[k] /\ Terminated(k) /\ UNCHANGED historyVars
     \/ ~cancelled[k] /\ Resolve(k, "abort", "failed") /\ UNCHANGED dispatched
     \/ /\ ~cancelled[k]
        /\ Goto(k, "dispatching")
        /\ dispatched' = [dispatched EXCEPT ![k] = @ + 1]
        /\ UNCHANGED <<verdict, evidence>>

\* Dispatch returns: accepted, rejected, or neither.  Acknowledgements go to the
\* dispatch intent, which SessionStore models.
DispatchReturns(k) ==
  /\ worker[k] = "dispatching"
  /\ \/ Goto(k, "observe") /\ UNCHANGED <<verdict, evidence>>
     \/ cancelled[k] /\ Terminated(k) /\ UNCHANGED evidence
     \/ ~cancelled[k] /\ Resolve(k, "abort", "failed")
     \/ ~cancelled[k] /\ Goto(k, "block") /\ UNCHANGED <<verdict, evidence>>
  /\ UNCHANGED dispatched

\* The stream of events of an accepted turn ends, or there is none to observe.
StreamEnds(k) ==
  /\ worker[k] = "observe"
  /\ \/ cancelled[k] /\ Terminated(k)
     \/ ~cancelled[k] /\ Goto(k, "collect") /\ UNCHANGED verdict
  /\ UNCHANGED historyVars

\* Slip: only a termination ends the polling.
SlipCollectStops(k) ==
  /\ worker[k] = "collect"
  /\ cancelled[k]
  /\ Terminated(k)
  /\ UNCHANGED historyVars

\* collectUntilTerminal before it polls: the execution is being terminated, or
\* another path resolved the turn.
CollectStops(k) ==
  /\ worker[k] = "collect"
  /\ cancelled[k] \/ turn[k] \in Terminal
  /\ Terminated(k)
  /\ UNCHANGED historyVars

\* Collect returns an error, a foreign result, or a result of this turn.  Any
\* other answer is pending, and the supervisor polls again, without bound.
CollectAnswers(k) ==
  /\ worker[k] = "collect"
  /\ ~cancelled[k]
  /\ \/ Goto(k, "block") /\ UNCHANGED <<verdict, evidence>>
     \/ \E o \in Terminal : Resolve(k, "commit", o)
  /\ UNCHANGED dispatched

\* RecordObservedExecutionOutcome: a live turn takes the outcome, an exact
\* duplicate is accepted, a different outcome is refused.
Records(k, o) ==
  \/ /\ turn[k] \in Live
     /\ turn' = [turn EXCEPT ![k] = o]
  \/ /\ turn[k] = o
     /\ UNCHANGED turn

\* recordTerminalOutcomeWithRetry.
CommitOutcome(k) ==
  /\ worker[k] \in {"commit", "abort"}
  /\ \/ Records(k, verdict[k]) /\ Goto(k, "retire")
     \/ UNCHANGED turn /\ Goto(k, IF worker[k] = "commit" THEN "unrecorded" ELSE "block")
  /\ verdict' = [verdict EXCEPT ![k] = NoVerdict]
  /\ UNCHANGED historyVars

\* The collected outcome was not recorded; one may have been by another path.
Unrecorded(k) ==
  /\ worker[k] = "unrecorded"
  /\ \/ turn[k] \in Terminal /\ Goto(k, "retire")
     \/ Goto(k, "block")
  /\ UNCHANGED <<verdict, historyVars>>

\* The steps of the supervisor that leave the coordinator alone: those its
\* adapter answers, and its own.
AdapterStep(k) ==
  /\ DispatchReturns(k) \/ StreamEnds(k) \/ CollectAnswers(k)
  /\ UNCHANGED <<diskVars, coordVars, phase, cancelled, handlerVars, refresh, instance, idle>>

ExecutionStep(k) ==
  /\ \/ /\ BeginExecution(k) \/ CollectStops(k) \/ Unrecorded(k)
        /\ UNCHANGED turn
     \/ CommitOutcome(k)
  /\ UNCHANGED <<lost, asked, coordVars, phase, cancelled, handlerVars, refresh, instance, idle>>

AddRecoveryBlocker(k) ==
  /\ worker[k] = "block"
  /\ blockers' = blockers + 1
  /\ AdvanceEpoch
  /\ Goto(k, "retire")
  /\ UNCHANGED <<diskVars, gate, phase, verdict, cancelled, handlerVars, refresh,
                 instance, idle, historyVars>>

\* The worker's deferred done().
Retire(k) ==
  /\ worker[k] = "retire"
  /\ Goto(k, "none")
  /\ cancelled' = [cancelled EXCEPT ![k] = FALSE]
  /\ RetireEpoch
  /\ UNCHANGED <<diskVars, gate, blockers, phase, verdict, handlerVars, refresh,
                 instance, idle, historyVars>>

SupervisorStep(k) == AdapterStep(k) \/ ExecutionStep(k) \/ AddRecoveryBlocker(k) \/ Retire(k)

-----------------------------------------------------------------------------
(* handleCancel and handleReconcile.                                       *)

BeginControl(pc, k) ==
  /\ Serving
  /\ TrackControl
  /\ pc[k] = "idle"
  /\ controls < MaxControls
  /\ controls' = controls + 1
  /\ pc' = [pc EXCEPT ![k] = "tracked"]
  /\ UNCHANGED <<diskVars, coordVars, phase, workVars, release, refresh, instance, idle, historyVars>>

\* RequestCancel of a live turn, or the replay of one that is in the journal.
RequestCancel(k) ==
  /\ cancel[k] = "tracked"
  /\ turn[k] \in Live \/ asked[k]
  /\ turn' = [turn EXCEPT ![k] = IF turn[k] = "running" THEN "cancelling" ELSE turn[k]]
  /\ asked' = [asked EXCEPT ![k] = TRUE]
  /\ cancel' = [cancel EXCEPT ![k] = "requested"]
  /\ UNCHANGED <<lost, coordVars, phase, workVars, release, reconcile, controls,
                 refresh, instance, idle, historyVars>>

\* The adapter confirms that this execution was cancelled.
CancelConfirmed(k) ==
  /\ cancel[k] = "requested"
  /\ cancel' = [cancel EXCEPT ![k] = "confirmed"]
  /\ evidence' = [evidence EXCEPT ![k] = @ \cup {"cancelled"}]
  /\ UNCHANGED <<diskVars, coordVars, phase, workVars, release, reconcile, controls,
                 refresh, instance, idle, dispatched>>

RecordCancelled(k) ==
  /\ cancel[k] = "confirmed"
  /\ Records(k, "cancelled")
  /\ cancel' = [cancel EXCEPT ![k] = "idle"]
  /\ UNCHANGED <<lost, asked, coordVars, phase, workVars, release, reconcile, controls,
                 refresh, instance, idle, historyVars>>

\* The request is refused, the adapter reports anything but a confirmation, or
\* the outcome cannot be recorded.
CancelEnds(k) ==
  /\ cancel[k] # "idle"
  /\ GiveUp(cancel, k)
  /\ UNCHANGED <<release, reconcile, controls>>

\* The turn is the session's active one or the retained one of a lost host, and
\* an episode is open or is opened now.
OpenEpisode(k) ==
  /\ reconcile[k] = "tracked"
  /\ turn[k] \in Live \/ lost[k]
  /\ lost' = [lost EXCEPT ![k] = TRUE]
  /\ reconcile' = [reconcile EXCEPT ![k] = "probing"]
  /\ UNCHANGED <<turn, asked, coordVars, phase, workVars, release, cancel, controls,
                 refresh, instance, idle, historyVars>>

\* ReconcileSession with the probe's answer: reachable, a terminal outcome or a
\* definitively missing execution, or a host found after the turn concluded.
ReconcileSession(k) ==
  /\ reconcile[k] = "probing"
  /\ lost[k]
  /\ \/ turn[k] \in Live /\ UNCHANGED <<turn, evidence>>
     \/ \E o \in Terminal :
          /\ turn[k] \in Live
          /\ turn' = [turn EXCEPT ![k] = o]
          /\ evidence' = [evidence EXCEPT ![k] = @ \cup {o}]
     \/ turn[k] \in Terminal /\ UNCHANGED <<turn, evidence>>
  /\ lost' = [lost EXCEPT ![k] = FALSE]
  /\ reconcile' = [reconcile EXCEPT ![k] = "idle"]
  /\ UNCHANGED <<asked, coordVars, phase, workVars, release, cancel, controls,
                 refresh, instance, idle, dispatched>>

\* The request is refused, the session cannot be resumed, the probe fails, or
\* its answer is uncertain: an episode that is open stays open.
ReconcileEnds(k) ==
  /\ reconcile[k] # "idle"
  /\ GiveUp(reconcile, k)
  /\ UNCHANGED <<release, cancel, controls>>

ControlRequest(k) ==
  \/ BeginControl(cancel, k) /\ UNCHANGED reconcile
  \/ BeginControl(reconcile, k) /\ UNCHANGED cancel

CancelStep(k) == RequestCancel(k) \/ CancelConfirmed(k) \/ RecordCancelled(k) \/ CancelEnds(k)

ReconcileStep(k) == OpenEpisode(k) \/ ReconcileSession(k) \/ ReconcileEnds(k)

-----------------------------------------------------------------------------
(* Diagnostic refreshes: handleStatus and handleReadiness, the idle stop,  *)
(* and the loops of the drain and of the signal handler.                   *)

Refresh(p, pc) == refresh' = [refresh EXCEPT ![p].pc = pc]

\* A live turn nobody in this process attends to.
Unresolved(k) == turn[k] \in Live /\ worker[k] = "none"

\* What ends a refresh: the answer of the status routes, the decision of the
\* others.
AfterApply(p) == IF p = "status" THEN Off ELSE [Off EXCEPT !.pc = "decide"]

\* Slip: a diagnostic read only ever raises the count.
SlipReconciledCount(n) == IF n > blockers THEN n ELSE blockers

ReconciledCount(n) == n

BeginRefresh(p) ==
  /\ Serving
  /\ p \in {"status", "stop"}
  /\ refresh[p].pc = "off"
  /\ Refresh(p, "epoch")
  /\ UNCHANGED gate

\* handleStop with drain, and the first signal: the gate closes and a loop starts.
BeginDrain(p) ==
  /\ phase = "up"
  /\ p \in {"drain", "signal"}
  /\ refresh[p].pc = "off"
  /\ SetState("draining")
  /\ Refresh(p, "epoch")

ReadEpoch(p) ==
  /\ refresh[p].pc = "epoch"
  /\ refresh' = [refresh EXCEPT ![p].pc = "live", ![p].epoch = epoch]

ReadLiveWorkers(p) ==
  /\ refresh[p].pc = "live"
  /\ refresh' = [refresh EXCEPT ![p].pc = "turns", ![p].live = LiveWorkerKeys]

\* GetDiagnosticCounts, the turns: live ones without a live worker.
ReadTurns(p) ==
  /\ refresh[p].pc = "turns"
  /\ refresh' = [refresh EXCEPT
       ![p].pc = "lost",
       ![p].n = Cardinality({k \in Turns : turn[k] \in Live /\ k \notin refresh[p].live})]

\* GetDiagnosticCounts, the sessions: those that lost their host.
ReadLost(p) ==
  /\ refresh[p].pc = "lost"
  /\ refresh' = [refresh EXCEPT
       ![p].pc = "apply",
       ![p].n = @ + Cardinality({k \in Turns : lost[k]})]

\* A failed read: the status routes and the stop answer with an error, the
\* loops wait for their next tick.
RefreshFails(p) ==
  /\ refresh[p].pc \in {"turns", "lost"}
  /\ refresh' = [refresh EXCEPT
       ![p] = IF p \in {"drain", "signal"} THEN [Off EXCEPT !.pc = "epoch"] ELSE Off]

\* ApplyDiagnosticBlockers: a count that may be outdated is not applied, and no
\* caller looks at whether it was.
ApplyDiagnosticBlockers(p) ==
  /\ refresh[p].pc = "apply"
  /\ blockers' = IF refresh[p].epoch = epoch THEN ReconciledCount(refresh[p].n) ELSE blockers
  /\ refresh' = [refresh EXCEPT ![p] = AfterApply(p)]

RefreshStep(p) ==
  /\ \/ (BeginRefresh(p) \/ BeginDrain(p)) /\ UNCHANGED blockers
     \/ /\ ReadEpoch(p) \/ ReadLiveWorkers(p) \/ ReadTurns(p) \/ ReadLost(p) \/ RefreshFails(p)
        /\ UNCHANGED <<gate, blockers>>
     \/ ApplyDiagnosticBlockers(p) /\ UNCHANGED gate
  /\ UNCHANGED <<diskVars, epoch, phase, workVars, handlerVars, instance, idle, historyVars>>

-----------------------------------------------------------------------------
(* Stopping.                                                               *)

\* Teardown marks the server as not running and closes the command gate.
BeginTeardown ==
  /\ phase = "up"
  /\ phase' = "joining"
  /\ gate' = "stopping"

\* TryStopIdle after the stop request's refresh.
TryStopIdle ==
  /\ "stop" \in Observers
  /\ refresh["stop"].pc = "decide"
  /\ refresh' = [refresh EXCEPT !["stop"] = Off]
  /\ \/ /\ gate = "running" /\ IsShutdownEligible
        /\ gate' = "stopping"
        /\ idle' = TRUE
     \/ /\ ~(gate = "running" /\ IsShutdownEligible)
        /\ UNCHANGED <<gate, idle>>
  /\ UNCHANGED <<diskVars, blockers, epoch, phase, workVars, handlerVars, instance, historyVars>>

\* A tick of drainUntilEligible or handleSignalGrace after its refresh; a loop
\* whose service is closed returns.
DrainTick(p) ==
  /\ p \in Observers \cap {"drain", "signal"}
  /\ refresh[p].pc = "decide"
  /\ Refresh(p, IF IsShutdownEligible THEN "teardown" ELSE "epoch")
  /\ UNCHANGED <<gate, phase, cancelled>>

\* The signal's grace period is over: executions are terminated.
GraceExpires(p) ==
  /\ p \in Observers \cap {"signal"}
  /\ refresh[p].pc = "epoch"
  /\ cancelled' = [k \in Turns |-> worker[k] # "none"]
  /\ Refresh(p, "teardown")
  /\ UNCHANGED <<gate, phase>>

\* The loop calls Teardown, which only the first caller carries out.
LoopTeardown(p) ==
  /\ refresh[p].pc = "teardown"
  /\ refresh' = [refresh EXCEPT ![p] = Off]
  /\ \/ BeginTeardown
     \/ phase # "up" /\ UNCHANGED <<gate, phase>>
  /\ UNCHANGED cancelled

\* The loop returns when the service has closed.
LoopReturns(p) ==
  /\ p \in Observers \cap {"drain", "signal"}
  /\ phase \in {"closed", "forced"}
  /\ refresh[p].pc = "epoch"
  /\ refresh' = [refresh EXCEPT ![p] = Off]
  /\ UNCHANGED <<gate, phase, cancelled>>

LoopStep(p) ==
  /\ DrainTick(p) \/ GraceExpires(p) \/ LoopTeardown(p) \/ LoopReturns(p)
  /\ UNCHANGED <<diskVars, blockers, epoch, worker, verdict, handlerVars, instance, idle, historyVars>>

\* The teardown that an accepted idle stop schedules.
StopTeardown ==
  /\ idle
  /\ BeginTeardown
  /\ UNCHANGED <<diskVars, blockers, epoch, workVars, handlerVars, refresh, instance, idle, historyVars>>

\* Teardown joined everything: HTTP handlers, workers, commits and controls.
OrderlyTeardown ==
  /\ phase = "joining"
  /\ NothingInFlight
  /\ \A p \in Observers \cap {"status", "stop"} : refresh[p].pc = "off"
  /\ phase' = "closed"
  /\ UNCHANGED <<diskVars, coordVars, workVars, handlerVars, refresh, instance, idle, historyVars>>

\* The deadline expired first: the store stays open, work is cancelled and the
\* process is about to exit.
ForcedTeardown ==
  /\ phase = "joining"
  /\ phase' = "forced"
  /\ cancelled' = [k \in Turns |-> worker[k] # "none"]
  /\ UNCHANGED <<diskVars, coordVars, worker, verdict, handlerVars, refresh, instance, idle, historyVars>>

\* The process ends, in order or not, and the next one starts: Start hydrates
\* the state and takes the initial blocker count from it.
Restart ==
  /\ instance < MaxInstance
  /\ instance' = instance + 1
  /\ gate' = "running"
  /\ phase' = "up"
  /\ release' = [k \in Turns |-> "idle"]
  /\ worker' = [k \in Turns |-> "none"]
  /\ verdict' = [k \in Turns |-> NoVerdict]
  /\ cancelled' = [k \in Turns |-> FALSE]
  /\ cancel' = [k \in Turns |-> "idle"]
  /\ reconcile' = [k \in Turns |-> "idle"]
  /\ refresh' = [p \in Observers |-> Off]
  /\ blockers' = Cardinality({k \in Turns : turn[k] \in Live}) + Cardinality({k \in Turns : lost[k]})
  /\ epoch' = 0
  /\ idle' = FALSE
  /\ UNCHANGED <<diskVars, controls, historyVars>>

-----------------------------------------------------------------------------
TurnStep(k) ==
  ReleaseStep(k) \/ SupervisorStep(k) \/ ControlRequest(k) \/ CancelStep(k) \/ ReconcileStep(k)

ProcessStep ==
  TryStopIdle \/ StopTeardown \/ OrderlyTeardown \/ ForcedTeardown \/ Restart

Next ==
  \/ \E k \in Turns : TurnStep(k)
  \/ \E p \in Observers : RefreshStep(p) \/ LoopStep(p)
  \/ ProcessStep

Spec == Init /\ [][Next]_vars

-----------------------------------------------------------------------------
(* Safety.                                                                 *)

\* A turn is handed to its harness at most once, whatever is retried, and
\* wherever the service stops or crashes in between.
DispatchedOnce == \A k \in Turns : dispatched[k] <= 1

\* No outcome is made up: what is recorded was reported by the adapter, by its
\* confirmation of a cancellation or by a probe, or is the failure to dispatch.
\* Terminating an execution records nothing.
OutcomesHaveEvidence ==
  \A k \in Turns : turn[k] \in Terminal => turn[k] \in evidence[k]

\* A service that accepted an idle stop was idle: nothing reaches the disk
\* between the answer and the end of the process.
IdleStopIsQuiet ==
  [][idle /\ idle' => UNCHANGED <<diskVars, historyVars>>]_vars

\* The epoch does its work: a count that is applied includes every live turn
\* whose worker is gone and which no handler is about to hand over.
AppliedCountIsSound ==
  [][\A p \in DOMAIN refresh :
       /\ ApplyDiagnosticBlockers(p)
       /\ refresh[p].epoch = epoch
       /\ gate # "stopping"
       => Cardinality({k \in Turns : Unresolved(k) /\ release[k] = "idle"}) <= blockers']_vars

\* "Fail closed on unavailable shutdown evidence" (shutdown.go): an idle stop is
\* accepted only if no turn is unresolved and no session has lost its host.
StopVerified ==
  [][~idle /\ idle' => \A k \in Turns : ~Unresolved(k) /\ ~lost[k]]_vars

-----------------------------------------------------------------------------
(* Liveness.                                                               *)

\* A call of the adapter about k is under way, or its supervisor polls for a
\* result it has not got.
AwaitsAdapter(k) ==
  \/ worker[k] \in {"dispatching", "observe"}
  \/ worker[k] = "collect" /\ ~cancelled[k] /\ turn[k] \in Live
  \/ cancel[k] = "requested"
  \/ reconcile[k] = "probing"

\* Goroutines that can run do, the reads of a drain do not fail for ever, and a
\* select does not pass over a timer that has fired for ever.  Nothing obliges an adapter
\* to answer, a client to send a request, or the process to crash.
Fairness ==
  /\ \A k \in Turns :
       /\ WF_vars(ExecutionStep(k) \/ AddRecoveryBlocker(k) \/ Retire(k))
       /\ WF_vars(ReleaseTurn(k) \/ ReleaseRefused(k) \/ RegisterWorker(k) \/ DoneAdmission(k))
       /\ WF_vars(cancel[k] # "requested" /\ CancelStep(k))
       /\ WF_vars(reconcile[k] # "probing" /\ ReconcileStep(k))
  /\ \A p \in Observers \cap {"drain", "signal"} :
       WF_vars(refresh[p].pc # "off" /\ (RefreshStep(p) \/ LoopStep(p)))
  /\ \A p \in Observers \cap {"drain"} :
       SF_vars(ReadTurns(p) /\ RefreshStep(p)) /\ SF_vars(ReadLost(p) /\ RefreshStep(p))
  /\ \A p \in Observers \cap {"signal"} : SF_vars(LoopStep(p) /\ GraceExpires(p))
  /\ WF_vars(ForcedTeardown)

FairSpec == Spec /\ Fairness

\* An accepted execution's supervisor ends - it records, gives the turn up as a
\* blocker, or is terminated - unless its adapter leaves it waiting for ever; and
\* a turn that another path resolved, or a termination, ends its polling though
\* the adapter never has a result.
WorkersRetire ==
  \A k \in Turns : []<>~AwaitsAdapter(k) => (worker[k] # "none" ~> worker[k] = "none")

\* A drain ends, however stale the count it started with, unless a turn or a
\* session needs recovery or an adapter never answers: "Operator drain has no
\* cancellation cutoff" (shutdown.go).  A signal ends the service in any case.
DrainEnds ==
  /\ (\A k \in Turns : []<>~AwaitsAdapter(k))
     => (gate = "draining" ~> (\/ gate # "draining"
                               \/ \E k \in Turns : Unresolved(k) \/ lost[k]))
  /\ "signal" \in Observers
     => (refresh["signal"].pc # "off" ~> phase \in {"closed", "forced"})
=============================================================================
