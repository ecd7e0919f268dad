---------------------------- MODULE ServiceProofs ----------------------------
(***************************************************************************)
(* What holds of the service for any set of turns, any bounds and any      *)
(* refreshes in use: types, a single dispatch, outcomes with grounds, a    *)
(* quiet idle stop, and the soundness of an applied count.                 *)
(***************************************************************************)
EXTENDS MCService, FiniteSetTheorems, TLAPS

-----------------------------------------------------------------------------
(* The inductive invariants.                                               *)

\* A turn that is queued was never handed over, nor one whose release has just committed, nor
\* one whose supervisor has just started.
DispatchInv ==
  \A k \in Turns :
    /\ turn[k] = "queued" =>
         release[k] \in {"idle", "admitted"} /\ worker[k] = "none" /\ dispatched[k] = 0
    /\ release[k] = "committed" => worker[k] = "none" /\ dispatched[k] = 0
    /\ worker[k] = "start" => dispatched[k] = 0
    /\ dispatched[k] <= 1

\* What a supervisor is about to commit, and what a cancel handler is about to record, has
\* grounds; so has what is recorded.
EvidenceInv ==
  \A k \in Turns :
    /\ turn[k] \in Terminal => turn[k] \in evidence[k]
    /\ worker[k] \in {"commit", "abort"} => verdict[k] \in Terminal /\ verdict[k] \in evidence[k]
    /\ cancel[k] = "confirmed" => "cancelled" \in evidence[k]

\* After an accepted idle stop the gate is closed and nothing is in flight.
IdleInv == idle => gate = "stopping" /\ NothingInFlight

\* Live turns that nobody attends to and no release is about to hand over.
Orphans == {k \in Turns : Unresolved(k) /\ release[k] # "committed"}

\* An epoch that was read is not from the future.  While it is current, and unless the service
\* is stopping, the live workers that were read are the live workers, and the count that was
\* made covers every orphan.
CountInv ==
  \A p \in Observers :
    /\ refresh[p].epoch <= epoch
    /\ refresh[p].epoch = epoch /\ gate # "stopping" =>
         /\ refresh[p].pc = "turns" => refresh[p].live = LiveWorkerKeys
         /\ refresh[p].pc \in {"lost", "apply"} => Cardinality(Orphans) <= refresh[p].n

-----------------------------------------------------------------------------
(* Types.                                                                  *)

\* What the refreshes count.
LEMMA CountsAreNatural ==
  ASSUME NEW S, S \subseteq Turns
  PROVE  IsFiniteSet(S) /\ Cardinality(S) \in Nat
  BY ServiceAssumption, FS_Subset, FS_CardinalityType

\* The frame that a step has around what it changes.
USE DEF diskVars, coordVars, workVars, handlerVars, historyVars, vars

\* A release keeps the types.
LEMMA ReleaseTypes == ASSUME TypeOK, NEW k \in Turns, ReleaseStep(k) PROVE TypeOK'
  <1>1. CASE AdmitRelease(k)
    BY <1>1 DEF AdmitRelease, TypeOK
  <1>2. CASE ReleaseTurn(k)
    BY <1>2 DEF ReleaseTurn, TypeOK, Live
  <1>3. CASE ReleaseRefused(k)
    BY <1>3 DEF ReleaseRefused, GiveUp, TypeOK
  <1>4. CASE RegisterWorker(k)
    BY <1>4 DEF RegisterWorker, AdvanceEpoch, TypeOK
  <1>5. CASE DoneAdmission(k)
    BY <1>5 DEF DoneAdmission, TypeOK
  <1> QED BY <1>1, <1>2, <1>3, <1>4, <1>5 DEF ReleaseStep

\* An outcome with grounds is an outcome.
LEMMA ResolveTypes ==
  ASSUME TypeOK, NEW k \in Turns, NEW o \in Terminal,
         NEW pc \in {"commit", "abort"}, Resolve(k, pc, o)
  PROVE  /\ worker' \in [Turns -> {"none", "start", "dispatching", "observe", "collect", "commit",
                                   "abort", "unrecorded", "block", "retire"}]
         /\ verdict' \in [Turns -> Terminal \cup {NoVerdict}]
         /\ evidence' \in [Turns -> SUBSET Terminal]
  BY DEF Resolve, Goto, TypeOK

\* A supervisor keeps the types: what it commits is an outcome.
LEMMA SupervisorTypes ==
  ASSUME TypeOK, EvidenceInv, NEW k \in Turns, SupervisorStep(k)
  PROVE  TypeOK'
  <1> DEFINE W == /\ worker' \in [Turns -> {"none", "start", "dispatching", "observe", "collect", "commit",
                                            "abort", "unrecorded", "block", "retire"}]
                  /\ verdict' \in [Turns -> Terminal \cup {NoVerdict}]
                  /\ evidence' \in [Turns -> SUBSET Terminal]
                  /\ dispatched' \in [Turns -> Nat]
  <1>1. ASSUME BeginExecution(k) PROVE W
    <2>1. "failed" \in Terminal
      BY DEF Terminal
    <2>2. CASE Resolve(k, "abort", "failed") /\ UNCHANGED dispatched
      BY <2>1, <2>2, ResolveTypes DEF TypeOK
    <2>3. CASE cancelled[k] /\ Terminated(k) /\ UNCHANGED historyVars
      BY <2>3 DEF Terminated, Goto, TypeOK
    <2>4. CASE /\ Goto(k, "dispatching")
               /\ dispatched' = [dispatched EXCEPT ![k] = @ + 1]
               /\ UNCHANGED <<verdict, evidence>>
      BY <2>4 DEF Goto, TypeOK
    <2> QED BY <1>1, <2>2, <2>3, <2>4 DEF BeginExecution
  <1>2. ASSUME DispatchReturns(k) PROVE W
    <2>1. "failed" \in Terminal
      BY DEF Terminal
    <2>2. CASE Resolve(k, "abort", "failed")
      BY <1>2, <2>1, <2>2, ResolveTypes DEF DispatchReturns, TypeOK
    <2>3. CASE ~Resolve(k, "abort", "failed")
      BY <1>2, <2>3 DEF DispatchReturns, Terminated, Goto, TypeOK
    <2> QED BY <2>2, <2>3
  <1>3. ASSUME CollectAnswers(k) PROVE W
    <2>1. CASE \E o \in Terminal : Resolve(k, "commit", o)
      BY <1>3, <2>1, ResolveTypes DEF CollectAnswers, TypeOK
    <2>2. CASE ~\E o \in Terminal : Resolve(k, "commit", o)
      BY <1>3, <2>2 DEF CollectAnswers, Goto, TypeOK
    <2> QED BY <2>1, <2>2
  <1>4. ASSUME StreamEnds(k) \/ CollectStops(k) \/ Unrecorded(k) PROVE W
    BY <1>4 DEF StreamEnds, CollectStops, Unrecorded, Terminated, Goto, TypeOK
  <1>5. ASSUME CommitOutcome(k) PROVE W
    BY <1>5 DEF CommitOutcome, Goto, TypeOK
  <1>6. ASSUME ExecutionStep(k) PROVE TypeOK'
    <2>1. W
      BY <1>1, <1>4, <1>5, <1>6 DEF ExecutionStep
    <2>2. turn' \in [Turns -> {"queued"} \cup Live \cup Terminal]
      <3>1. CASE UNCHANGED turn
        BY <3>1 DEF TypeOK
      <3>2. CASE CommitOutcome(k)
        <4>1. verdict[k] \in Terminal
          BY <3>2 DEF CommitOutcome, EvidenceInv
        <4> QED BY <3>2, <4>1 DEF CommitOutcome, Records, TypeOK
      <3> QED BY <1>6, <3>1, <3>2 DEF ExecutionStep
    <2> QED BY <1>6, <2>1, <2>2 DEF ExecutionStep, TypeOK
  <1>7. CASE AdapterStep(k)
    <2>1. W
      BY <1>2, <1>3, <1>4, <1>7 DEF AdapterStep
    <2> QED BY <1>7, <2>1 DEF AdapterStep, TypeOK
  <1>8. CASE AddRecoveryBlocker(k)
    BY <1>8 DEF AddRecoveryBlocker, AdvanceEpoch, Goto, TypeOK
  <1>9. CASE Retire(k)
    BY <1>9 DEF Retire, RetireEpoch, AdvanceEpoch, Goto, TypeOK
  <1> QED BY <1>6, <1>7, <1>8, <1>9 DEF SupervisorStep

\* Cancel and reconcile handlers keep the types.
LEMMA ControlTypes ==
  ASSUME TypeOK, NEW k \in Turns, ControlRequest(k) \/ CancelStep(k) \/ ReconcileStep(k)
  PROVE  TypeOK'
  <1>1. CASE ControlRequest(k)
    BY <1>1 DEF ControlRequest, BeginControl, TypeOK
  <1>2. CASE RequestCancel(k)
    BY <1>2 DEF RequestCancel, TypeOK, Live
  <1>3. CASE CancelConfirmed(k)
    BY <1>3 DEF CancelConfirmed, TypeOK, Terminal
  <1>4. CASE RecordCancelled(k)
    BY <1>4 DEF RecordCancelled, Records, TypeOK, Terminal
  <1>5. CASE CancelEnds(k)
    BY <1>5 DEF CancelEnds, GiveUp, TypeOK
  <1>6. CASE OpenEpisode(k)
    BY <1>6 DEF OpenEpisode, TypeOK
  <1>7. CASE ReconcileSession(k)
    BY <1>7 DEF ReconcileSession, TypeOK
  <1>8. CASE ReconcileEnds(k)
    BY <1>8 DEF ReconcileEnds, GiveUp, TypeOK
  <1> QED BY <1>1, <1>2, <1>3, <1>4, <1>5, <1>6, <1>7, <1>8 DEF CancelStep, ReconcileStep

\* The local state of a refresh.
Refreshes ==
  [pc : {"off", "epoch", "live", "turns", "lost", "apply", "decide", "teardown"},
   epoch : Nat, live : SUBSET Turns, n : Nat]

\* A refresh moves on alone: its program counter, epoch, live workers and count, in turn.
Moves(p, r) ==
  /\ r \in Refreshes
  /\ refresh' \in [Observers -> Refreshes]
  /\ refresh'[p] = r
  /\ \A q \in Observers \ {p} : refresh'[q] = refresh[q]

\* One refresh is replaced.
LEMMA MovesOne ==
  ASSUME TypeOK, NEW p \in Observers, NEW r \in Refreshes, refresh' = [refresh EXCEPT ![p] = r]
  PROVE  Moves(p, r)
  BY DEF TypeOK, Refreshes, Moves

\* A step of a refresh changes its own record.
LEMMA RefreshMoves ==
  ASSUME TypeOK, NEW p \in Observers, RefreshStep(p)
  PROVE  \E r \in Refreshes :
           /\ Moves(p, r)
           /\ \/ r.pc \in {"off", "epoch", "decide"} /\ r.epoch \in {0, refresh[p].epoch}
              \/ r.pc = "live" /\ r.epoch = epoch
              \/ r.pc = "turns" /\ r.epoch = refresh[p].epoch /\ r.live = LiveWorkerKeys
              \/ /\ r.pc = "lost" /\ refresh[p].pc = "turns"
                 /\ r.epoch = refresh[p].epoch
                 /\ r.n = Cardinality({k \in Turns : turn[k] \in Live /\ k \notin refresh[p].live})
              \/ /\ r.pc = "apply" /\ refresh[p].pc = "lost"
                 /\ r.epoch = refresh[p].epoch /\ r.n >= refresh[p].n
  <1>1. refresh[p] \in Refreshes /\ epoch \in Nat
    BY DEF TypeOK, Refreshes
  <1>2. CASE BeginRefresh(p) \/ BeginDrain(p)
    <2> DEFINE r == [refresh[p] EXCEPT !.pc = "epoch"]
    <2>1. r \in Refreshes /\ r.pc = "epoch" /\ r.epoch = refresh[p].epoch
      BY <1>1 DEF Refreshes
    <2>2. refresh' = [refresh EXCEPT ![p] = r]
      BY <1>2 DEF BeginRefresh, BeginDrain, Refresh
    <2> HIDE DEF r
    <2> QED BY <2>1, <2>2, MovesOne
  <1>3. CASE ReadEpoch(p)
    <2> DEFINE r == [refresh[p] EXCEPT !.pc = "live", !.epoch = epoch]
    <2>1. r \in Refreshes /\ r.pc = "live" /\ r.epoch = epoch
      BY <1>1 DEF Refreshes
    <2>2. refresh' = [refresh EXCEPT ![p] = r]
      BY <1>3 DEF ReadEpoch
    <2> HIDE DEF r
    <2> QED BY <2>1, <2>2, MovesOne
  <1>4. CASE ReadLiveWorkers(p)
    <2> DEFINE r == [refresh[p] EXCEPT !.pc = "turns", !.live = LiveWorkerKeys]
    <2>1. r \in Refreshes /\ r.pc = "turns" /\ r.epoch = refresh[p].epoch /\ r.live = LiveWorkerKeys
      BY <1>1 DEF Refreshes, LiveWorkerKeys
    <2>2. refresh' = [refresh EXCEPT ![p] = r]
      BY <1>4 DEF ReadLiveWorkers
    <2> HIDE DEF r
    <2> QED BY <2>1, <2>2, MovesOne
  <1>5. CASE ReadTurns(p)
    <2> DEFINE S == {k \in Turns : turn[k] \in Live /\ k \notin refresh[p].live}
               r == [refresh[p] EXCEPT !.pc = "lost", !.n = Cardinality(S)]
    <2>1. Cardinality(S) \in Nat
      BY CountsAreNatural
    <2>2. r \in Refreshes /\ r.pc = "lost" /\ r.epoch = refresh[p].epoch /\ r.n = Cardinality(S)
      BY <1>1, <2>1 DEF Refreshes
    <2>3. refresh' = [refresh EXCEPT ![p] = r] /\ refresh[p].pc = "turns"
      BY <1>5 DEF ReadTurns
    <2> HIDE DEF r
    <2> QED BY <2>2, <2>3, MovesOne
  <1>6. CASE ReadLost(p)
    <2> DEFINE c == Cardinality({k \in Turns : lost[k]})
               r == [refresh[p] EXCEPT !.pc = "apply", !.n = @ + c]
    <2>1. c \in Nat
      BY CountsAreNatural
    <2>2. refresh' = [refresh EXCEPT ![p] = r] /\ refresh[p].pc = "lost"
      BY <1>6 DEF ReadLost
    <2> HIDE DEF c
    <2>3. refresh[p].n \in Nat /\ refresh[p].n + c \in Nat /\ refresh[p].n + c >= refresh[p].n
      BY <1>1, <2>1 DEF Refreshes
    <2>4. r \in Refreshes /\ r.pc = "apply" /\ r.epoch = refresh[p].epoch /\ r.n = refresh[p].n + c
      BY <1>1, <2>3 DEF Refreshes
    <2>5. r \in Refreshes /\ r.pc = "apply" /\ r.epoch = refresh[p].epoch /\ r.n >= refresh[p].n
      BY <2>3, <2>4
    <2> HIDE DEF r
    <2> QED BY <2>2, <2>5, MovesOne
  <1>7. CASE RefreshFails(p) \/ ApplyDiagnosticBlockers(p)
    <2>1. PICK r \in {Off, [Off EXCEPT !.pc = "epoch"], [Off EXCEPT !.pc = "decide"]} :
            refresh' = [refresh EXCEPT ![p] = r]
      BY <1>7 DEF RefreshFails, ApplyDiagnosticBlockers, AfterApply
    <2>2. r \in Refreshes /\ r.pc \in {"off", "epoch", "decide"} /\ r.epoch = 0
      BY <2>1 DEF Off, Refreshes
    <2> QED BY <2>1, <2>2, MovesOne
  <1> QED BY <1>2, <1>3, <1>4, <1>5, <1>6, <1>7 DEF RefreshStep

\* Nor does a loop, or the decision of a stop request, begin a count.
LEMMA LoopMoves ==
  ASSUME TypeOK, NEW p \in Observers, LoopStep(p)
  PROVE  \E r \in Refreshes :
           /\ Moves(p, r)
           /\ r.pc \in {"off", "epoch", "teardown"} /\ r.epoch \in {0, refresh[p].epoch}
  <1>1. refresh[p] \in Refreshes
    BY DEF TypeOK, Refreshes
  <1>2. PICK r \in {Off, [refresh[p] EXCEPT !.pc = "epoch"], [refresh[p] EXCEPT !.pc = "teardown"]} :
          refresh' = [refresh EXCEPT ![p] = r]
    BY DEF LoopStep, DrainTick, GraceExpires, LoopTeardown, LoopReturns, Refresh
  <1>3. r \in Refreshes /\ r.pc \in {"off", "epoch", "teardown"} /\ r.epoch \in {0, refresh[p].epoch}
    BY <1>1, <1>2 DEF Off, Refreshes
  <1> QED BY <1>2, <1>3, MovesOne

\* A refresh and a loop keep the types.
LEMMA RefreshTypes ==
  ASSUME TypeOK, NEW p \in Observers, RefreshStep(p) \/ LoopStep(p)
  PROVE  TypeOK'
  <1>1. refresh' \in [Observers -> Refreshes]
    BY RefreshMoves, LoopMoves DEF Moves
  <1>2. gate' \in {"running", "draining", "stopping"} /\ phase' \in {"up", "joining", "closed", "forced"}
    BY DEF TypeOK, RefreshStep, BeginRefresh, BeginDrain, SetState, LoopStep, DrainTick, GraceExpires,
           LoopTeardown, LoopReturns, BeginTeardown
  <1>3. cancelled' \in [Turns -> BOOLEAN]
    BY DEF TypeOK, RefreshStep, LoopStep, DrainTick, GraceExpires, LoopTeardown, LoopReturns
  <1>4. blockers' \in Nat
    <2>1. refresh[p].n \in Nat
      BY DEF TypeOK
    <2> QED BY <2>1 DEF TypeOK, RefreshStep, LoopStep, ApplyDiagnosticBlockers, ReconciledCount
  <1>5. CASE RefreshStep(p)
    BY <1>1, <1>2, <1>3, <1>4, <1>5 DEF TypeOK, RefreshStep, Refreshes
  <1>6. CASE LoopStep(p)
    BY <1>1, <1>2, <1>3, <1>4, <1>6 DEF TypeOK, LoopStep, Refreshes
  <1> QED BY <1>5, <1>6

\* Stopping and restarting keep the types.
LEMMA ProcessTypes == ASSUME TypeOK, ProcessStep PROVE TypeOK'
  <1>1. CASE TryStopIdle
    <2>1. Off \in Refreshes /\ "stop" \in Observers
      BY <1>1 DEF Off, Refreshes, TryStopIdle
    <2>2. refresh' \in [Observers -> Refreshes]
      BY <1>1, <2>1, MovesOne DEF TryStopIdle, Moves
    <2> QED BY <1>1, <2>2 DEF TryStopIdle, TypeOK, Refreshes
  <1>2. CASE StopTeardown
    BY <1>2 DEF StopTeardown, BeginTeardown, TypeOK
  <1>3. CASE OrderlyTeardown
    BY <1>3 DEF OrderlyTeardown, TypeOK
  <1>4. CASE ForcedTeardown
    BY <1>4 DEF ForcedTeardown, TypeOK
  <1>5. CASE Restart
    <2>1. blockers' \in Nat
      <3>1. /\ Cardinality({k \in Turns : turn[k] \in Live}) \in Nat
            /\ Cardinality({k \in Turns : lost[k]}) \in Nat
        BY CountsAreNatural
      <3> QED BY <1>5, <3>1 DEF Restart
    <2>2. refresh' \in [Observers -> Refreshes]
      BY <1>5 DEF Restart, Off, Refreshes
    <2>3. /\ release' \in [Turns -> {"idle", "admitted", "committed", "leaving"}]
          /\ worker' \in [Turns -> {"none", "start", "dispatching", "observe", "collect", "commit",
                                    "abort", "unrecorded", "block", "retire"}]
          /\ verdict' \in [Turns -> Terminal \cup {NoVerdict}]
          /\ cancelled' \in [Turns -> BOOLEAN]
          /\ cancel' \in [Turns -> {"idle", "tracked", "requested", "confirmed"}]
          /\ reconcile' \in [Turns -> {"idle", "tracked", "probing"}]
      BY <1>5 DEF Restart
    <2>4. /\ gate' = "running" /\ phase' = "up" /\ epoch' \in Nat /\ idle' \in BOOLEAN
          /\ instance' \in Nat
      <3>1. gate' = "running" /\ phase' = "up" /\ epoch' = 0 /\ idle' \in BOOLEAN
        BY <1>5, Zenon DEF Restart
      <3>2. instance' = instance + 1
        BY <1>5, Zenon DEF Restart
      <3> QED BY <3>1, <3>2 DEF TypeOK
    <2>5. UNCHANGED <<turn, lost, asked, controls, dispatched, evidence>>
      BY <1>5 DEF Restart
    <2> QED BY <2>1, <2>2, <2>3, <2>4, <2>5 DEF TypeOK, Refreshes
  <1> QED BY <1>1, <1>2, <1>3, <1>4, <1>5 DEF ProcessStep

-----------------------------------------------------------------------------
(* A single dispatch, and outcomes with grounds.                           *)

\* A release hands a turn over once.
LEMMA ReleaseKeeps ==
  ASSUME TypeOK, DispatchInv, EvidenceInv, NEW k \in Turns, ReleaseStep(k)
  PROVE  DispatchInv' /\ EvidenceInv'
  <1>1. CASE AdmitRelease(k)
    BY <1>1 DEF AdmitRelease, TypeOK, DispatchInv, EvidenceInv
  <1>2. CASE ReleaseTurn(k)
    <2>1. EvidenceInv'
      BY <1>2 DEF ReleaseTurn, TypeOK, EvidenceInv, Terminal
    <2>2. DispatchInv'
      BY <1>2 DEF ReleaseTurn, NewRelease, TypeOK, DispatchInv
    <2> QED BY <2>1, <2>2
  <1>3. CASE ReleaseRefused(k)
    BY <1>3 DEF ReleaseRefused, GiveUp, TypeOK, DispatchInv, EvidenceInv
  <1>4. CASE RegisterWorker(k)
    BY <1>4 DEF RegisterWorker, TypeOK, DispatchInv, EvidenceInv
  <1>5. CASE DoneAdmission(k)
    BY <1>5 DEF DoneAdmission, TypeOK, DispatchInv, EvidenceInv
  <1> QED BY <1>1, <1>2, <1>3, <1>4, <1>5 DEF ReleaseStep

\* An outcome that is resolved has grounds.
LEMMA ResolveKeeps ==
  ASSUME TypeOK, DispatchInv, EvidenceInv, NEW k \in Turns, NEW o \in Terminal,
         NEW pc \in {"commit", "abort"}, Resolve(k, pc, o), worker[k] # "none",
         UNCHANGED <<turn, release, cancel, dispatched>>
  PROVE  DispatchInv' /\ EvidenceInv'
  BY DEF Resolve, Goto, TypeOK, DispatchInv, EvidenceInv

\* So do the other moves of a supervisor, which resolve nothing.
LEMMA GotoKeeps ==
  ASSUME TypeOK, DispatchInv, EvidenceInv, NEW k \in Turns, NEW pc, Goto(k, pc),
         pc \notin {"start", "commit", "abort"}, pc # "none" => worker[k] # "none",
         verdict' = verdict \/ (verdict' = [verdict EXCEPT ![k] = NoVerdict]),
         UNCHANGED <<turn, release, cancel, dispatched, evidence>>
  PROVE  DispatchInv' /\ EvidenceInv'
  BY DEF Goto, TypeOK, DispatchInv, EvidenceInv

\* A supervisor dispatches once and records what it has grounds for.
LEMMA SupervisorKeeps ==
  ASSUME TypeOK, DispatchInv, EvidenceInv, NEW k \in Turns, SupervisorStep(k)
  PROVE  DispatchInv' /\ EvidenceInv'
  <1>1. "failed" \in Terminal
    BY DEF Terminal
  <1>2. ASSUME BeginExecution(k), UNCHANGED <<turn, release, cancel>> PROVE DispatchInv' /\ EvidenceInv'
    <2>1. worker[k] = "start"
      BY <1>2 DEF BeginExecution
    <2>2. CASE Terminated(k) /\ UNCHANGED historyVars
      BY <1>2, <2>1, <2>2, GotoKeeps DEF Terminated
    <2>3. CASE Resolve(k, "abort", "failed") /\ UNCHANGED dispatched
      BY <1>1, <1>2, <2>1, <2>3, ResolveKeeps
    <2>4. CASE /\ Goto(k, "dispatching")
               /\ dispatched' = [dispatched EXCEPT ![k] = @ + 1]
               /\ UNCHANGED <<verdict, evidence>>
      BY <1>2, <2>1, <2>4 DEF Goto, TypeOK, DispatchInv, EvidenceInv
    <2> QED BY <1>2, <2>2, <2>3, <2>4 DEF BeginExecution
  <1>3. ASSUME DispatchReturns(k), UNCHANGED <<turn, release, cancel>> PROVE DispatchInv' /\ EvidenceInv'
    BY <1>1, <1>3, ResolveKeeps, GotoKeeps DEF DispatchReturns, Terminated
  <1>4. ASSUME CollectAnswers(k), UNCHANGED <<turn, release, cancel>> PROVE DispatchInv' /\ EvidenceInv'
    BY <1>4, ResolveKeeps, GotoKeeps DEF CollectAnswers
  <1>5. ASSUME StreamEnds(k) \/ CollectStops(k) \/ Unrecorded(k), UNCHANGED <<turn, release, cancel>>
        PROVE  DispatchInv' /\ EvidenceInv'
    BY <1>5, GotoKeeps DEF StreamEnds, CollectStops, Unrecorded, Terminated
  <1>6. ASSUME CommitOutcome(k), UNCHANGED <<release, cancel>> PROVE DispatchInv' /\ EvidenceInv'
    <2>1. CASE UNCHANGED turn
      BY <1>6, <2>1, GotoKeeps DEF CommitOutcome
    <2>2. CASE /\ turn[k] \in Live /\ turn' = [turn EXCEPT ![k] = verdict[k]] /\ Goto(k, "retire")
      <3>1. verdict[k] \in Terminal /\ verdict[k] \in evidence[k] /\ verdict[k] # "queued"
        BY <1>6 DEF CommitOutcome, EvidenceInv, Terminal
      <3>2. turn[k] # "queued"
        BY <2>2 DEF Live
      <3> QED
        BY <1>6, <2>2, <3>1, <3>2 DEF CommitOutcome, Goto, TypeOK, DispatchInv, EvidenceInv
    <2> QED BY <1>6, <2>1, <2>2 DEF CommitOutcome, Records
  <1>7. CASE ExecutionStep(k)
    BY <1>2, <1>5, <1>6, <1>7 DEF ExecutionStep
  <1>8. CASE AdapterStep(k)
    BY <1>3, <1>4, <1>5, <1>8 DEF AdapterStep
  <1>9. CASE AddRecoveryBlocker(k)
    BY <1>9, GotoKeeps DEF AddRecoveryBlocker
  <1>10. CASE Retire(k)
    BY <1>10, GotoKeeps DEF Retire
  <1> QED BY <1>7, <1>8, <1>9, <1>10 DEF SupervisorStep

\* A cancel handler records what was confirmed, a reconcile handler what the probe reported.
LEMMA ControlKeeps ==
  ASSUME TypeOK, DispatchInv, EvidenceInv, NEW k \in Turns,
         ControlRequest(k) \/ CancelStep(k) \/ ReconcileStep(k)
  PROVE  DispatchInv' /\ EvidenceInv'
  <1>1. CASE ControlRequest(k)
    BY <1>1 DEF ControlRequest, BeginControl, TypeOK, DispatchInv, EvidenceInv
  <1>2. CASE RequestCancel(k)
    <2>1. turn'[k] \in Terminal => turn'[k] = turn[k]
      BY <1>2 DEF RequestCancel, TypeOK, Terminal
    <2> QED BY <1>2, <2>1 DEF RequestCancel, TypeOK, DispatchInv, EvidenceInv
  <1>3. CASE CancelConfirmed(k)
    BY <1>3 DEF CancelConfirmed, TypeOK, DispatchInv, EvidenceInv
  <1>4. CASE RecordCancelled(k)
    <2>1. "cancelled" \in evidence[k]
      BY <1>4 DEF RecordCancelled, EvidenceInv
    <2>2. turn[k] \in Live => turn[k] # "queued"
      BY DEF Live
    <2> QED BY <1>4, <2>1, <2>2 DEF RecordCancelled, Records, TypeOK, DispatchInv, EvidenceInv
  <1>5. CASE CancelEnds(k)
    BY <1>5 DEF CancelEnds, GiveUp, TypeOK, DispatchInv, EvidenceInv
  <1>6. CASE OpenEpisode(k)
    BY <1>6 DEF OpenEpisode, TypeOK, DispatchInv, EvidenceInv
  <1>7. CASE ReconcileSession(k)
    <2>1. CASE UNCHANGED <<turn, evidence>>
      BY <1>7, <2>1 DEF ReconcileSession, TypeOK, DispatchInv, EvidenceInv
    <2>2. ASSUME NEW o \in Terminal, turn[k] \in Live, turn' = [turn EXCEPT ![k] = o],
                 evidence' = [evidence EXCEPT ![k] = @ \cup {o}]
          PROVE  DispatchInv' /\ EvidenceInv'
      <3>1. o # "queued" /\ turn[k] # "queued"
        BY <2>2 DEF Live, Terminal
      <3> QED BY <1>7, <2>2, <3>1 DEF ReconcileSession, TypeOK, DispatchInv, EvidenceInv
    <2> QED BY <1>7, <2>1, <2>2 DEF ReconcileSession
  <1>8. CASE ReconcileEnds(k)
    BY <1>8 DEF ReconcileEnds, GiveUp, TypeOK, DispatchInv, EvidenceInv
  <1> QED BY <1>1, <1>2, <1>3, <1>4, <1>5, <1>6, <1>7, <1>8 DEF CancelStep, ReconcileStep

\* Nothing else touches a turn, except that a process ends.
LEMMA ProcessKeeps ==
  ASSUME TypeOK, DispatchInv, EvidenceInv,
         ProcessStep \/ \E p \in Observers : RefreshStep(p) \/ LoopStep(p)
  PROVE  DispatchInv' /\ EvidenceInv'
  <1>1. CASE UNCHANGED <<turn, release, worker, verdict, cancel, dispatched, evidence>>
    BY <1>1 DEF DispatchInv, EvidenceInv
  <1>2. CASE Restart
    <2>1. /\ \A k \in Turns : release'[k] = "idle" /\ worker'[k] = "none" /\ cancel'[k] = "idle"
          /\ UNCHANGED <<turn, dispatched, evidence>>
      BY <1>2 DEF Restart
    <2> QED BY <2>1 DEF DispatchInv, EvidenceInv
  <1> QED
    BY <1>1, <1>2
    DEF ProcessStep, TryStopIdle, StopTeardown, OrderlyTeardown, ForcedTeardown, RefreshStep, LoopStep

-----------------------------------------------------------------------------
(* The idle stop.                                                          *)

\* Once an idle stop is accepted no handler and no supervisor has a step.
LEMMA IdleStopsTurns == ASSUME TypeOK, IdleInv, idle, NEW k \in Turns PROVE ~TurnStep(k)
  <1>1. /\ gate = "stopping" /\ release[k] = "idle" /\ worker[k] = "none"
        /\ cancel[k] = "idle" /\ reconcile[k] = "idle"
    BY DEF IdleInv, NothingInFlight
  <1>2. ~ReleaseStep(k)
    BY <1>1 DEF ReleaseStep, AdmitRelease, ReleaseOpen, ReleaseTurn, ReleaseRefused, RegisterWorker,
                DoneAdmission
  <1>3. ~SupervisorStep(k)
    BY <1>1 DEF SupervisorStep, AdapterStep, DispatchReturns, StreamEnds, CollectAnswers,
                ExecutionStep, BeginExecution, CollectStops, Unrecorded, CommitOutcome, AddRecoveryBlocker, Retire
  <1>4. ~ControlRequest(k)
    BY <1>1 DEF ControlRequest, BeginControl, TrackControl
  <1>5. ~CancelStep(k) /\ ~ReconcileStep(k)
    BY <1>1 DEF CancelStep, RequestCancel, CancelConfirmed, RecordCancelled, CancelEnds,
                ReconcileStep, OpenEpisode, ReconcileSession, ReconcileEnds
  <1> QED BY <1>2, <1>3, <1>4, <1>5 DEF TurnStep

\* A turn's steps leave the gate, the refreshes and the answer to the stop alone.
LEMMA TurnFrame == ASSUME NEW k \in Turns, TurnStep(k) PROVE UNCHANGED <<gate, refresh, idle>>
  BY DEF TurnStep, ReleaseStep, AdmitRelease, ReleaseTurn, ReleaseRefused, RegisterWorker, DoneAdmission,
         SupervisorStep, AdapterStep, ExecutionStep, AddRecoveryBlocker, Retire, ControlRequest, BeginControl,
         CancelStep, RequestCancel, CancelConfirmed, RecordCancelled, CancelEnds,
         ReconcileStep, OpenEpisode, ReconcileSession, ReconcileEnds, GiveUp

\* The gate does not open again within an instance, and refreshes start no work.
LEMMA RefreshFrame ==
  ASSUME TypeOK, NEW p \in Observers, RefreshStep(p) \/ LoopStep(p)
  PROVE  /\ UNCHANGED <<turn, lost, asked, release, worker, cancel, reconcile, epoch, idle,
                        dispatched, evidence>>
         /\ gate = "stopping" => gate' = "stopping"
  BY DEF RefreshStep, BeginRefresh, BeginDrain, SetState, LoopStep, DrainTick, GraceExpires,
         LoopTeardown, LoopReturns, BeginTeardown

\* The idle stop, step by step.
LEMMA IdleKeeps ==
  ASSUME TypeOK, IdleInv, Next
  PROVE  IdleInv' /\ (idle /\ idle' => UNCHANGED <<diskVars, historyVars>>)
  <1>1. ASSUME NEW k \in Turns, TurnStep(k)
        PROVE  IdleInv' /\ (idle /\ idle' => UNCHANGED <<diskVars, historyVars>>)
    BY <1>1, IdleStopsTurns, TurnFrame DEF IdleInv
  <1>2. ASSUME NEW p \in Observers, RefreshStep(p) \/ LoopStep(p)
        PROVE  IdleInv' /\ (idle /\ idle' => UNCHANGED <<diskVars, historyVars>>)
    BY <1>2, RefreshFrame DEF IdleInv, NothingInFlight
  <1>3. CASE TryStopIdle
    BY <1>3 DEF TryStopIdle, IdleInv, NothingInFlight, IsShutdownEligible
  <1>4. CASE StopTeardown \/ OrderlyTeardown \/ ForcedTeardown
    BY <1>4 DEF StopTeardown, BeginTeardown, OrderlyTeardown, ForcedTeardown, IdleInv, NothingInFlight
  <1>5. CASE Restart
    BY <1>5 DEF Restart, IdleInv
  <1> QED BY <1>1, <1>2, <1>3, <1>4, <1>5 DEF Next, ProcessStep

-----------------------------------------------------------------------------
(* The count of a refresh.                                                 *)

\* While the epoch stands, a turn's step changes no worker's liveness and orphans no turn,
\* unless the service is stopping.
LEMMA TurnCounts ==
  ASSUME TypeOK, NEW k \in Turns, TurnStep(k)
  PROVE  \/ epoch' = epoch + 1
         \/ /\ epoch' = epoch /\ LiveWorkerKeys' = LiveWorkerKeys
            /\ gate = "stopping" \/ Orphans' \subseteq Orphans
  <1> USE DEF LiveWorkerKeys, Orphans, Unresolved
  <1>1. CASE AdmitRelease(k)
    BY <1>1 DEF AdmitRelease, TypeOK
  <1>2. CASE ReleaseTurn(k)
    BY <1>2 DEF ReleaseTurn, TypeOK
  <1>3. CASE ReleaseRefused(k)
    BY <1>3 DEF ReleaseRefused, GiveUp, TypeOK
  <1>4. CASE RegisterWorker(k)
    BY <1>4 DEF RegisterWorker, AdvanceEpoch, TypeOK
  <1>5. CASE DoneAdmission(k)
    BY <1>5 DEF DoneAdmission, TypeOK
  <1>6. CASE AdapterStep(k) \/ ExecutionStep(k)
    <2>1. ASSUME NEW pc, pc # "none", worker[k] # "none", Goto(k, pc)
          PROVE  LiveWorkerKeys' = LiveWorkerKeys
      BY <2>1 DEF Goto, TypeOK
    <2>2. LiveWorkerKeys' = LiveWorkerKeys
      <3> HIDE DEF LiveWorkerKeys
      <3>1. CASE AdapterStep(k)
        BY <2>1, <3>1 DEF AdapterStep, DispatchReturns, StreamEnds, CollectAnswers, Terminated, Resolve
      <3>2. CASE CommitOutcome(k)
        BY <2>1, <3>2 DEF CommitOutcome
      <3>3. CASE BeginExecution(k) \/ CollectStops(k) \/ Unrecorded(k)
        BY <2>1, <3>3 DEF BeginExecution, CollectStops, Unrecorded, Terminated, Resolve
      <3> QED BY <1>6, <3>1, <3>2, <3>3 DEF ExecutionStep
    <2>3. k \in LiveWorkerKeys
      BY <1>6 DEF AdapterStep, DispatchReturns, StreamEnds, CollectAnswers,
                  ExecutionStep, BeginExecution, CollectStops, Unrecorded, CommitOutcome
    <2>4. /\ \A j \in Turns \ {k} : turn'[j] = turn[j]
          /\ UNCHANGED <<epoch, release>>
      BY <1>6 DEF AdapterStep, ExecutionStep, CommitOutcome, Records, TypeOK
    <2>5. \A j \in Turns : worker'[j] = "none" => worker[j] = "none" /\ j # k
      BY <2>2, <2>3
    <2> QED BY <2>2, <2>4, <2>5
  <1>7. CASE AddRecoveryBlocker(k) \/ Retire(k)
    BY <1>7 DEF AddRecoveryBlocker, Retire, RetireEpoch, AdvanceEpoch
  <1>8. CASE ControlRequest(k) \/ CancelEnds(k) \/ ReconcileEnds(k) \/ CancelConfirmed(k) \/ OpenEpisode(k)
    BY <1>8 DEF ControlRequest, BeginControl, CancelEnds, ReconcileEnds, GiveUp, CancelConfirmed, OpenEpisode
  <1>9. CASE RequestCancel(k)
    BY <1>9 DEF RequestCancel, TypeOK, Live
  <1>10. CASE RecordCancelled(k)
    <2>1. "cancelled" \notin Live
      BY DEF Live
    <2> QED BY <1>10, <2>1 DEF RecordCancelled, Records, TypeOK
  <1>11. CASE ReconcileSession(k)
    <2>1. \A o \in Terminal : o \notin Live
      BY DEF Live, Terminal
    <2> QED BY <1>11, <2>1 DEF ReconcileSession, TypeOK
  <1> QED
    BY <1>1, <1>2, <1>3, <1>4, <1>5, <1>6, <1>7, <1>8, <1>9, <1>10, <1>11
    DEF TurnStep, ReleaseStep, SupervisorStep, CancelStep, ReconcileStep

\* Orphans are finite and their count is monotone.
LEMMA OrphansCount ==
  /\ Cardinality(Orphans) \in Nat
  /\ \A S : S \subseteq Turns /\ Orphans \subseteq S => Cardinality(Orphans) <= Cardinality(S)
  <1>1. Orphans \subseteq Turns
    BY DEF Orphans
  <1>2. Cardinality(Orphans) \in Nat
    BY <1>1, CountsAreNatural
  <1>3. ASSUME NEW S, S \subseteq Turns, Orphans \subseteq S
        PROVE  Cardinality(Orphans) <= Cardinality(S)
    BY <1>3, CountsAreNatural, FS_Subset
  <1> QED BY <1>2, <1>3

\* The same of the next state.
LEMMA OrphansCountNext ==
  ASSUME Orphans' \subseteq Orphans
  PROVE  Cardinality(Orphans') \in Nat /\ Cardinality(Orphans') <= Cardinality(Orphans)
  <1>1. Orphans \subseteq Turns /\ Orphans' \subseteq Turns
    BY DEF Orphans
  <1>2. IsFiniteSet(Orphans) /\ Cardinality(Orphans') \in Nat
    BY <1>1, CountsAreNatural
  <1> QED BY <1>2, FS_Subset

\* A turn's step.
LEMMA TurnKeepsCount ==
  ASSUME TypeOK, CountInv, NEW k \in Turns, TurnStep(k)
  PROVE  CountInv'
  <1> SUFFICES ASSUME NEW p \in Observers
               PROVE  /\ refresh'[p].epoch <= epoch'
                      /\ refresh'[p].epoch = epoch' /\ gate' # "stopping" =>
                           /\ refresh'[p].pc = "turns" => refresh'[p].live = LiveWorkerKeys'
                           /\ refresh'[p].pc \in {"lost", "apply"} =>
                                Cardinality(Orphans') <= refresh'[p].n
    BY DEF CountInv
  <1>1. refresh'[p] = refresh[p] /\ gate' = gate
    BY TurnFrame
  <1>2. refresh[p].epoch \in Nat /\ refresh[p].n \in Nat /\ epoch \in Nat /\ refresh[p].epoch <= epoch
    BY DEF TypeOK, CountInv
  <1>3. CASE epoch' = epoch + 1
    BY <1>1, <1>2, <1>3
  <1>4. CASE epoch' = epoch /\ gate = "stopping"
    BY <1>1, <1>2, <1>4
  <1>5. CASE epoch' = epoch /\ LiveWorkerKeys' = LiveWorkerKeys /\ Orphans' \subseteq Orphans
    <2>1. /\ Cardinality(Orphans') \in Nat /\ Cardinality(Orphans) \in Nat
          /\ Cardinality(Orphans') <= Cardinality(Orphans)
      BY <1>5, OrphansCount, OrphansCountNext
    <2>2. refresh[p].epoch = epoch /\ gate # "stopping" =>
            /\ refresh[p].pc = "turns" => refresh[p].live = LiveWorkerKeys
            /\ refresh[p].pc \in {"lost", "apply"} => Cardinality(Orphans) <= refresh[p].n
      BY DEF CountInv
    <2> QED BY <1>1, <1>2, <1>5, <2>1, <2>2
  <1> QED BY <1>3, <1>4, <1>5, TurnCounts

\* A refresh's own step: its count is of the turns without a live worker.
LEMMA RefreshKeepsCount ==
  ASSUME TypeOK, CountInv, NEW p \in Observers, RefreshStep(p) \/ LoopStep(p)
  PROVE  CountInv'
  <1>1. /\ UNCHANGED <<turn, release, worker, epoch>>
        /\ gate' # "stopping" => gate # "stopping"
    BY RefreshFrame
  <1>2. LiveWorkerKeys' = LiveWorkerKeys /\ Orphans' = Orphans
    BY <1>1 DEF LiveWorkerKeys, Orphans, Unresolved
  <1> DEFINE G(r) == /\ r.epoch <= epoch
                     /\ r.epoch = epoch /\ gate' # "stopping" =>
                          /\ r.pc = "turns" => r.live = LiveWorkerKeys
                          /\ r.pc \in {"lost", "apply"} => Cardinality(Orphans) <= r.n
  <1>3. \A q \in Observers : G(refresh[q]) /\ refresh[q] \in Refreshes
    BY <1>1 DEF CountInv, TypeOK, Refreshes
  <1>4. /\ epoch \in Nat /\ Cardinality(Orphans) \in Nat
        /\ \A r \in Refreshes : r.n \in Nat /\ r.epoch \in Nat
    BY OrphansCount DEF TypeOK, Refreshes
  <1>5. PICK r \in Refreshes :
          /\ Moves(p, r)
          /\ \/ r.pc \in {"off", "epoch", "decide", "teardown"} /\ r.epoch \in {0, refresh[p].epoch}
             \/ r.pc = "live" /\ r.epoch = epoch
             \/ r.pc = "turns" /\ r.epoch = refresh[p].epoch /\ r.live = LiveWorkerKeys
             \/ /\ r.pc = "lost" /\ refresh[p].pc = "turns"
                /\ r.epoch = refresh[p].epoch
                /\ r.n = Cardinality({k \in Turns : turn[k] \in Live /\ k \notin refresh[p].live})
             \/ /\ r.pc = "apply" /\ refresh[p].pc = "lost"
                /\ r.epoch = refresh[p].epoch /\ r.n >= refresh[p].n
    BY RefreshMoves, LoopMoves
  <1>6. G(r)
    <2>1. CASE r.pc = "lost"
      <3> DEFINE S == {k \in Turns : turn[k] \in Live /\ k \notin refresh[p].live}
      <3>1. refresh[p].pc = "turns" /\ r.epoch = refresh[p].epoch /\ r.n = Cardinality(S)
        BY <1>5, <2>1
      <3>2. ASSUME refresh[p].live = LiveWorkerKeys PROVE Cardinality(Orphans) <= Cardinality(S)
        <4>1. S \subseteq Turns /\ Orphans \subseteq S
          BY <3>2 DEF Orphans, Unresolved, LiveWorkerKeys
        <4> QED BY <4>1, OrphansCount
      <3> HIDE DEF S
      <3> QED BY <1>3, <2>1, <3>1, <3>2
    <2>2. CASE r.pc = "apply"
      BY <1>3, <1>4, <1>5, <2>2
    <2>3. CASE r.pc \notin {"lost", "apply"}
      BY <1>3, <1>4, <1>5, <2>3
    <2> QED BY <2>1, <2>2, <2>3
  <1>7. \A q \in Observers : G(refresh'[q])
    BY <1>3, <1>5, <1>6 DEF Moves
  <1> QED BY <1>1, <1>2, <1>7 DEF CountInv

\* Stopping and restarting.
LEMMA ProcessKeepsCount ==
  ASSUME TypeOK, CountInv, ProcessStep
  PROVE  CountInv'
  <1>1. CASE TryStopIdle
    <2>1. /\ UNCHANGED <<turn, release, worker, epoch>> /\ "stop" \in Observers
          /\ refresh' = [refresh EXCEPT !["stop"] = Off] /\ (gate' # "stopping" => gate # "stopping")
      BY <1>1 DEF TryStopIdle
    <2>2. LiveWorkerKeys' = LiveWorkerKeys /\ Orphans' = Orphans
      BY <2>1 DEF LiveWorkerKeys, Orphans, Unresolved
    <2>3. Off.pc = "off" /\ Off.epoch = 0 /\ epoch \in Nat
      BY DEF Off, TypeOK
    <2>4. \A q \in Observers : refresh'[q] = IF q = "stop" THEN Off ELSE refresh[q]
      BY <2>1 DEF TypeOK
    <2> QED BY <2>1, <2>2, <2>3, <2>4 DEF CountInv
  <1>2. CASE StopTeardown \/ OrderlyTeardown \/ ForcedTeardown
    <2>1. /\ UNCHANGED <<turn, release, worker, epoch, refresh>>
          /\ gate' # "stopping" => gate # "stopping"
      BY <1>2 DEF StopTeardown, BeginTeardown, OrderlyTeardown, ForcedTeardown
    <2>2. LiveWorkerKeys' = LiveWorkerKeys /\ Orphans' = Orphans
      BY <2>1 DEF LiveWorkerKeys, Orphans, Unresolved
    <2> QED BY <2>1, <2>2 DEF CountInv
  <1>3. CASE Restart
    <2>1. refresh' = [p \in Observers |-> Off] /\ epoch' = 0
      BY <1>3 DEF Restart
    <2> QED BY <2>1 DEF Off, CountInv
  <1> QED BY <1>1, <1>2, <1>3 DEF ProcessStep

\* What an applied count covers.
LEMMA AppliedCovers ==
  ASSUME TypeOK, CountInv, NEW p \in Observers, ApplyDiagnosticBlockers(p),
         refresh[p].epoch = epoch, gate # "stopping"
  PROVE  Cardinality({k \in Turns : Unresolved(k) /\ release[k] = "idle"}) <= blockers'
  <1> DEFINE S == {k \in Turns : Unresolved(k) /\ release[k] = "idle"}
  <1>1. blockers' = refresh[p].n /\ refresh[p].pc = "apply" /\ refresh[p].n \in Nat
    BY DEF ApplyDiagnosticBlockers, ReconciledCount, TypeOK
  <1>2. Cardinality(Orphans) <= refresh[p].n
    BY <1>1 DEF CountInv
  <1>3. S \subseteq Orphans /\ Orphans \subseteq Turns
    BY DEF Orphans
  <1> HIDE DEF S
  <1>4. IsFiniteSet(Orphans) /\ Cardinality(Orphans) \in Nat
    BY <1>3, CountsAreNatural
  <1>5. Cardinality(S) \in Nat /\ Cardinality(S) <= Cardinality(Orphans)
    BY <1>3, <1>4, CountsAreNatural, FS_Subset
  <1>6. Cardinality(S) <= blockers'
    BY <1>1, <1>2, <1>4, <1>5
  <1> QED BY <1>6 DEF S

-----------------------------------------------------------------------------
(* The theorems.                                                           *)

SvcInv == TypeOK /\ DispatchInv /\ EvidenceInv /\ IdleInv /\ CountInv

\* It holds when the service starts.
LEMMA SvcInvInit == ASSUME Init PROVE SvcInv
  <1>1. TypeOK
    <2>1. refresh \in [Observers -> Refreshes]
      BY DEF Init, Off, Refreshes
    <2> QED BY <2>1 DEF Init, TypeOK, Refreshes
  <1>2. DispatchInv /\ EvidenceInv /\ IdleInv
    BY DEF Init, DispatchInv, EvidenceInv, IdleInv, Terminal
  <1>3. CountInv
    BY DEF Init, CountInv, Off
  <1> QED BY <1>1, <1>2, <1>3 DEF SvcInv

\* Every step keeps it.
LEMMA SvcInvNext == ASSUME SvcInv, [Next]_vars PROVE SvcInv'
  <1> USE DEF SvcInv
  <1>1. CASE Next
    <2>1. IdleInv'
      BY <1>1, IdleKeeps
    <2>2. ASSUME NEW k \in Turns, TurnStep(k) PROVE SvcInv'
      <3>1. TypeOK' /\ DispatchInv' /\ EvidenceInv'
        BY <2>2, ReleaseTypes, SupervisorTypes, ControlTypes, ReleaseKeeps, SupervisorKeeps, ControlKeeps
        DEF TurnStep
      <3> QED BY <2>1, <2>2, <3>1, TurnKeepsCount
    <2>3. ASSUME NEW p \in Observers, RefreshStep(p) \/ LoopStep(p) PROVE SvcInv'
      BY <2>1, <2>3, RefreshTypes, ProcessKeeps, RefreshKeepsCount
    <2>4. CASE ProcessStep
      BY <2>1, <2>4, ProcessTypes, ProcessKeeps, ProcessKeepsCount
    <2> QED BY <1>1, <2>2, <2>3, <2>4 DEF Next
  <1>2. CASE UNCHANGED vars
    <2>1. TypeOK'
      BY <1>2 DEF TypeOK
    <2>2. DispatchInv' /\ EvidenceInv' /\ IdleInv'
      BY <1>2 DEF DispatchInv, EvidenceInv, IdleInv, NothingInFlight
    <2>3. CountInv'
      BY <1>2 DEF CountInv, Orphans, Unresolved, LiveWorkerKeys
    <2> QED BY <2>1, <2>2, <2>3
  <1> QED BY <1>1, <1>2

\* The types hold, and a turn is handed to its adapter at most once, however often it is
\* released, and wherever the process stops, crashes or starts again.
THEOREM ServiceAlwaysSound == Spec => []ServiceInv
  <1>1. SvcInv => ServiceInv
    BY DEF SvcInv, ServiceInv, DispatchInv, DispatchedOnce
  <1> QED BY <1>1, SvcInvInit, SvcInvNext, PTL DEF Spec

\* Every outcome on record was reported by the adapter, confirmed, found by a probe, or is the
\* failure to dispatch: a termination or a crash makes none up.
THEOREM OutcomesAlwaysGrounded == Spec => []OutcomesHaveEvidence
  <1>1. SvcInv => OutcomesHaveEvidence
    BY DEF SvcInv, EvidenceInv, OutcomesHaveEvidence
  <1> QED BY <1>1, SvcInvInit, SvcInvNext, PTL DEF Spec

\* Nothing reaches the disk between the answer to an idle stop and the end of the process.
THEOREM IdleStopStaysQuiet == Spec => IdleStopIsQuiet
  <1>1. SvcInv /\ [Next]_vars => [idle /\ idle' => UNCHANGED <<diskVars, historyVars>>]_vars
    BY IdleKeeps DEF SvcInv
  <1> QED BY <1>1, SvcInvInit, SvcInvNext, PTL DEF Spec, IdleStopIsQuiet

\* A count that is applied under an unchanged epoch covers every live turn that nobody attends
\* to, whatever started, ended or was handed over while it was being made.
THEOREM AppliedCountsSound == Spec => AppliedCountIsSound
  <1>1. SvcInv /\ [Next]_vars =>
          [\A p \in DOMAIN refresh :
             /\ ApplyDiagnosticBlockers(p)
             /\ refresh[p].epoch = epoch
             /\ gate # "stopping"
             => Cardinality({k \in Turns : Unresolved(k) /\ release[k] = "idle"}) <= blockers']_vars
    <2>1. SvcInv => DOMAIN refresh = Observers
      BY DEF SvcInv, TypeOK
    <2> QED BY <2>1, AppliedCovers DEF SvcInv
  <1> QED BY <1>1, SvcInvInit, SvcInvNext, PTL DEF Spec, AppliedCountIsSound
=============================================================================
