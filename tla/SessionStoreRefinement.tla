----------------------- MODULE SessionStoreRefinement -----------------------
(***************************************************************************)
(* The store implements the turn lifecycle: every committed operation is   *)
(* one step of TurnLifecycle or changes nothing it speaks of.              *)
(***************************************************************************)
EXTENDS SessionStoreProofs

\* The mapped state, as functions of the turn.
Phase == [k \in TurnKeys |-> TurnPhase(k)]
Outcome == [k \in TurnKeys |-> TurnOutcome(k)]

\* Neither the turn rows nor the set of queued turns changed.
TurnsAlone ==
  /\ turns' = turns
  /\ \A j \in TurnKeys : pending'[j] = NotQueued <=> pending[j] = NotQueued

\* When the turns stand where they stood, so do their phases and outcomes.
LEMMA AloneMapped ==
  ASSUME TurnsAlone
  PROVE  Phase' = Phase /\ Outcome' = Outcome
  BY DEF TurnsAlone, Phase, Outcome, TurnPhase, TurnOutcome, NoOutcome

\* A step that leaves turns, visibility and lifecycle alone is a stutter.
LEMMA Stutters ==
  ASSUME TurnsAlone, UNCHANGED <<visibility, lifecycle>>
  PROVE  UNCHANGED Lifecycle!vars
  BY AloneMapped DEF Lifecycle!vars, Phase, Outcome

\* The turns that occupy the session: the reserved one.
LEMMA OccupyingMapped ==
  ASSUME StoreInv
  PROVE  Lifecycle!Occupying = {k \in TurnKeys : activeKey = k}
  BY DEF StoreInv, ReservationExact, Lifecycle!Occupying, TurnPhase, Live, Terminal

\* A new session is an initial state of the lifecycle.
LEMMA MappedInit == Init => Lifecycle!Init
  BY DEF Init, Lifecycle!Init, TurnPhase, TurnOutcome, NoOutcome, NoTurn, Live, Terminal

\* Queuing a prompt enqueues its turn, or is a stutter.
LEMMA MappedQueue ==
  ASSUME StoreInv, NEW o \in AllOps, NEW k \in TurnKeys, NEW p \in Prompts, NEW t \in Tools,
         QueuePrompt(o, k, p, t)
  PROVE  Lifecycle!Enqueue(k) \/ UNCHANGED Lifecycle!vars
  <1>1. CASE CommitNoop(o, "queue_prompt", k)
    BY <1>1, Stutters DEF CommitNoop, TurnsAlone, rowVars, recoveryVars, childVars
  <1>2. CASE ~CommitNoop(o, "queue_prompt", k)
    <2>1. /\ turns[k] = NoTurn /\ pending[k] = NotQueued /\ lifecycle = "active"
          /\ pending' = [pending EXCEPT ![k] = [prompt |-> p, tools |-> t]]
          /\ UNCHANGED <<turns, visibility, lifecycle>>
      BY <1>2 DEF QueuePrompt, DecisionAllowed, rowVars, recoveryVars
    <2>2. [prompt |-> p, tools |-> t] # NotQueued
      BY StoreAssumption
    <2>3. pending \in [TurnKeys -> PendingPrompt \cup {NotQueued}]
      BY DEF StoreInv, TypeOK
    <2>4. Phase[k] = "absent" /\ Phase' = [Phase EXCEPT ![k] = "queued"]
      <3>1. turns[k].status = "none"
        BY <2>1 DEF NoTurn
      <3>2. pending'[k] # NotQueued /\ \A j \in TurnKeys \ {k} : pending'[j] = pending[j]
        BY <2>1, <2>2, <2>3
      <3> QED BY <2>1, <3>1, <3>2 DEF Phase, TurnPhase, Live, Terminal
    <2>5. Outcome' = Outcome
      BY <2>1 DEF Outcome, TurnOutcome, NoOutcome
    <2> QED BY <2>1, <2>4, <2>5 DEF Lifecycle!Enqueue, Lifecycle!Move, Phase, Outcome
  <1> QED BY <1>1, <1>2

\* Replacing a prompt is a stutter.
LEMMA MappedReplace ==
  ASSUME StoreInv, NEW o \in AllOps, NEW k \in TurnKeys, NEW p \in Prompts,
         NEW t \in Tools \cup {Unstated}, ReplacePendingPrompt(o, k, p, t)
  PROVE  UNCHANGED Lifecycle!vars
  <1>1. pending \in [TurnKeys -> PendingPrompt \cup {NotQueued}]
    BY DEF StoreInv, TypeOK
  <1>2. [prompt |-> p, tools |-> pending[k].tools] # NotQueued
    BY <1>1, StoreAssumption DEF ReplacePendingPrompt, PendingPrompt
  <1>3. TurnsAlone
    BY <1>1, <1>2 DEF ReplacePendingPrompt, TurnsAlone
  <1> QED BY <1>3, Stutters DEF ReplacePendingPrompt, rowVars, recoveryVars

\* Discarding a prompt withdraws its turn.
LEMMA MappedDiscard ==
  ASSUME StoreInv, NEW o \in AllOps, NEW k \in TurnKeys, DiscardPendingPrompt(o, k)
  PROVE  Lifecycle!Withdraw(k)
  <1>1. /\ lifecycle = "active" /\ pending[k] # NotQueued
        /\ pending' = [pending EXCEPT ![k] = NotQueued]
        /\ UNCHANGED <<turns, visibility, lifecycle>>
    BY DEF DiscardPendingPrompt, DecisionAllowed, rowVars, recoveryVars
  <1>2. turns[k].status = "none" /\ pending \in [TurnKeys -> PendingPrompt \cup {NotQueued}]
    BY <1>1 DEF StoreInv, RowsAgree, TypeOK
  <1>3. Phase[k] = "queued" /\ Phase' = [Phase EXCEPT ![k] = "absent"]
    BY <1>1, <1>2 DEF Phase, TurnPhase, Live, Terminal
  <1>4. Outcome' = Outcome
    BY <1>1 DEF Outcome, TurnOutcome, NoOutcome
  <1> QED BY <1>1, <1>3, <1>4 DEF Lifecycle!Withdraw, Lifecycle!Move, Phase, Outcome

\* A release begins its turn.
LEMMA MappedRelease ==
  ASSUME StoreInv, NEW o \in AllOps, NEW k \in TurnKeys, ReleaseTurn(o, k)
  PROVE  Lifecycle!Begin(k)
  <1>1. /\ lifecycle = "active" /\ visibility # "host_lost" /\ activeKey = NoKey
        /\ pending[k] # NotQueued
        /\ pending' = [pending EXCEPT ![k] = NotQueued]
        /\ turns' = [turns EXCEPT ![k] = [status |-> "running", result |-> NoResult,
                                          attempt |-> NewAttempt]]
        /\ UNCHANGED <<visibility, lifecycle>>
    BY DEF ReleaseTurn, DecisionAllowed, Releasable, recoveryVars
  <1>2. /\ turns[k].status = "none" /\ pending \in [TurnKeys -> PendingPrompt \cup {NotQueued}]
        /\ turns \in [TurnKeys -> TurnRow]
    BY <1>1 DEF StoreInv, RowsAgree, TypeOK
  <1>3. Lifecycle!Occupying = {}
    BY <1>1, OccupyingMapped, StoreAssumption
  <1>4. Phase[k] = "queued" /\ Phase' = [Phase EXCEPT ![k] = "running"]
    BY <1>1, <1>2 DEF Phase, TurnPhase, Live, Terminal
  <1>5. Outcome' = Outcome
    BY <1>1, <1>2 DEF Outcome, TurnOutcome, NoOutcome, Terminal
  <1> QED BY <1>1, <1>3, <1>4, <1>5 DEF Lifecycle!Begin, Lifecycle!Move, Phase, Outcome

\* A cancel request asks for the turn's cancellation, or is a stutter.
LEMMA MappedCancel ==
  ASSUME StoreInv, NEW o \in AllOps, NEW k \in TurnKeys, RequestCancel(o, k)
  PROVE  Lifecycle!AskCancel(k) \/ UNCHANGED Lifecycle!vars
  <1>1. CASE CommitNoop(o, "request_cancel", k)
    BY <1>1, Stutters DEF CommitNoop, TurnsAlone, rowVars, recoveryVars, childVars
  <1>2. CASE ~CommitNoop(o, "request_cancel", k)
    <2>1. /\ turns[k].status = "running"
          /\ turns' = [turns EXCEPT ![k].status = "cancelling"]
          /\ UNCHANGED <<pending, visibility, lifecycle>>
      BY <1>2 DEF RequestCancel, rowVars, recoveryVars
    <2>2. turns \in [TurnKeys -> TurnRow]
      BY DEF StoreInv, TypeOK
    <2>3. Phase[k] = "running" /\ Phase' = [Phase EXCEPT ![k] = "cancelling"]
      BY <2>1, <2>2 DEF Phase, TurnPhase, TurnRow, Live, Terminal
    <2>4. Outcome' = Outcome
      BY <2>1, <2>2 DEF Outcome, TurnOutcome, NoOutcome, TurnRow, Terminal
    <2> QED BY <2>1, <2>3, <2>4 DEF Lifecycle!AskCancel, Lifecycle!Move, Phase, Outcome
  <1> QED BY <1>1, <1>2

\* The write that concludes the reserved turn.
LEMMA MappedConclude ==
  ASSUME StoreInv, NEW k \in TurnKeys, NEW s \in Terminal, NEW r \in ResultTexts,
         activeKey = k,
         turns' = [turns EXCEPT ![k].status = s, ![k].result = r],
         visibility' \in {visibility, "reachable"},
         UNCHANGED <<pending, lifecycle>>
  PROVE  \E c \in [status : Terminal, result : Results \cup {NoResult}] : Lifecycle!Conclude(k, c)
  <1> DEFINE c == [status |-> s, result |-> r]
  <1>1. turns \in [TurnKeys -> TurnRow] /\ turns[k].status \in Live
    BY DEF StoreInv, TypeOK, ReservationExact
  <1>2. c \in [status : Terminal, result : Results \cup {NoResult}]
    BY DEF ResultTexts
  <1>3. Phase[k] \in {"running", "cancelling"} /\ Phase' = [Phase EXCEPT ![k] = "done"]
    BY <1>1 DEF Phase, TurnPhase, TurnRow, Live, Terminal
  <1>4. Outcome' = [Outcome EXCEPT ![k] = c]
    BY <1>1 DEF Outcome, TurnOutcome, NoOutcome, TurnRow
  <1>5. (visibility = "host_lost")' \in {visibility = "host_lost", FALSE}
    OBVIOUS
  <1>6. Lifecycle!Conclude(k, c)
    BY <1>3, <1>4, <1>5 DEF Lifecycle!Conclude, Lifecycle!Move, Phase, Outcome
  <1> QED BY <1>2, <1>6

\* Recording an outcome concludes its turn, or is a stutter.
LEMMA MappedOutcome ==
  ASSUME StoreInv, NEW o \in AllOps, NEW k \in TurnKeys, NEW cmd,
         NEW s \in Terminal, NEW r \in ResultTexts, RecordOutcome(o, cmd, k, s, r)
  PROVE  [Lifecycle!Next]_(Lifecycle!vars)
  <1>1. CASE CommitNoop(o, cmd, k)
    BY <1>1, Stutters DEF CommitNoop, TurnsAlone, rowVars, recoveryVars, childVars
  <1>2. CASE ~CommitNoop(o, cmd, k)
    <2>1. /\ turns[k] # NoTurn /\ turns[k].status \notin Terminal
          /\ turns' = [turns EXCEPT ![k].status = s, ![k].result = r]
          /\ UNCHANGED <<lifecycle, visibility, pending>>
      BY <1>2 DEF RecordOutcome, Undecided
    <2>2. activeKey = k
      <3>1. turns[k].status \in Live
        BY <2>1 DEF StoreInv, RowsAgree, TypeOK, TurnRow
      <3> QED BY <3>1 DEF StoreInv, ReservationExact
    <2>3. \E c \in [status : Terminal, result : Results \cup {NoResult}] : Lifecycle!Conclude(k, c)
      BY <2>1, <2>2, MappedConclude
    <2> QED BY <2>3 DEF Lifecycle!Next
  <1> QED BY <1>1, <1>2

\* A reconciliation concludes the turn, finds the host, or is a stutter.
LEMMA MappedReconcile ==
  ASSUME StoreInv, NEW o \in AllOps, NEW k \in TurnKeys, NEW a, NEW g,
         NEW out \in ProbeOutcomes, NEW r \in ResultTexts, ReconcileSession(o, k, a, g, out, r)
  PROVE  [Lifecycle!Next]_(Lifecycle!vars)
  <1>1. UNCHANGED <<lifecycle, pending>>
    BY DEF ReconcileSession
  <1>2. CASE /\ activeKey = k
             /\ out \in Terminal \cup {"definitively_missing"}
             /\ turns' = [turns EXCEPT ![k].status = ReconciledStatus(out), ![k].result = r]
             /\ CloseEpisode
    <2>1. ReconciledStatus(out) \in Terminal
      BY <1>2 DEF ReconciledStatus, Terminal
    <2>2. \E c \in [status : Terminal, result : Results \cup {NoResult}] : Lifecycle!Conclude(k, c)
      BY <1>1, <1>2, <2>1, MappedConclude DEF CloseEpisode
    <2> QED BY <2>2 DEF Lifecycle!Next
  <1>3. CASE CloseEpisode /\ turns' = turns
    <2>1. Phase' = Phase /\ Outcome' = Outcome
      BY <1>1, <1>3, AloneMapped DEF TurnsAlone
    <2>2. Lifecycle!FindHost
      BY <1>1, <1>3, <2>1 DEF CloseEpisode, Lifecycle!FindHost, Phase, Outcome
    <2> QED BY <2>2 DEF Lifecycle!Next
  <1>4. CASE UNCHANGED <<recoveryVars, turns>>
    BY <1>1, <1>4, Stutters DEF TurnsAlone, recoveryVars
  <1> QED BY <1>2, <1>3, <1>4 DEF ReconcileSession, ReconcileActive, ReconcilePostTerminal

\* The operations on the session's row lose the host, archive, or stutter.
LEMMA MappedSession ==
  ASSUME StoreInv, NEW o \in AllOps, SessionOperation(o)
  PROVE  [Lifecycle!Next]_(Lifecycle!vars)
  <1>1. CASE UNCHANGED <<turns, pending, visibility, lifecycle>>
    BY <1>1, Stutters DEF TurnsAlone
  <1>2. CASE RecordHostLoss(o)
    <2>1. CASE UNCHANGED visibility
      BY <1>1, <1>2, <2>1 DEF RecordHostLoss, CommitNoop, rowVars, childVars
    <2>2. CASE visibility' # visibility
      <3>1. /\ activeKey # NoKey /\ visibility' = "host_lost"
            /\ UNCHANGED <<turns, pending, lifecycle>>
        BY <1>2, <2>2 DEF RecordHostLoss, CommitNoop, rowVars, recoveryVars, childVars
      <3>2. Lifecycle!Occupying # {}
        BY <3>1, OccupyingMapped DEF StoreInv, TypeOK
      <3>3. Lifecycle!LoseHost
        BY <3>1, <3>2, AloneMapped DEF TurnsAlone, Lifecycle!LoseHost, Phase, Outcome
      <3> QED BY <3>3 DEF Lifecycle!Next
    <2> QED BY <2>1, <2>2
  <1>3. CASE ArchiveSession(o)
    <2>1. CASE UNCHANGED lifecycle
      BY <1>1, <1>3, <2>1 DEF ArchiveSession, CommitNoop, rowVars, recoveryVars, childVars
    <2>2. CASE lifecycle' # lifecycle
      <3>1. /\ Archivable /\ lifecycle' = "archived"
            /\ UNCHANGED <<turns, pending, visibility>>
        BY <1>3, <2>2 DEF ArchiveSession, CommitNoop, rowVars, recoveryVars, childVars
      <3>2. Lifecycle!Occupying = {}
        BY <3>1, OccupyingMapped, StoreAssumption DEF Archivable
      <3>3. Lifecycle!Archive
        BY <3>1, <3>2, AloneMapped DEF Archivable, TurnsAlone, Lifecycle!Archive, Phase, Outcome
      <3> QED BY <3>3 DEF Lifecycle!Next
    <2> QED BY <2>1, <2>2
  <1>4. CASE SetNativeBinding(o) \/ \E status \in {"connected", "disconnected"} :
                                      SetControllerConnection(o, status)
    BY <1>1, <1>4 DEF SetNativeBinding, SetControllerConnection, CommitNoop, rowVars, recoveryVars,
       childVars
  <1> QED BY <1>2, <1>3, <1>4 DEF SessionOperation

\* The store refines the turn lifecycle.
THEOREM StoreImplementsLifecycle == Spec => ImplementsLifecycle
  <1>1. StoreInv /\ [Next]_vars => [Lifecycle!Next]_(Lifecycle!vars)
    <2> SUFFICES ASSUME StoreInv, [Next]_vars PROVE [Lifecycle!Next]_(Lifecycle!vars)
      OBVIOUS
    <2>1. CASE UNCHANGED <<turns, pending, visibility, lifecycle>>
      BY <2>1, Stutters DEF TurnsAlone
    <2>2. ASSUME NEW o \in AllOps, NEW k \in TurnKeys, TurnOperation(o, k)
          PROVE  [Lifecycle!Next]_(Lifecycle!vars)
      <3>1. CASE \/ \E p \in Prompts, t \in Tools : QueuePrompt(o, k, p, t)
                 \/ \E p \in Prompts, t \in Tools \cup {Unstated} : ReplacePendingPrompt(o, k, p, t)
                 \/ DiscardPendingPrompt(o, k)
                 \/ ReleaseTurn(o, k)
                 \/ RequestCancel(o, k)
        BY <3>1, MappedQueue, MappedReplace, MappedDiscard, MappedRelease, MappedCancel
           DEF Lifecycle!Next
      <3>2. ASSUME NEW ph, SetIntentPhase(o, k, ph) PROVE [Lifecycle!Next]_(Lifecycle!vars)
        BY <2>1, <3>2 DEF SetIntentPhase, rowVars, recoveryVars
      <3>3. ASSUME NEW ph, RecordDispatchObservation(o, k, ph)
            PROVE  [Lifecycle!Next]_(Lifecycle!vars)
        BY <2>1, <3>2, <3>3 DEF RecordDispatchObservation, CommitNoop, rowVars, recoveryVars, childVars
      <3>4. CASE \/ \E s \in Terminal, r \in ResultTexts : RecordTerminalOutcome(o, k, s, r)
                 \/ \E a \in Attempts, s \in Terminal, r \in ResultTexts :
                      RecordObservedExecutionOutcome(o, k, a, s, r)
        BY <3>4, MappedOutcome DEF RecordTerminalOutcome, RecordObservedExecutionOutcome
      <3>5. CASE \E a \in Attempts, g \in 0 .. recoveryGen, out \in ProbeOutcomes, r \in ResultTexts :
                   ReconcileSession(o, k, a, g, out, r)
        BY <3>5, MappedReconcile
      <3> QED BY <2>2, <3>1, <3>2, <3>3, <3>4, <3>5 DEF TurnOperation,
              RecordObservedDispatchAcknowledgement
    <2>3. ASSUME RunOperation PROVE [Lifecycle!Next]_(Lifecycle!vars)
      BY <2>1, <2>3 DEF RunOperation, AdoptController, HandoffController, RevokeController,
         ConnectRunController, DisconnectRunController, ProjectSessionConnection, rowVars,
         recoveryVars, childVars
    <2>4. CASE UNCHANGED vars
      BY <2>1, <2>4 DEF vars, rowVars, recoveryVars, childVars
    <2> QED BY <2>2, <2>3, <2>4, MappedSession DEF Next
  <1> QED BY MappedInit, RowsAlwaysAgree, <1>1, PTL DEF Spec, ImplementsLifecycle, Lifecycle!Spec
=============================================================================
