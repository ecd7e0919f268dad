------------------------- MODULE SessionStoreProofs -------------------------
(***************************************************************************)
(* SessionStore for every set of turns, prompts, tools, results and        *)
(* operation ids, and every bound on versions and generations.             *)
(***************************************************************************)
EXTENDS SessionStore, TLAPS

-----------------------------------------------------------------------------
(* Type correctness.                                                       *)

\* The row CreateSession inserts, and the run's grant, are well typed.
LEMMA TypeOKInit == Init => TypeOK
  <1> SUFFICES ASSUME Init PROVE TypeOK
    OBVIOUS
  <1>1. GrantTypeOK
    <2>1. gen \in Nat
      BY DEF Init, GrantInit
    <2>2. active \in BOOLEAN /\ connected \in BOOLEAN /\ legacy \in BOOLEAN
      BY Zenon DEF Init, GrantInit
    <2> QED BY <2>1, <2>2 DEF GrantTypeOK
  <1>2. bound \in BOOLEAN
    BY Zenon DEF Init
  <1>3. NoTurn \in TurnRow /\ NoIntent \in IntentRow
    BY DEF NoTurn, NoIntent, TurnRow, IntentRow, IntentPhases
  <1> QED BY <1>1, <1>2, <1>3 DEF Init, TypeOK

\* The journal keeps its type whatever receipt is recorded in it.
LEMMA JournalTyped ==
  ASSUME TypeOK, NEW o \in AllOps, NEW cmd \in Commands,
         NEW k \in TurnKeys \cup {NoKey}, NEW ver \in Nat,
         RecordJournalEntry(o, cmd, k, ver)
  PROVE  journal' \in [OpIDs -> Receipt \cup {NoReceipt}]
  BY DEF TypeOK, RecordJournalEntry, Receipt

\* The effectful end of an operation keeps version and journal well typed.
LEMMA CommitTyped ==
  ASSUME TypeOK, NEW o \in AllOps, NEW cmd \in Commands,
         NEW k \in TurnKeys \cup {NoKey}, Commit(o, cmd, k)
  PROVE  /\ rowVersion' = rowVersion + 1
         /\ rowVersion' \in Nat
         /\ journal' \in [OpIDs -> Receipt \cup {NoReceipt}]
  <1>1. rowVersion + 1 \in Nat /\ rowVersion' = rowVersion + 1
    BY DEF TypeOK, Commit, Bump
  <1>2. RecordJournalEntry(o, cmd, k, rowVersion + 1)
    BY DEF Commit
  <1> QED BY <1>1, <1>2, JournalTyped

\* So does the end of an operation that found its effect in place.
LEMMA NoopTyped ==
  ASSUME TypeOK, NEW o \in AllOps, NEW cmd \in Commands,
         NEW k \in TurnKeys \cup {NoKey}, CommitNoop(o, cmd, k)
  PROVE  TypeOK'
  <1>1. journal' \in [OpIDs -> Receipt \cup {NoReceipt}]
    BY JournalTyped DEF CommitNoop, TypeOK
  <1> QED BY <1>1 DEF TypeOK, CommitNoop, grantVars, rowVars, recoveryVars, childVars, GrantTypeOK

\* Every operation on a turn preserves the types.
LEMMA TypeOKTurnOperation ==
  ASSUME TypeOK, NEW o \in AllOps, NEW k \in TurnKeys, TurnOperation(o, k)
  PROVE  TypeOK'
  <1> USE DEF Commands
  <1>1. ASSUME NEW p \in Prompts, NEW t \in Tools, QueuePrompt(o, k, p, t)
        PROVE  TypeOK'
    <2>1. CASE CommitNoop(o, "queue_prompt", k)
      BY <2>1, NoopTyped
    <2>2. CASE Commit(o, "queue_prompt", k) /\ ~CommitNoop(o, "queue_prompt", k)
      BY <1>1, <2>2, CommitTyped DEF QueuePrompt, TypeOK, GrantTypeOK, PendingPrompt,
         grantVars, rowVars, recoveryVars
    <2> QED BY <1>1, <2>1, <2>2 DEF QueuePrompt
  <1>2. ASSUME NEW p \in Prompts, NEW t \in Tools \cup {Unstated},
               ReplacePendingPrompt(o, k, p, t)
        PROVE  TypeOK'
    <2>1. pending[k].tools \in Tools
      BY <1>2 DEF ReplacePendingPrompt, TypeOK, PendingPrompt
    <2> QED BY <1>2, <2>1, CommitTyped DEF ReplacePendingPrompt, TypeOK, GrantTypeOK,
            PendingPrompt, grantVars, rowVars, recoveryVars
  <1>3. ASSUME DiscardPendingPrompt(o, k) PROVE TypeOK'
    BY <1>3, CommitTyped DEF DiscardPendingPrompt, TypeOK, GrantTypeOK, grantVars, rowVars, recoveryVars
  <1>4. ASSUME ReleaseTurn(o, k) PROVE TypeOK'
    <2>1. pending[k].tools \in Tools
      BY <1>4 DEF ReleaseTurn, TypeOK, PendingPrompt
    <2> QED BY <1>4, <2>1, CommitTyped DEF ReleaseTurn, NewAttempt, TypeOK, GrantTypeOK, TurnRow,
            IntentRow, IntentPhases, Live, grantVars, rowVars, recoveryVars
  <1>5. ASSUME RequestCancel(o, k) PROVE TypeOK'
    <2>1. CASE CommitNoop(o, "request_cancel", k)
      BY <2>1, NoopTyped
    <2>2. CASE ~CommitNoop(o, "request_cancel", k)
      BY <1>5, <2>2, CommitTyped DEF RequestCancel, TypeOK, GrantTypeOK, TurnRow, Live,
         grantVars, rowVars, recoveryVars
    <2> QED BY <2>1, <2>2
  <1>6. ASSUME NEW cmd \in Commands, NEW s \in Terminal, NEW r \in ResultTexts,
               RecordOutcome(o, cmd, k, s, r)
        PROVE  TypeOK'
    <2>1. CASE CommitNoop(o, cmd, k)
      BY <2>1, NoopTyped
    <2>2. CASE ~CommitNoop(o, cmd, k)
      <3>1. Commit(o, cmd, k)
        BY <1>6, <2>2 DEF RecordOutcome
      <3>2. turns' \in [TurnKeys -> TurnRow]
        BY <1>6, <2>2 DEF RecordOutcome, TypeOK, TurnRow, ResultTexts
      <3>3. intents' \in [TurnKeys -> IntentRow]
        BY <1>6, <2>2 DEF RecordOutcome, TypeOK, IntentRow, IntentPhases
      <3>4. recoveryContext' \in TurnKeys \cup {NoKey}
        BY <1>6, <2>2 DEF RecordOutcome, RetainedContext, TypeOK
      <3> QED BY <1>6, <2>2, <3>1, <3>2, <3>3, <3>4, CommitTyped DEF RecordOutcome, TypeOK,
              GrantTypeOK, grantVars
    <2> QED BY <2>1, <2>2
  <1>7. ASSUME NEW ph \in Acknowledgements, SetIntentPhase(o, k, ph) PROVE TypeOK'
    BY <1>7, CommitTyped DEF SetIntentPhase, Acknowledgements, TypeOK, GrantTypeOK, IntentRow,
       IntentPhases, grantVars, rowVars, recoveryVars
  <1>8. ASSUME NEW ph \in Acknowledgements, RecordDispatchObservation(o, k, ph) PROVE TypeOK'
    BY <1>7, <1>8, NoopTyped DEF RecordDispatchObservation
  <1>9. ASSUME NEW a \in Attempts, NEW g \in 0 .. recoveryGen, NEW out \in ProbeOutcomes,
               NEW r \in ResultTexts, ReconcileSession(o, k, a, g, out, r)
        PROVE  TypeOK'
    <2>1. CASE ReconcileActive(k, out, r)
      <3>1. turns' \in [TurnKeys -> TurnRow]
        <4>1. \A s \in Terminal \cup {"definitively_missing"} : ReconciledStatus(s) \in Terminal
          BY DEF ReconciledStatus, Terminal
        <4> QED BY <2>1, <4>1 DEF ReconcileActive, TypeOK, TurnRow, ResultTexts
      <3>2. intents' \in [TurnKeys -> IntentRow]
        <4>1. \/ intents' = intents
              \/ intents' = [intents EXCEPT ![k].phase = "resolved"]
          BY <2>1 DEF ReconcileActive
        <4> QED BY <4>1 DEF TypeOK, IntentRow, IntentPhases
      <3>3. /\ state' \in {"parked", "running", "archived"}
            /\ visibility' \in {"reachable", "host_lost"}
            /\ activeKey' \in TurnKeys \cup {NoKey}
            /\ recoveryContext' \in TurnKeys \cup {NoKey}
            /\ recoveryGen' \in Nat
            /\ activeRecoveryGen' \in Nat
        BY <2>1 DEF ReconcileActive, CloseEpisode, TypeOK, recoveryVars
      <3> QED BY <1>9, <3>1, <3>2, <3>3, CommitTyped DEF ReconcileSession, TypeOK, GrantTypeOK,
              grantVars
    <2>2. CASE ReconcilePostTerminal(k, out)
      BY <1>9, <2>2, CommitTyped DEF ReconcileSession, ReconcilePostTerminal, CloseEpisode,
         TypeOK, GrantTypeOK, grantVars, rowVars, recoveryVars
    <2> QED BY <1>9, <2>1, <2>2 DEF ReconcileSession
  <1> QED BY <1>1, <1>2, <1>3, <1>4, <1>5, <1>6, <1>7, <1>8, <1>9 DEF TurnOperation,
          RecordTerminalOutcome, RecordObservedExecutionOutcome,
          RecordObservedDispatchAcknowledgement

\* Every operation on the session's own row preserves the types.
LEMMA TypeOKSessionOperation ==
  ASSUME TypeOK, NEW o \in AllOps, SessionOperation(o)
  PROVE  TypeOK'
  <1> USE DEF Commands
  <1> USE CommitTyped, NoopTyped DEF TypeOK, GrantTypeOK, grantVars, rowVars, recoveryVars, childVars
  <1>1. ASSUME RecordHostLoss(o) PROVE TypeOK'
    BY <1>1 DEF RecordHostLoss
  <1>2. ASSUME SetNativeBinding(o) PROVE TypeOK'
    BY <1>2 DEF SetNativeBinding
  <1>3. ASSUME NEW status \in {"connected", "disconnected"}, SetControllerConnection(o, status)
        PROVE  TypeOK'
    BY <1>3 DEF SetControllerConnection
  <1>4. ASSUME ArchiveSession(o) PROVE TypeOK'
    BY <1>4 DEF ArchiveSession
  <1> QED BY <1>1, <1>2, <1>3, <1>4 DEF SessionOperation

\* Every step of the run's grant preserves its types.
LEMMA GrantTyped == GrantTypeOK /\ GrantNext => GrantTypeOK'
  <1> SUFFICES ASSUME GrantTypeOK, GrantNext PROVE GrantTypeOK'
    OBVIOUS
  <1>1. gen' \in Nat
    BY DEF GrantTypeOK, GrantNext, Adopt, Handoff, Install, Revoke, RevokeLegacy, Connect,
       Disconnect
  <1>2. active' \in BOOLEAN /\ connected' \in BOOLEAN /\ legacy' \in BOOLEAN
    BY Zenon DEF GrantTypeOK, GrantNext, Adopt, Handoff, Install, Revoke, RevokeLegacy,
       Connect, Disconnect
  <1> QED BY <1>1, <1>2 DEF GrantTypeOK

\* A grant step with its projection to the session's row preserves the types.
LEMMA ProjectionTyped ==
  ASSUME TypeOK, GrantNext, NEW status \in {"connected", "disconnected"},
         ProjectSessionConnection(status)
  PROVE  TypeOK'
  <1>1. rowVersion' \in Nat
    BY DEF TypeOK, ProjectSessionConnection, Bump
  <1>2. GrantTypeOK'
    BY GrantTyped DEF TypeOK
  <1> QED BY <1>1, <1>2 DEF TypeOK, ProjectSessionConnection, recoveryVars, childVars

\* The run's controller operations preserve the types.
LEMMA TypeOKRunOperation ==
  ASSUME TypeOK, RunOperation
  PROVE  TypeOK'
  <1>1. CASE AdoptController
    <2>1. GrantTypeOK'
      BY <1>1, GrantTyped DEF AdoptController, TypeOK, GrantNext
    <2> QED BY <1>1, <2>1 DEF AdoptController, TypeOK, rowVars, recoveryVars, childVars
  <1>2. CASE HandoffController \/ RevokeController \/ DisconnectRunController
    <2>1. GrantNext /\ ProjectSessionConnection("disconnected")
      BY <1>2 DEF HandoffController, RevokeController, DisconnectRunController, GrantNext
    <2> QED BY <2>1, ProjectionTyped
  <1>3. CASE ConnectRunController
    BY <1>3, ProjectionTyped DEF ConnectRunController, GrantNext
  <1> QED BY <1>1, <1>2, <1>3 DEF RunOperation

\* Every operation of the store keeps every column in its domain.
THEOREM TypeCorrect == Spec => []TypeOK
  <1>1. TypeOK /\ [Next]_vars => TypeOK'
    <2> SUFFICES ASSUME TypeOK, [Next]_vars PROVE TypeOK'
      OBVIOUS
    <2>1. CASE UNCHANGED vars
      BY <2>1 DEF TypeOK, GrantTypeOK, vars, grantVars, rowVars, recoveryVars, childVars
    <2>2. CASE Next
      BY <2>2, TypeOKTurnOperation, TypeOKSessionOperation, TypeOKRunOperation DEF Next
    <2> QED BY <2>1, <2>2
  <1> QED BY TypeOKInit, <1>1, PTL DEF Spec
-----------------------------------------------------------------------------
(* The rows of a session agree: StoreInv is inductive.                     *)

\* No turn appears, disappears or changes its attempt.
TurnsKept ==
  \A j \in TurnKeys :
    /\ turns'[j].attempt = turns[j].attempt
    /\ turns'[j].status = "none" <=> turns[j].status = "none"

\* A new session satisfies the inductive invariant.
LEMMA StoreInvInit == Init => StoreInv
  <1> SUFFICES ASSUME Init PROVE StoreInv
    OBVIOUS
  <1>1. TypeOK
    BY TypeOKInit
  <1>2. ReservationExact
    BY StoreAssumption DEF Init, ReservationExact, NoTurn, Live
  <1>3. RowsAgree
    BY DEF Init, RowsAgree, NoTurn, NoIntent, Terminal
  <1>4. EpisodeWellFormed
    BY DEF Init, EpisodeWellFormed
  <1>5. AttemptsDistinct
    BY DEF Init, AttemptsDistinct, NoTurn
  <1>6. ReceiptsAgree
    BY DEF Init, ReceiptsAgree
  <1> QED BY <1>1, <1>2, <1>3, <1>4, <1>5, <1>6 DEF StoreInv

\* Attempts stay distinct when no turn's attempt or existence changes.
LEMMA KeptAttempts ==
  ASSUME AttemptsDistinct, TurnsKept
  PROVE  AttemptsDistinct'
  BY DEF AttemptsDistinct, TurnsKept

\* A receipt of another operation than a release says nothing of attempts.
LEMMA KeptReceipts ==
  ASSUME TypeOK, ReceiptsAgree, TurnsKept, NEW o \in AllOps,
         NEW cmd \in Commands \ {"release_turn"}, NEW k \in TurnKeys \cup {NoKey},
         NEW ver \in Nat, RecordJournalEntry(o, cmd, k, ver)
  PROVE  ReceiptsAgree'
  <1> SUFFICES ASSUME NEW q \in OpIDs, journal'[q] # NoReceipt, journal'[q].cmd = "release_turn"
               PROVE  /\ journal'[q].key \in TurnKeys
                      /\ turns'[journal'[q].key].status # "none"
                      /\ turns'[journal'[q].key].attempt = journal'[q].ver
    BY DEF ReceiptsAgree
  <1>1. journal'[q] = journal[q]
    <2>1. CASE o = q
      BY <2>1 DEF RecordJournalEntry, TypeOK
    <2>2. CASE o # q
      BY <2>2 DEF RecordJournalEntry, TypeOK
    <2> QED BY <2>1, <2>2
  <1> QED BY <1>1 DEF ReceiptsAgree, TurnsKept

\* A step that leaves reservation, episode and child rows alone.
LEMMA QuietStep ==
  ASSUME StoreInv, rowVersion' \in Nat, rowVersion' >= rowVersion,
         UNCHANGED <<state, lifecycle, activeKey, recoveryVars, pending, turns, intents, declared>>
  PROVE  /\ ReservationExact' /\ RowsAgree' /\ EpisodeWellFormed' /\ AttemptsDistinct'
         /\ TurnsKept
  <1> USE DEF StoreInv
  <1>1. ReservationExact'
    BY DEF ReservationExact
  <1>2. RowsAgree'
    BY DEF RowsAgree, TypeOK
  <1>3. EpisodeWellFormed'
    BY DEF EpisodeWellFormed, recoveryVars
  <1>4. TurnsKept
    BY DEF TurnsKept
  <1> QED BY <1>1, <1>2, <1>3, <1>4, KeptAttempts

\* A journaled no-op preserves the invariant.
LEMMA NoopStep ==
  ASSUME StoreInv, NEW o \in AllOps, NEW cmd \in Commands \ {"release_turn"},
         NEW k \in TurnKeys \cup {NoKey}, CommitNoop(o, cmd, k)
  PROVE  StoreInv'
  <1>1. rowVersion' \in Nat /\ rowVersion' >= rowVersion
    BY DEF CommitNoop, StoreInv, TypeOK
  <1>2. UNCHANGED <<state, lifecycle, activeKey, recoveryVars, pending, turns, intents, declared>>
    BY DEF CommitNoop, rowVars, childVars
  <1>3. TypeOK'
    BY NoopTyped DEF StoreInv
  <1>4. TurnsKept
    BY <1>1, <1>2, QuietStep
  <1>5. ReceiptsAgree'
    BY <1>4, KeptReceipts DEF StoreInv, TypeOK, CommitNoop
  <1> QED BY <1>1, <1>2, <1>3, <1>5, QuietStep DEF StoreInv

\* The journal's part of every effectful operation but the release.
LEMMA CommittedReceipts ==
  ASSUME StoreInv, TurnsKept, NEW o \in AllOps, NEW cmd \in Commands \ {"release_turn"},
         NEW k \in TurnKeys \cup {NoKey}, Commit(o, cmd, k)
  PROVE  ReceiptsAgree' /\ rowVersion' = rowVersion + 1 /\ rowVersion' \in Nat
  <1>1. rowVersion + 1 \in Nat
    BY DEF StoreInv, TypeOK
  <1> QED BY <1>1, KeptReceipts DEF StoreInv, Commit, Bump

\* Queuing a prompt preserves the invariant.
LEMMA QueuePromptStep ==
  ASSUME StoreInv, NEW o \in AllOps, NEW k \in TurnKeys, NEW p \in Prompts, NEW t \in Tools,
         QueuePrompt(o, k, p, t), TypeOK'
  PROVE  StoreInv'
  <1> USE DEF Commands
  <1>1. CASE CommitNoop(o, "queue_prompt", k)
    BY <1>1, NoopStep
  <1>2. CASE ~CommitNoop(o, "queue_prompt", k)
    <2>1. /\ Commit(o, "queue_prompt", k)
          /\ turns[k] = NoTurn
          /\ pending' = [pending EXCEPT ![k] = [prompt |-> p, tools |-> t]]
          /\ declared' = [declared EXCEPT ![k] = t]
          /\ UNCHANGED <<state, lifecycle, activeKey, recoveryVars, turns, intents>>
      BY <1>2 DEF QueuePrompt, rowVars
    <2>2. TurnsKept
      BY <2>1 DEF TurnsKept
    <2>3. ReceiptsAgree' /\ rowVersion' = rowVersion + 1 /\ rowVersion' \in Nat
      BY <2>1, <2>2, CommittedReceipts
    <2>4. RowsAgree'
      BY <2>1, <2>3 DEF StoreInv, RowsAgree, TypeOK, NoTurn, NoIntent
    <2>5. ReservationExact' /\ EpisodeWellFormed'
      BY <2>1 DEF StoreInv, ReservationExact, EpisodeWellFormed, recoveryVars
    <2> QED BY <2>2, <2>3, <2>4, <2>5, KeptAttempts DEF StoreInv
  <1> QED BY <1>1, <1>2

\* Replacing or discarding a queued prompt preserves the invariant.
LEMMA PendingPromptStep ==
  ASSUME StoreInv, NEW o \in AllOps, NEW k \in TurnKeys, TypeOK',
         \/ \E p \in Prompts, t \in Tools \cup {Unstated} : ReplacePendingPrompt(o, k, p, t)
         \/ DiscardPendingPrompt(o, k)
  PROVE  StoreInv'
  <1> USE DEF Commands
  <1>1. /\ Commit(o, "replace_pending_prompt", k) \/ Commit(o, "discard_pending_prompt", k)
        /\ UNCHANGED <<state, lifecycle, activeKey, recoveryVars, turns, intents>>
    BY DEF ReplacePendingPrompt, DiscardPendingPrompt, rowVars
  <1>2. TurnsKept
    BY <1>1 DEF TurnsKept
  <1>3. ReceiptsAgree' /\ rowVersion' = rowVersion + 1 /\ rowVersion' \in Nat
    BY <1>1, <1>2, CommittedReceipts
  <1>4. turns[k].status = "none"
    BY DEF ReplacePendingPrompt, DiscardPendingPrompt, StoreInv, RowsAgree
  <1>5. RowsAgree'
    <2>1. CASE DiscardPendingPrompt(o, k)
      BY <1>1, <1>3, <1>4, <2>1 DEF DiscardPendingPrompt, StoreInv, RowsAgree, TypeOK, NoIntent
    <2>2. ASSUME NEW p \in Prompts, NEW t \in Tools \cup {Unstated},
                 ReplacePendingPrompt(o, k, p, t)
          PROVE  RowsAgree'
      BY <1>1, <1>3, <1>4, <2>2 DEF ReplacePendingPrompt, StoreInv, RowsAgree, TypeOK, NoIntent
    <2> QED BY <2>1, <2>2
  <1>6. ReservationExact' /\ EpisodeWellFormed'
    BY <1>1 DEF StoreInv, ReservationExact, EpisodeWellFormed, recoveryVars
  <1> QED BY <1>2, <1>3, <1>5, <1>6, KeptAttempts DEF StoreInv

\* A release preserves the invariant: its attempt is a version nobody used.
LEMMA ReleaseTurnStep ==
  ASSUME StoreInv, NEW o \in AllOps, NEW k \in TurnKeys, ReleaseTurn(o, k), TypeOK'
  PROVE  StoreInv'
  <1> USE DEF Commands
  <1>0. /\ state = "parked" /\ activeKey = NoKey /\ visibility # "host_lost"
        /\ lifecycle = "active"
        /\ pending[k] # NotQueued
        /\ state' = "running" /\ activeKey' = k
        /\ pending' = [pending EXCEPT ![k] = NotQueued]
        /\ turns' = [turns EXCEPT ![k] = [status |-> "running", result |-> NoResult,
                                          attempt |-> rowVersion + 1]]
        /\ intents' = [intents EXCEPT ![k] = [phase |-> "intent_recorded",
                                              attempt |-> rowVersion + 1, gen |-> gen,
                                              tools |-> pending[k].tools]]
        /\ UNCHANGED <<lifecycle, recoveryVars, declared>>
    BY DEF ReleaseTurn, Releasable, NewAttempt, DecisionAllowed
  <1>1. Commit(o, "release_turn", k)
    BY DEF ReleaseTurn
  <1>2. rowVersion' = rowVersion + 1 /\ rowVersion' \in Nat
    BY <1>1, CommitTyped DEF StoreInv
  <1>3. turns[k].status = "none"
    BY <1>0 DEF StoreInv, RowsAgree
  <1>4. turns \in [TurnKeys -> TurnRow] /\ intents \in [TurnKeys -> IntentRow]
    BY DEF StoreInv, TypeOK
  <1>5. ReservationExact'
    BY <1>0, <1>4, StoreAssumption DEF StoreInv, ReservationExact, TypeOK, Live
  <1>6. RowsAgree'
    <2> SUFFICES ASSUME NEW j \in TurnKeys PROVE RowsAgree!(j)'
      BY DEF RowsAgree
    <2>1. CASE j = k
      BY <1>0, <1>2, <1>3, <1>4, <2>1 DEF StoreInv, RowsAgree, TypeOK, Terminal
    <2>2. CASE j # k
      BY <1>0, <1>2, <1>4, <2>2 DEF StoreInv, RowsAgree, TypeOK
    <2> QED BY <2>1, <2>2
  <1>7. EpisodeWellFormed'
    BY <1>0 DEF StoreInv, EpisodeWellFormed, TypeOK, recoveryVars
  <1>8. AttemptsDistinct'
    <2>1. \A j \in TurnKeys : turns[j].attempt < rowVersion + 1
      BY DEF StoreInv, RowsAgree, TypeOK, NoTurn
    <2> QED BY <1>0, <1>4, <2>1 DEF StoreInv, AttemptsDistinct, TurnRow
  <1>9. ReceiptsAgree'
    <2> SUFFICES ASSUME NEW q \in OpIDs, journal'[q] # NoReceipt, journal'[q].cmd = "release_turn"
                 PROVE  /\ journal'[q].key \in TurnKeys
                        /\ turns'[journal'[q].key].status # "none"
                        /\ turns'[journal'[q].key].attempt = journal'[q].ver
      BY DEF ReceiptsAgree
    <2>1. CASE q = o
      <3>1. journal'[q] = [cmd |-> "release_turn", key |-> k, ver |-> rowVersion + 1]
        BY <1>1, <2>1 DEF Commit, RecordJournalEntry, StoreInv, TypeOK
      <3> QED BY <1>0, <1>4, <3>1
    <2>2. CASE q # o
      <3>1. journal'[q] = journal[q]
        BY <1>1, <2>2 DEF Commit, RecordJournalEntry, StoreInv, TypeOK
      <3>2. journal[q].key \in TurnKeys /\ journal[q].key # k
        BY <1>3, <3>1 DEF StoreInv, ReceiptsAgree
      <3> QED BY <1>0, <1>4, <3>1, <3>2 DEF StoreInv, ReceiptsAgree
    <2> QED BY <2>1, <2>2
  <1> QED BY <1>5, <1>6, <1>7, <1>8, <1>9 DEF StoreInv

\* A cancel request preserves the invariant.
LEMMA RequestCancelStep ==
  ASSUME StoreInv, NEW o \in AllOps, NEW k \in TurnKeys, RequestCancel(o, k), TypeOK'
  PROVE  StoreInv'
  <1> USE DEF Commands
  <1>1. CASE CommitNoop(o, "request_cancel", k)
    BY <1>1, NoopStep
  <1>2. CASE ~CommitNoop(o, "request_cancel", k)
    <2>1. /\ Commit(o, "request_cancel", k)
          /\ turns[k].status = "running"
          /\ turns' = [turns EXCEPT ![k].status = "cancelling"]
          /\ UNCHANGED <<state, lifecycle, activeKey, recoveryVars, pending, intents, declared>>
      BY <1>2 DEF RequestCancel, rowVars
    <2>2. turns \in [TurnKeys -> TurnRow]
      BY DEF StoreInv, TypeOK
    <2>3. TurnsKept
      BY <2>1, <2>2 DEF TurnsKept, TurnRow
    <2>4. ReceiptsAgree' /\ rowVersion' = rowVersion + 1 /\ rowVersion' \in Nat
      BY <2>1, <2>3, CommittedReceipts
    <2>5. ReservationExact'
      BY <2>1, <2>2 DEF StoreInv, ReservationExact, TurnRow, Live
    <2>6. RowsAgree'
      BY <2>1, <2>2, <2>4 DEF StoreInv, RowsAgree, TypeOK, TurnRow, Terminal
    <2>7. EpisodeWellFormed'
      BY <2>1, <2>2 DEF StoreInv, EpisodeWellFormed, TurnRow, recoveryVars
    <2> QED BY <2>3, <2>4, <2>5, <2>6, <2>7, KeptAttempts DEF StoreInv
  <1> QED BY <1>1, <1>2

\* The write that concludes the reserved turn and parks the session.
LEMMA ConcludeRows ==
  ASSUME StoreInv, NEW k \in TurnKeys, NEW s \in Terminal, NEW r,
         activeKey = k, rowVersion' = rowVersion + 1,
         turns' = [turns EXCEPT ![k].status = s, ![k].result = r],
         intents' = [intents EXCEPT ![k].phase = "resolved"],
         activeKey' = NoKey, state' = "parked",
         UNCHANGED <<lifecycle, pending, declared>>
  PROVE  ReservationExact' /\ RowsAgree' /\ TurnsKept
  <1>1. turns \in [TurnKeys -> TurnRow] /\ intents \in [TurnKeys -> IntentRow]
    BY DEF StoreInv, TypeOK
  <1>2. turns[k].status \in Live
    BY DEF StoreInv, ReservationExact
  <1>3. TurnsKept
    BY <1>1, <1>2 DEF TurnsKept, TurnRow, Live, Terminal
  <1>4. ReservationExact'
    BY <1>1, StoreAssumption DEF StoreInv, ReservationExact, TurnRow, Live, Terminal
  <1>5. RowsAgree'
    <2> SUFFICES ASSUME NEW j \in TurnKeys PROVE RowsAgree!(j)'
      BY DEF RowsAgree
    <2>1. CASE j = k
      BY <1>1, <1>2, <2>1 DEF StoreInv, RowsAgree, TypeOK, TurnRow, IntentRow, Terminal, Live
    <2>2. CASE j # k
      BY <1>1, <2>2 DEF StoreInv, RowsAgree, TypeOK
    <2> QED BY <2>1, <2>2
  <1> QED BY <1>3, <1>4, <1>5

\* Recording an outcome, on either path, preserves the invariant.
LEMMA RecordOutcomeStep ==
  ASSUME StoreInv, NEW o \in AllOps, NEW k \in TurnKeys, NEW cmd \in Commands \ {"release_turn"},
         NEW s \in Terminal, NEW r \in ResultTexts, RecordOutcome(o, cmd, k, s, r), TypeOK'
  PROVE  StoreInv'
  <1>1. CASE CommitNoop(o, cmd, k)
    BY <1>1, NoopStep
  <1>2. CASE ~CommitNoop(o, cmd, k)
    <2>1. /\ turns[k] # NoTurn /\ turns[k].status \notin Terminal
          /\ MatchesReservation(k)
          /\ Commit(o, cmd, k)
          /\ turns' = [turns EXCEPT ![k].status = s, ![k].result = r]
          /\ intents' = [intents EXCEPT ![k].phase = "resolved"]
          /\ activeKey' = NoKey /\ state' = "parked"
          /\ recoveryContext' = RetainedContext(k)
          /\ UNCHANGED <<lifecycle, visibility, recoveryGen, activeRecoveryGen, pending, declared>>
      BY <1>2 DEF RecordOutcome, Undecided
    <2>2. turns[k].status \in Live
      BY <2>1 DEF StoreInv, RowsAgree, TypeOK, TurnRow
    <2>3. activeKey = k
      BY <2>2 DEF StoreInv, ReservationExact
    <2>4. rowVersion' = rowVersion + 1
      BY <2>1 DEF Commit, Bump
    <2>5. ReservationExact' /\ RowsAgree' /\ TurnsKept
      BY <2>1, <2>3, <2>4, ConcludeRows
    <2>6. ReceiptsAgree'
      BY <2>1, <2>5, CommittedReceipts
    <2>7. EpisodeWellFormed'
      BY <2>1, <2>2, <2>3, <2>5 DEF StoreInv, EpisodeWellFormed, RetainedContext, TurnsKept, TypeOK, Live
    <2> QED BY <2>5, <2>6, <2>7, KeptAttempts DEF StoreInv
  <1> QED BY <1>1, <1>2

\* A dispatch acknowledgement preserves the invariant.
LEMMA SetIntentPhaseStep ==
  ASSUME StoreInv, NEW o \in AllOps, NEW k \in TurnKeys, NEW ph \in Acknowledgements,
         intents[k].phase \notin {"none", "resolved"}, SetIntentPhase(o, k, ph), TypeOK'
  PROVE  StoreInv'
  <1> USE DEF Commands
  <1>1. /\ Commit(o, "record_dispatch_observation", k)
        /\ intents' = [intents EXCEPT ![k].phase = ph]
        /\ UNCHANGED <<state, lifecycle, activeKey, recoveryVars, pending, turns, declared>>
    BY DEF SetIntentPhase, rowVars
  <1>2. TurnsKept
    BY <1>1 DEF TurnsKept
  <1>3. ReceiptsAgree' /\ rowVersion' = rowVersion + 1 /\ rowVersion' \in Nat
    BY <1>1, <1>2, CommittedReceipts
  <1>4. RowsAgree'
    <2>1. intents \in [TurnKeys -> IntentRow]
      BY DEF StoreInv, TypeOK
    <2> QED BY <1>1, <1>3, <2>1 DEF StoreInv, RowsAgree, TypeOK, IntentRow, NoIntent, Acknowledgements
  <1>5. ReservationExact' /\ EpisodeWellFormed'
    BY <1>1 DEF StoreInv, ReservationExact, EpisodeWellFormed, recoveryVars
  <1> QED BY <1>2, <1>3, <1>4, <1>5, KeptAttempts DEF StoreInv

\* A reconciliation with any probe answer preserves the invariant.
LEMMA ReconcileSessionStep ==
  ASSUME StoreInv, NEW o \in AllOps, NEW k \in TurnKeys, NEW a \in Attempts,
         NEW g \in 0 .. recoveryGen, NEW out \in ProbeOutcomes, NEW r \in ResultTexts,
         ReconcileSession(o, k, a, g, out, r), TypeOK'
  PROVE  StoreInv'
  <1> USE DEF Commands
  <1>1. /\ Commit(o, "reconcile_session", k)
        /\ visibility = "host_lost"
        /\ UNCHANGED <<lifecycle, pending, declared>>
    BY DEF ReconcileSession
  <1>2. rowVersion' = rowVersion + 1 /\ rowVersion' \in Nat
    BY <1>1, CommitTyped DEF StoreInv
  <1>3. EpisodeWellFormed' /\ TurnsKept /\ ReservationExact' /\ RowsAgree'
    <2>1. CASE /\ activeKey = k
               /\ out \in Terminal \cup {"definitively_missing"}
               /\ turns' = [turns EXCEPT ![k].status = ReconciledStatus(out), ![k].result = r]
               /\ intents' = [intents EXCEPT ![k].phase = "resolved"]
               /\ activeKey' = NoKey
               /\ state' = "parked"
               /\ CloseEpisode
      <3>1. ReconciledStatus(out) \in Terminal
        BY <2>1 DEF ReconciledStatus, Terminal
      <3>2. TurnsKept /\ ReservationExact' /\ RowsAgree'
        BY <1>1, <1>2, <2>1, <3>1, ConcludeRows
      <3>3. EpisodeWellFormed'
        BY <2>1 DEF CloseEpisode, EpisodeWellFormed
      <3> QED BY <3>2, <3>3
    <2>2. CASE CloseEpisode /\ UNCHANGED <<state, activeKey, turns, intents>>
      <3>1. TurnsKept
        BY <2>2 DEF TurnsKept
      <3>2. ReservationExact' /\ RowsAgree'
        BY <1>1, <1>2, <2>2 DEF StoreInv, ReservationExact, RowsAgree, TypeOK
      <3>3. EpisodeWellFormed'
        BY <2>2 DEF CloseEpisode, EpisodeWellFormed
      <3> QED BY <3>1, <3>2, <3>3
    <2>3. CASE UNCHANGED <<recoveryVars, state, activeKey, turns, intents>>
      BY <1>1, <1>2, <2>3, QuietStep DEF StoreInv, TypeOK
    <2> QED BY <2>1, <2>2, <2>3 DEF ReconcileSession, ReconcileActive, ReconcilePostTerminal
  <1> QED BY <1>1, <1>3, CommittedReceipts, KeptAttempts DEF StoreInv

\* Opening a recovery episode preserves the invariant.
LEMMA RecordHostLossStep ==
  ASSUME StoreInv, NEW o \in AllOps, RecordHostLoss(o), TypeOK'
  PROVE  StoreInv'
  <1> USE DEF Commands
  <1>1. activeKey \in TurnKeys \cup {NoKey}
    BY DEF StoreInv, TypeOK
  <1>2. CASE CommitNoop(o, "record_host_loss", activeKey)
    BY <1>1, <1>2, NoopStep
  <1>3. CASE ~CommitNoop(o, "record_host_loss", activeKey)
    <2>1. /\ Commit(o, "record_host_loss", activeKey)
          /\ lifecycle = "active" /\ activeKey # NoKey
          /\ visibility' = "host_lost"
          /\ recoveryGen' = recoveryGen + 1
          /\ activeRecoveryGen' = recoveryGen + 1
          /\ recoveryContext' = activeKey
          /\ UNCHANGED <<state, lifecycle, activeKey, pending, turns, intents, declared>>
      BY <1>3 DEF RecordHostLoss, childVars
    <2>2. TurnsKept
      BY <2>1 DEF TurnsKept
    <2>3. ReceiptsAgree' /\ rowVersion' = rowVersion + 1 /\ rowVersion' \in Nat
      BY <1>1, <2>1, <2>2, CommittedReceipts
    <2>4. ReservationExact' /\ RowsAgree'
      BY <2>1, <2>3 DEF StoreInv, ReservationExact, RowsAgree, TypeOK
    <2>5. EpisodeWellFormed'
      BY <2>1 DEF StoreInv, EpisodeWellFormed, ReservationExact, TypeOK, Live
    <2> QED BY <2>2, <2>3, <2>4, <2>5, KeptAttempts DEF StoreInv
  <1> QED BY <1>2, <1>3

\* Binding, connection and archiving preserve the invariant.
LEMMA AdministrationStep ==
  ASSUME StoreInv, NEW o \in AllOps, TypeOK',
         \/ SetNativeBinding(o)
         \/ \E status \in {"connected", "disconnected"} : SetControllerConnection(o, status)
         \/ ArchiveSession(o)
  PROVE  StoreInv'
  <1> USE DEF Commands
  <1>1. CASE \E cmd \in {"set_controller_connection", "archive_session"} : CommitNoop(o, cmd, NoKey)
    BY <1>1, NoopStep
  <1>2. CASE /\ \E cmd \in {"set_native_binding", "set_controller_connection"} : Commit(o, cmd, NoKey)
             /\ UNCHANGED <<state, lifecycle, activeKey, recoveryVars, pending, turns, intents, declared>>
    <2>1. rowVersion' = rowVersion + 1 /\ rowVersion' \in Nat
      BY <1>2, CommitTyped DEF StoreInv
    <2>2. /\ ReservationExact' /\ RowsAgree' /\ EpisodeWellFormed' /\ AttemptsDistinct'
          /\ TurnsKept
      BY <1>2, <2>1, QuietStep DEF StoreInv, TypeOK
    <2> QED BY <1>2, <2>2, CommittedReceipts DEF StoreInv
  <1>3. CASE /\ Commit(o, "archive_session", NoKey)
             /\ Archivable
             /\ lifecycle' = "archived" /\ state' = "archived"
             /\ UNCHANGED <<activeKey, recoveryVars, pending, turns, intents, declared>>
    <2>1. TurnsKept
      BY <1>3 DEF TurnsKept
    <2>2. ReceiptsAgree' /\ rowVersion' = rowVersion + 1 /\ rowVersion' \in Nat
      BY <1>3, <2>1, CommittedReceipts
    <2>3. ReservationExact' /\ RowsAgree' /\ EpisodeWellFormed'
      BY <1>3, <2>2 DEF StoreInv, Archivable, ReservationExact, RowsAgree, EpisodeWellFormed,
         TypeOK, recoveryVars
    <2> QED BY <2>1, <2>2, <2>3, KeptAttempts DEF StoreInv
  <1> QED BY <1>1, <1>2, <1>3 DEF SetNativeBinding, SetControllerConnection, ArchiveSession,
          rowVars, childVars

\* The run's controller operations preserve the invariant.
LEMMA RunOperationStep ==
  ASSUME StoreInv, RunOperation, TypeOK'
  PROVE  StoreInv'
  <1>1. rowVersion' >= rowVersion
    BY DEF RunOperation, AdoptController, HandoffController, RevokeController,
       ConnectRunController, DisconnectRunController, ProjectSessionConnection, Bump, StoreInv, TypeOK
  <1>2. UNCHANGED <<state, lifecycle, activeKey, recoveryVars, pending, turns, intents, declared, journal>>
    BY DEF RunOperation, AdoptController, HandoffController, RevokeController,
       ConnectRunController, DisconnectRunController, ProjectSessionConnection, rowVars, childVars
  <1>3. ReservationExact' /\ RowsAgree' /\ EpisodeWellFormed' /\ AttemptsDistinct'
    BY <1>1, <1>2, QuietStep DEF TypeOK
  <1>4. ReceiptsAgree'
    BY <1>2 DEF StoreInv, ReceiptsAgree
  <1> QED BY <1>3, <1>4 DEF StoreInv

\* Every operation of the store preserves the invariant.
LEMMA StoreInvNext ==
  ASSUME StoreInv, Next
  PROVE  StoreInv'
  <1>1. TypeOK'
    BY TypeOKTurnOperation, TypeOKSessionOperation, TypeOKRunOperation DEF Next, StoreInv
  <1>2. ASSUME NEW o \in AllOps, NEW k \in TurnKeys, TurnOperation(o, k) PROVE StoreInv'
    <2>1. ASSUME intents[k] # NoIntent PROVE intents[k].phase # "none"
      BY <2>1 DEF StoreInv, RowsAgree
    <2>2. CASE \E a \in Attempts, ph \in Acknowledgements :
                 RecordObservedDispatchAcknowledgement(o, k, a, ph)
      BY <1>1, <2>1, <2>2, SetIntentPhaseStep DEF RecordObservedDispatchAcknowledgement, ResolveExecutionRef
    <2>3. CASE \E ph \in Acknowledgements : RecordDispatchObservation(o, k, ph)
      BY <1>1, <2>1, <2>3, SetIntentPhaseStep, NoopStep DEF RecordDispatchObservation, Commands
    <2>4. CASE \/ \E s \in Terminal, r \in ResultTexts : RecordTerminalOutcome(o, k, s, r)
               \/ \E a \in Attempts, s \in Terminal, r \in ResultTexts :
                    RecordObservedExecutionOutcome(o, k, a, s, r)
      BY <1>1, <2>4, RecordOutcomeStep DEF RecordTerminalOutcome, RecordObservedExecutionOutcome, Commands
    <2> QED BY <1>1, <1>2, <2>2, <2>3, <2>4, QueuePromptStep, PendingPromptStep, ReleaseTurnStep,
            RequestCancelStep, ReconcileSessionStep DEF TurnOperation
  <1>3. ASSUME NEW o \in AllOps, SessionOperation(o) PROVE StoreInv'
    BY <1>1, <1>3, RecordHostLossStep, AdministrationStep DEF SessionOperation
  <1> QED BY <1>1, <1>2, <1>3, RunOperationStep DEF Next

\* Whatever operations are committed, in whatever order, the rows of a session
\* agree with each other.
THEOREM RowsAlwaysAgree == Spec => []StoreInv
  <1>1. StoreInv /\ UNCHANGED vars => StoreInv'
    BY DEF StoreInv, TypeOK, GrantTypeOK, ReservationExact, RowsAgree, EpisodeWellFormed,
       AttemptsDistinct, ReceiptsAgree, vars, grantVars, rowVars, recoveryVars, childVars
  <1>2. StoreInv /\ [Next]_vars => StoreInv'
    BY <1>1, StoreInvNext
  <1> QED BY StoreInvInit, <1>2, PTL DEF Spec
-----------------------------------------------------------------------------
(* What follows from it.                                                   *)

\* A restart never finds a session it has to refuse.
THEOREM RestartAccepts == Spec => []HydrateConsistent
  <1>1. StoreInv => HydrateConsistent
    <2> SUFFICES ASSUME StoreInv PROVE HydrateConsistent
      OBVIOUS
    <2>1. ASSUME state = "running"
          PROVE  /\ activeKey \in TurnKeys
                 /\ turns[activeKey].status \in Live
                 /\ intents[activeKey].phase \notin {"none", "resolved"}
      <3>1. activeKey \in TurnKeys /\ turns[activeKey].status \in Live
        BY <2>1 DEF StoreInv, ReservationExact, TypeOK
      <3> QED BY <3>1 DEF StoreInv, RowsAgree, Live, Terminal
    <2>2. state # "running" => activeKey = NoKey
      BY DEF StoreInv, ReservationExact
    <2>3. ASSUME state = "parked", NEW k \in TurnKeys PROVE turns[k].status \notin Live
      BY <2>2, <2>3, StoreAssumption DEF StoreInv, ReservationExact
    <2> QED BY <2>1, <2>2, <2>3 DEF HydrateConsistent
  <1> QED BY RowsAlwaysAgree, <1>1, PTL

\* A session that lost its host can always be reconciled.
THEOREM LossIsRecoverable == Spec => []HostLossRecoverable
  <1>1. StoreInv => HostLossRecoverable
    <2> SUFFICES ASSUME StoreInv, visibility = "host_lost" PROVE HostLossRecoverable
      BY DEF HostLossRecoverable
    <2>1. intents[recoveryContext] # NoIntent
      BY DEF StoreInv, EpisodeWellFormed, RowsAgree, NoIntent
    <2> QED BY <2>1 DEF StoreInv, EpisodeWellFormed, HostLossRecoverable
  <1> QED BY RowsAlwaysAgree, <1>1, PTL

\* An execution reference identifies one execution.
THEOREM ReferencesIdentify == Spec => []AttemptsNameExecutions
  <1>1. StoreInv => AttemptsNameExecutions
    BY DEF StoreInv, AttemptsNameExecutions, RowsAgree, AttemptsDistinct, ReceiptsAgree, NoTurn
  <1> QED BY RowsAlwaysAgree, <1>1, PTL

\* An execution runs with the tools its prompt was queued with.
THEOREM ToolsKept == Spec => []ToolsAsQueued
  <1>1. StoreInv => ToolsAsQueued
    BY DEF StoreInv, ToolsAsQueued, RowsAgree
  <1> QED BY RowsAlwaysAgree, <1>1, PTL

\* A concluded turn is never touched again.
THEOREM OutcomesAreFinal == Spec => TerminalIsFinal
  <1>1. ASSUME StoreInv, Next, NEW j \in TurnKeys, turns[j].status \in Terminal
        PROVE  turns'[j] = turns[j] /\ intents'[j] = intents[j]
    <2>1. activeKey # j /\ intents[j].phase = "resolved" /\ turns[j].status # "none"
      BY <1>1 DEF StoreInv, ReservationExact, RowsAgree, Live, Terminal
    <2>2. turns \in [TurnKeys -> TurnRow] /\ intents \in [TurnKeys -> IntentRow]
      BY <1>1 DEF StoreInv, TypeOK
    <2>3. ASSUME NEW o \in AllOps, NEW k \in TurnKeys, TurnOperation(o, k)
          PROVE  turns'[j] = turns[j] /\ intents'[j] = intents[j]
      <3>1. CASE turns' = turns /\ intents' = intents
        BY <3>1
      <3>2. CASE ReleaseTurn(o, k)
        <4>1. j # k
          BY <1>1, <2>1, <3>2 DEF ReleaseTurn, StoreInv, RowsAgree
        <4> QED BY <2>2, <3>2, <4>1 DEF ReleaseTurn
      <3>3. CASE RequestCancel(o, k)
        BY <2>1, <2>2, <3>3 DEF RequestCancel, CommitNoop, childVars
      <3>4. ASSUME NEW cmd, NEW s, NEW r, RecordOutcome(o, cmd, k, s, r)
            PROVE  turns'[j] = turns[j] /\ intents'[j] = intents[j]
        <4>1. CASE CommitNoop(o, cmd, k)
          BY <4>1 DEF CommitNoop, childVars
        <4>2. CASE ~CommitNoop(o, cmd, k)
          <5>1. j # k
            BY <1>1, <3>4, <4>2 DEF RecordOutcome, Undecided
          <5> QED BY <2>2, <3>4, <4>2, <5>1 DEF RecordOutcome
        <4> QED BY <4>1, <4>2
      <3>5. ASSUME NEW ph, intents[k].phase # "resolved", SetIntentPhase(o, k, ph)
            PROVE  turns'[j] = turns[j] /\ intents'[j] = intents[j]
        BY <2>1, <2>2, <3>5 DEF SetIntentPhase
      <3>6. ASSUME NEW a, NEW g, NEW out, NEW r, ReconcileSession(o, k, a, g, out, r)
            PROVE  turns'[j] = turns[j] /\ intents'[j] = intents[j]
        BY <2>1, <2>2, <3>6 DEF ReconcileSession, ReconcileActive, ReconcilePostTerminal
      <3>7. CASE \/ \E p \in Prompts, t \in Tools : QueuePrompt(o, k, p, t)
                 \/ \E p \in Prompts, t \in Tools \cup {Unstated} : ReplacePendingPrompt(o, k, p, t)
                 \/ DiscardPendingPrompt(o, k)
        BY <3>1, <3>7 DEF QueuePrompt, ReplacePendingPrompt, DiscardPendingPrompt, CommitNoop, childVars
      <3>8. ASSUME NEW ph \in Acknowledgements, RecordDispatchObservation(o, k, ph)
            PROVE  turns'[j] = turns[j] /\ intents'[j] = intents[j]
        BY <3>1, <3>5, <3>8 DEF RecordDispatchObservation, CommitNoop, childVars
      <3> QED BY <2>3, <3>2, <3>3, <3>4, <3>5, <3>6, <3>7, <3>8 DEF TurnOperation,
              RecordTerminalOutcome, RecordObservedExecutionOutcome,
              RecordObservedDispatchAcknowledgement
    <2>4. ASSUME NEW o \in AllOps, SessionOperation(o)
          PROVE  turns' = turns /\ intents' = intents
      BY <2>4 DEF SessionOperation, RecordHostLoss, SetNativeBinding, SetControllerConnection,
         ArchiveSession, CommitNoop, childVars
    <2>5. ASSUME RunOperation
          PROVE  turns' = turns /\ intents' = intents
      BY <2>5 DEF RunOperation, AdoptController, HandoffController, RevokeController,
         ConnectRunController, DisconnectRunController, ProjectSessionConnection, childVars
    <2> QED BY <1>1, <2>3, <2>4, <2>5 DEF Next
  <1>2. StoreInv /\ [Next]_vars =>
          [\A k \in TurnKeys :
             turns[k].status \in Terminal =>
               turns'[k] = turns[k] /\ intents'[k] = intents[k]]_vars
    BY <1>1
  <1> QED BY RowsAlwaysAgree, <1>2, PTL DEF Spec, TerminalIsFinal
\* A committed version is larger than the one it was decided on.
LEMMA CommitMoves ==
  ASSUME TypeOK, NEW o, NEW cmd, NEW k, Commit(o, cmd, k)
  PROVE  rowVersion' > rowVersion
  BY DEF Commit, Bump, TypeOK

\* Every step either commits a new version or leaves the rows alone.
LEMMA NextMoves ==
  ASSUME TypeOK, Next
  PROVE  \/ rowVersion' > rowVersion
         \/ UNCHANGED <<rowVersion, rowVars, childVars>>
  <1>1. ASSUME NEW o \in AllOps, NEW k \in TurnKeys, TurnOperation(o, k)
        PROVE  (\E cmd : Commit(o, cmd, k)) \/ (\E cmd : CommitNoop(o, cmd, k))
    BY <1>1 DEF TurnOperation, QueuePrompt, ReplacePendingPrompt, DiscardPendingPrompt, ReleaseTurn,
       RequestCancel, RecordTerminalOutcome, RecordObservedExecutionOutcome, RecordOutcome,
       RecordObservedDispatchAcknowledgement, RecordDispatchObservation, SetIntentPhase,
       ReconcileSession
  <1>2. ASSUME NEW o \in AllOps, SessionOperation(o)
        PROVE  (\E cmd, k : Commit(o, cmd, k)) \/ (\E cmd, k : CommitNoop(o, cmd, k))
    BY <1>2 DEF SessionOperation, RecordHostLoss, SetNativeBinding, SetControllerConnection,
       ArchiveSession
  <1>3. ASSUME NEW status, ProjectSessionConnection(status)
        PROVE  rowVersion' > rowVersion \/ UNCHANGED <<rowVersion, rowVars, childVars>>
    BY <1>3 DEF ProjectSessionConnection, Bump, TypeOK, rowVars, recoveryVars, childVars
  <1>4. ASSUME RunOperation
        PROVE  rowVersion' > rowVersion \/ UNCHANGED <<rowVersion, rowVars, childVars>>
    BY <1>3, <1>4 DEF RunOperation, AdoptController, HandoffController, RevokeController,
       ConnectRunController, DisconnectRunController
  <1>5. ASSUME NEW o, NEW cmd, NEW k, CommitNoop(o, cmd, k)
        PROVE  UNCHANGED <<rowVersion, rowVars, childVars>>
    BY <1>5 DEF CommitNoop
  <1> QED BY <1>1, <1>2, <1>4, <1>5, CommitMoves DEF Next

\* No change of the session's rows escapes a compare-and-set on its version.
THEOREM VersionsAreSound == Spec => EveryChangeMovesVersion
  <1>1. TypeOK /\ [Next]_vars =>
          [/\ rowVersion' >= rowVersion
           /\ <<rowVars, childVars>>' # <<rowVars, childVars>> => rowVersion' > rowVersion]_vars
    <2> SUFFICES ASSUME TypeOK, Next
                 PROVE  /\ rowVersion' >= rowVersion
                        /\ <<rowVars, childVars>>' # <<rowVars, childVars>> =>
                             rowVersion' > rowVersion
      OBVIOUS
    <2>1. rowVersion' \in Nat /\ rowVersion \in Nat
      BY TypeOKTurnOperation, TypeOKSessionOperation, TypeOKRunOperation DEF Next, TypeOK
    <2> QED BY <2>1, NextMoves
  <1> QED BY TypeCorrect, <1>1, PTL DEF Spec, EveryChangeMovesVersion

\* An archived session keeps its rows for ever.
THEOREM ArchivesAreFrozen == Spec => ArchivedFrozen
  <1>1. ASSUME StoreInv, Next, lifecycle = "archived"
        PROVE  UNCHANGED <<state, lifecycle, activeKey, recoveryVars, childVars>>
    <2>1. /\ activeKey = NoKey /\ visibility # "host_lost"
          /\ \A k \in TurnKeys : intents[k].phase # "none" => intents[k].phase = "resolved"
      <3>1. activeKey = NoKey /\ visibility # "host_lost"
        BY <1>1 DEF StoreInv, ReservationExact, EpisodeWellFormed, TypeOK
      <3>2. \A k \in TurnKeys : turns[k].status \notin Live
        BY <1>1, <3>1, StoreAssumption DEF StoreInv, ReservationExact
      <3> QED BY <1>1, <3>1, <3>2 DEF StoreInv, RowsAgree, TypeOK, TurnRow, NoIntent
    <2>2. ASSUME NEW o \in AllOps, NEW k \in TurnKeys, TurnOperation(o, k)
          PROVE  \E cmd : CommitNoop(o, cmd, k)
      <3>1. lifecycle # "active"
        BY <1>1
      <3>2. ASSUME intents[k] # NoIntent PROVE intents[k].phase = "resolved"
        BY <1>1, <2>1, <3>2 DEF StoreInv, RowsAgree
      <3> QED BY <2>1, <2>2, <3>1, <3>2 DEF TurnOperation, DecisionAllowed, QueuePrompt, ReplacePendingPrompt,
              DiscardPendingPrompt, ReleaseTurn, RequestCancel, RecordTerminalOutcome,
              RecordObservedExecutionOutcome, RecordOutcome, ResolveExecutionRef,
              RecordObservedDispatchAcknowledgement, RecordDispatchObservation, ReconcileSession
    <2>3. ASSUME NEW o \in AllOps, SessionOperation(o)
          PROVE  \E cmd, k : CommitNoop(o, cmd, k)
      BY <1>1, <2>1, <2>3 DEF SessionOperation, RecordHostLoss, SetNativeBinding,
         SetControllerConnection, ArchiveSession
    <2>4. ASSUME RunOperation
          PROVE  UNCHANGED <<state, lifecycle, activeKey, recoveryVars, childVars>>
      BY <2>4 DEF RunOperation, AdoptController, HandoffController, RevokeController,
         ConnectRunController, DisconnectRunController, ProjectSessionConnection, rowVars
    <2> QED BY <1>1, <2>2, <2>3, <2>4 DEF Next, CommitNoop, rowVars
  <1>2. StoreInv /\ [Next]_vars =>
          [lifecycle = "archived" =>
             UNCHANGED <<state, lifecycle, activeKey, recoveryVars, childVars>>]_vars
    BY <1>1
  <1> QED BY RowsAlwaysAgree, <1>2, PTL DEF Spec, ArchivedFrozen
=============================================================================
