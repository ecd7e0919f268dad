---------------------------- MODULE CouncilProofs ----------------------------
(***************************************************************************)
(* The council's domain objects for every set of turns, prompts, results,  *)
(* executions, contents and operations: the session kernel keeps a lost    *)
(* session recoverable and implements the turn lifecycle; the artifact     *)
(* records and sealed proposal sets hold.                                  *)
(***************************************************************************)
EXTENDS MCCouncil, FiniteSetTheorems, SequenceTheorems, TLAPS

-----------------------------------------------------------------------------
(* The session kernel: its inductive invariant.                            *)

\* Exactly the active turn is live, and a session has one exactly while it runs;
\* both archive flags agree; a prompt is pending only for a turn never released.
TurnsAgree ==
  /\ active # NoKey <=> state = "running"
  /\ \A k \in TurnKeys : turns[k].status \in Live <=> active = k
  /\ lifecycle = "archived" <=> state = "archived"
  /\ \A k \in TurnKeys : pending[k] # NoPrompt => turns[k] = NoTurn

SessionInv == TypeOK /\ TurnsAgree /\ EpisodeNamesTurn

\* A record of a turn, taken apart.
LEMMA RecordIs ==
  ASSUME NEW x
  PROVE  /\ x \in TurnRecord => x.prompt \in Prompts /\ x.status \in Live \cup Terminal /\ x.result \in ResultTexts
         /\ x = NoTurn => x.status = "none" /\ x.prompt = NoPrompt /\ x.result = NoResult
         /\ x \in TurnRecord => x # NoTurn
         /\ "none" \notin Live \cup Terminal
  BY KernelAssumption DEF TurnRecord, NoTurn, Live, Terminal

\* NewSession.
LEMMA SessionInvInit == Init => SessionInv
  <1> SUFFICES ASSUME Init PROVE SessionInv
    OBVIOUS
  <1>1. TypeOK
    BY KernelAssumption DEF Init, TypeOK
  <1>2. TurnsAgree
    BY KernelAssumption DEF Init, TurnsAgree, NoTurn, Live
  <1> QED BY <1>1, <1>2 DEF SessionInv, EpisodeNamesTurn, Init

\* The active turn's record, and what becomes of it when it is concluded.
LEMMA ActiveTurn ==
  ASSUME SessionInv, NEW k \in TurnKeys, active = k
  PROVE  turns[k] \in TurnRecord /\ turns[k].status \in Live /\ state = "running" /\ lifecycle = "active"
  <1>1. turns[k].status \in Live /\ state = "running"
    BY KernelAssumption DEF SessionInv, TurnsAgree
  <1>2. turns[k] \in TurnRecord
    BY <1>1, RecordIs DEF SessionInv, TypeOK
  <1> QED BY <1>1, <1>2 DEF SessionInv, TurnsAgree, TypeOK

\* Concluding the active turn.
LEMMA ParkKeeps ==
  ASSUME SessionInv, NEW k \in TurnKeys, active = k,
         NEW s \in Terminal, NEW r \in ResultTexts, Park(k, s, r),
         UNCHANGED recoveryVars \/ CloseEpisode
  PROVE  SessionInv'
  <1>1. turns[k] \in TurnRecord /\ lifecycle = "active"
    BY ActiveTurn
  <1>2. /\ turns' = [turns EXCEPT ![k] = [turns[k] EXCEPT !.status = s, !.result = r]]
        /\ active' = NoKey /\ state' = "parked"
        /\ UNCHANGED <<lifecycle, controllerStatus, pending>>
    BY DEF Park, SessionInv, TypeOK
  <1> DEFINE x == [turns[k] EXCEPT !.status = s, !.result = r]
  <1>3. x \in TurnRecord /\ x.status = s
    BY <1>1 DEF TurnRecord
  <1>4. turns' \in [TurnKeys -> TurnRecord \cup {NoTurn}]
    BY <1>2, <1>3 DEF SessionInv, TypeOK
  <1>5. /\ turns'[k] = x /\ turns'[k] # NoTurn
        /\ \A j \in TurnKeys \ {k} : turns'[j] = turns[j]
    BY <1>2, <1>3, RecordIs DEF SessionInv, TypeOK
  <1>6. /\ visibility' \in {"reachable", "host_lost"}
        /\ recoveryContext' \in TurnKeys \cup {NoKey}
        /\ recoveryGeneration' \in 0 .. MaxRecoveries
        /\ activeRecoveryGen' \in 0 .. MaxRecoveries
    BY KernelAssumption DEF SessionInv, TypeOK, recoveryVars, CloseEpisode
  <1>7. TypeOK'
    BY <1>2, <1>4, <1>6 DEF SessionInv, TypeOK
  <1>8. s \notin Live
    BY DEF Terminal, Live
  <1>9. TurnsAgree'
    <2>1. \A j \in TurnKeys : turns'[j].status \notin Live
      BY <1>3, <1>5, <1>8 DEF SessionInv, TurnsAgree
    <2>2. \A j \in TurnKeys : pending'[j] # NoPrompt => turns'[j] = NoTurn
      BY <1>1, <1>2, <1>5, RecordIs DEF SessionInv, TurnsAgree
    <2> QED BY <1>1, <1>2, <2>1, <2>2, KernelAssumption DEF TurnsAgree
  <1>10. EpisodeNamesTurn'
    <2>1. CASE CloseEpisode
      BY <2>1 DEF CloseEpisode, EpisodeNamesTurn
    <2>2. CASE UNCHANGED recoveryVars
      BY <1>2, <1>5, <2>2 DEF SessionInv, EpisodeNamesTurn, recoveryVars
    <2> QED BY <2>1, <2>2
  <1> QED BY <1>7, <1>9, <1>10 DEF SessionInv

\* The operations on a pending prompt.
LEMMA PromptKeeps ==
  ASSUME SessionInv, NEW k \in TurnKeys,
         \/ \E p \in Prompts : Queue(k, p) \/ Replace(k, p)
         \/ Discard(k)
  PROVE  SessionInv'
  <1>1. PICK p \in Prompts \cup {NoPrompt} : pending' = [pending EXCEPT ![k] = p]
    BY DEF Queue, Replace, Discard
  <1>2. UNCHANGED <<state, lifecycle, controllerStatus, active, turns, recoveryVars>>
    BY DEF Queue, Replace, Discard
  <1>3. turns[k] = NoTurn
    BY DEF Queue, Replace, Discard, SessionInv, TurnsAgree
  <1>4. pending' \in [TurnKeys -> Prompts \cup {NoPrompt}] /\ \A j \in TurnKeys \ {k} : pending'[j] = pending[j]
    BY <1>1 DEF SessionInv, TypeOK
  <1>5. TypeOK'
    BY <1>2, <1>4 DEF SessionInv, TypeOK, recoveryVars
  <1>6. TurnsAgree'
    BY <1>2, <1>3, <1>4 DEF SessionInv, TurnsAgree
  <1>7. EpisodeNamesTurn'
    BY <1>2 DEF SessionInv, EpisodeNamesTurn, recoveryVars
  <1> QED BY <1>5, <1>6, <1>7 DEF SessionInv

\* A release makes its turn the active one.
LEMMA ReleaseKeeps ==
  ASSUME SessionInv, NEW k \in TurnKeys, Release(k)
  PROVE  SessionInv'
  <1> DEFINE x == [prompt |-> pending[k], status |-> "running", result |-> NoResult]
  <1>1. /\ lifecycle = "active" /\ state = "parked" /\ pending[k] \in Prompts /\ turns[k] = NoTurn
        /\ visibility # "host_lost" /\ active = NoKey
    BY DEF Release, Authorized, Releasable, SessionInv, TypeOK, TurnsAgree
  <1>2. /\ pending' = [pending EXCEPT ![k] = NoPrompt]
        /\ turns' = [turns EXCEPT ![k] = x]
        /\ active' = k /\ state' = "running"
        /\ UNCHANGED <<lifecycle, controllerStatus, recoveryVars>>
    BY DEF Release
  <1>3. x \in TurnRecord /\ x.status = "running"
    BY <1>1 DEF TurnRecord, Live, ResultTexts
  <1> HIDE DEF x
  <1>4. /\ turns' \in [TurnKeys -> TurnRecord \cup {NoTurn}]
        /\ pending' \in [TurnKeys -> Prompts \cup {NoPrompt}]
        /\ turns'[k] = x /\ pending'[k] = NoPrompt
        /\ \A j \in TurnKeys \ {k} : turns'[j] = turns[j] /\ pending'[j] = pending[j]
    BY <1>2, <1>3 DEF SessionInv, TypeOK
  <1>5. TypeOK'
    BY <1>2, <1>4 DEF SessionInv, TypeOK, recoveryVars
  <1>6. \A j \in TurnKeys : turns'[j].status \in Live <=> active' = j
    BY <1>1, <1>2, <1>3, <1>4, KernelAssumption DEF SessionInv, TurnsAgree, Live
  <1>7. TurnsAgree'
    BY <1>1, <1>2, <1>4, <1>6, KernelAssumption DEF SessionInv, TurnsAgree
  <1> QED BY <1>1, <1>2, <1>5, <1>7 DEF SessionInv, EpisodeNamesTurn, recoveryVars

\* The active turn's status moves among the live ones.
LEMMA LiveKeeps ==
  ASSUME SessionInv, NEW k \in TurnKeys, active = k, NEW s \in Live,
         turns' = [turns EXCEPT ![k].status = s],
         UNCHANGED <<state, lifecycle, controllerStatus, pending, active>>,
         UNCHANGED recoveryVars \/ CloseEpisode
  PROVE  SessionInv'
  <1>1. turns[k] \in TurnRecord
    BY ActiveTurn
  <1> DEFINE x == [turns[k] EXCEPT !.status = s]
  <1>2. x \in TurnRecord /\ x.status = s
    BY <1>1 DEF TurnRecord
  <1>3. turns' = [turns EXCEPT ![k] = x]
    OBVIOUS
  <1> HIDE DEF x
  <1>4. /\ turns' \in [TurnKeys -> TurnRecord \cup {NoTurn}]
        /\ turns'[k] = x /\ x # NoTurn
        /\ \A j \in TurnKeys \ {k} : turns'[j] = turns[j]
    BY <1>2, <1>3, RecordIs DEF SessionInv, TypeOK
  <1>5. /\ visibility' \in {"reachable", "host_lost"}
        /\ recoveryContext' \in TurnKeys \cup {NoKey}
        /\ recoveryGeneration' \in 0 .. MaxRecoveries
        /\ activeRecoveryGen' \in 0 .. MaxRecoveries
    BY KernelAssumption DEF SessionInv, TypeOK, recoveryVars, CloseEpisode
  <1>6. TypeOK'
    BY <1>4, <1>5 DEF SessionInv, TypeOK
  <1>7. TurnsAgree'
    BY <1>1, <1>2, <1>4, RecordIs DEF SessionInv, TurnsAgree
  <1>8. EpisodeNamesTurn'
    BY <1>4 DEF SessionInv, EpisodeNamesTurn, recoveryVars, CloseEpisode
  <1> QED BY <1>6, <1>7, <1>8 DEF SessionInv

\* What a reconciliation can do: move the active turn, never out of a cancellation,
\* conclude it, or only close the episode.
ReconcilesLive(k, s) ==
  /\ active = k /\ s \in Live
  /\ turns' = [turns EXCEPT ![k].status = s]
  /\ turns[k].status = "cancelling" => s = "cancelling"
  /\ UNCHANGED <<state, lifecycle, controllerStatus, pending, active>>
  /\ CloseEpisode

Concludes(k, s, r) ==
  /\ active = k
  /\ Park(k, s, r)
  /\ UNCHANGED recoveryVars \/ CloseEpisode

ClosesOnly ==
  /\ UNCHANGED <<state, lifecycle, controllerStatus, pending, active, turns>>
  /\ CloseEpisode

\* An accepted reconciliation is one of the three.
LEMMA ReconcileCases ==
  ASSUME SessionInv, NEW k \in TurnKeys, NEW g \in 0 .. MaxRecoveries, NEW status \in TurnStatus,
         NEW r \in ResultTexts, ReconcileHost(k, g, status, r)
  PROVE  \/ \E s \in Live : ReconcilesLive(k, s)
         \/ \E s \in Terminal : Concludes(k, s, r)
         \/ ClosesOnly
  <1>1. CASE /\ active = k /\ status \in Live
             /\ turns' = [turns EXCEPT ![k].status = ReconciledStatus(k, status)]
             /\ state' = "running"
             /\ UNCHANGED <<lifecycle, controllerStatus, pending, active>>
    <2>1. state = "running"
      BY <1>1, ActiveTurn
    <2>2. /\ ReconciledStatus(k, status) \in Live
          /\ turns[k].status = "cancelling" => ReconciledStatus(k, status) = "cancelling"
      BY <1>1 DEF ReconciledStatus, Live
    <2>3. ReconcilesLive(k, ReconciledStatus(k, status))
      BY <1>1, <2>1, <2>2 DEF ReconcileHost, ReconcilesLive
    <2> QED BY <2>2, <2>3
  <1>2. CASE active = k /\ Conclusive(status) /\ Park(k, status, r)
    BY <1>2 DEF ReconcileHost, Conclusive, Concludes
  <1>3. CASE ReconcilePostTerminal(k, status)
    BY <1>3 DEF ReconcileHost, ReconcilePostTerminal, ClosesOnly
  <1> QED BY <1>1, <1>2, <1>3 DEF ReconcileHost, ReconcileActive

\* The methods that conclude the active turn.
LEMMA ConcludeCases ==
  ASSUME SessionInv, NEW k \in TurnKeys,
         \/ ConfirmCancel(k) \/ Interrupt(k)
         \/ \E r \in ResultTexts : Complete(k, r) \/ Fail(k, r)
  PROVE  \E s \in Terminal, r \in ResultTexts : Concludes(k, s, r)
  <1>1. active = k
    BY DEF ConfirmCancel, Interrupt, Complete, Fail
  <1>2. turns[k].result \in ResultTexts
    BY <1>1, ActiveTurn, RecordIs
  <1>3. "completed" \in Terminal /\ "cancelled" \in Terminal /\ "interrupted" \in Terminal /\ "failed" \in Terminal
    BY DEF Terminal
  <1> QED BY <1>1, <1>2, <1>3 DEF ConfirmCancel, Interrupt, Complete, Fail, Concludes

\* Every method keeps the invariant.
LEMMA SessionInvNext == ASSUME SessionInv, Next PROVE SessionInv'
  <1>1. ASSUME NEW k \in TurnKeys, TurnMethod(k) PROVE SessionInv'
    <2>1. ASSUME NEW s \in Terminal, NEW r \in ResultTexts, Concludes(k, s, r) PROVE SessionInv'
      BY <2>1, ParkKeeps DEF Concludes
    <2>2. ASSUME NEW s \in Live, ReconcilesLive(k, s) PROVE SessionInv'
      BY <2>2, LiveKeeps DEF ReconcilesLive
    <2>3. ASSUME ClosesOnly PROVE SessionInv'
      BY <2>3, KernelAssumption
         DEF ClosesOnly, CloseEpisode, SessionInv, TypeOK, TurnsAgree, EpisodeNamesTurn
    <2> QED BY <1>1, <2>1, <2>2, <2>3, PromptKeeps, ReleaseKeeps, ConcludeCases, ReconcileCases
            DEF TurnMethod
  <1>2. CASE RequestCancel
    <2>1. active \in TurnKeys /\ "cancelling" \in Live
      BY <1>2 DEF RequestCancel, SessionInv, TypeOK, Live
    <2>2. PICK k \in TurnKeys : active = k
      BY <2>1
    <2>3. /\ turns' = [turns EXCEPT ![k].status = "cancelling"]
          /\ UNCHANGED <<state, lifecycle, controllerStatus, pending, active, recoveryVars>>
      BY <1>2, <2>2 DEF RequestCancel
    <2> QED BY <2>1, <2>2, <2>3, LiveKeeps
  <1>3. CASE RecordHostLoss
    <2>1. active \in TurnKeys
      BY <1>3 DEF RecordHostLoss, SessionInv, TypeOK
    <2>2. turns[active] # NoTurn
      BY <2>1, ActiveTurn, RecordIs
    <2>3. recoveryGeneration + 1 \in 0 .. MaxRecoveries /\ recoveryGeneration + 1 > 0
      BY <1>3, KernelAssumption DEF RecordHostLoss, SessionInv, TypeOK
    <2>4. TypeOK' /\ TurnsAgree'
      BY <1>3, <2>1, <2>3 DEF RecordHostLoss, SessionInv, TypeOK, TurnsAgree
    <2>5. EpisodeNamesTurn'
      BY <1>3, <2>1, <2>2, <2>3 DEF RecordHostLoss, EpisodeNamesTurn
    <2> QED BY <2>4, <2>5 DEF SessionInv
  <1>4. CASE DisconnectController \/ ReconnectController
    BY <1>4 DEF DisconnectController, ReconnectController, SessionInv, TypeOK, TurnsAgree,
       EpisodeNamesTurn, recoveryVars
  <1>5. CASE Archive
    BY <1>5 DEF Archive, SessionInv, TypeOK, TurnsAgree, EpisodeNamesTurn, recoveryVars
  <1> QED BY <1>1, <1>2, <1>3, <1>4, <1>5 DEF Next

\* Stuttering.
LEMMA SessionInvStutter == ASSUME SessionInv, UNCHANGED vars PROVE SessionInv'
  BY DEF vars, SessionInv, TypeOK, TurnsAgree, EpisodeNamesTurn, recoveryVars

\* The kernel's types hold, and whatever happens to its turn in the meantime, a lost
\* session keeps naming, under its newest generation, the turn to reconcile.
THEOREM KernelSafe == Spec => [](TypeOK /\ EpisodeNamesTurn)
  <1>1. SessionInv => TypeOK /\ EpisodeNamesTurn
    BY DEF SessionInv
  <1>2. SessionInv /\ [Next]_vars => SessionInv'
    BY SessionInvNext, SessionInvStutter
  <1> QED BY <1>1, <1>2, SessionInvInit, PTL DEF Spec

-----------------------------------------------------------------------------
(* The kernel implements the turn lifecycle.                               *)

\* The mapped state, as functions of the turn.
Phase == [k \in TurnKeys |-> TurnPhase(k)]
Outcome == [k \in TurnKeys |-> TurnOutcome(k)]

\* The turns that occupy the session: the active one.
LEMMA OccupyingIs == ASSUME SessionInv PROVE Lifecycle!Occupying = {k \in TurnKeys : active = k}
  BY DEF SessionInv, TurnsAgree, Lifecycle!Occupying, TurnPhase, Live, Terminal

\* What a turn's record says of its phase and outcome.
LEMMA PhaseIs ==
  ASSUME NEW k \in TurnKeys
  PROVE  /\ turns[k].status \in Live => TurnPhase(k) = turns[k].status /\ TurnOutcome(k) = NoOutcome
         /\ turns[k].status \in Terminal =>
              /\ TurnPhase(k) = "done"
              /\ TurnOutcome(k) = [status |-> turns[k].status, result |-> turns[k].result]
         /\ turns[k] = NoTurn =>
              /\ TurnPhase(k) = IF pending[k] = NoPrompt THEN "absent" ELSE "queued"
              /\ TurnOutcome(k) = NoOutcome
  BY DEF TurnPhase, TurnOutcome, Live, Terminal, NoTurn

\* The same of the next state.
LEMMA PhaseIsNext ==
  ASSUME NEW k \in TurnKeys
  PROVE  /\ turns'[k].status \in Live => TurnPhase(k)' = turns'[k].status /\ TurnOutcome(k)' = NoOutcome
         /\ turns'[k].status \in Terminal =>
              /\ TurnPhase(k)' = "done"
              /\ TurnOutcome(k)' = [status |-> turns'[k].status, result |-> turns'[k].result]
         /\ turns'[k] = NoTurn =>
              /\ TurnPhase(k)' = IF pending'[k] = NoPrompt THEN "absent" ELSE "queued"
              /\ TurnOutcome(k)' = NoOutcome
  BY DEF TurnPhase, TurnOutcome, Live, Terminal, NoTurn, NoOutcome

\* A turn whose record and prompt stay keeps its phase and outcome.
LEMMA PhaseStays ==
  ASSUME NEW k \in TurnKeys, turns'[k] = turns[k], pending'[k] = pending[k]
  PROVE  TurnPhase(k)' = TurnPhase(k) /\ TurnOutcome(k)' = TurnOutcome(k)
  BY DEF TurnPhase, TurnOutcome, NoOutcome

\* When one turn moves, the mapped functions move at that turn only.
LEMMA OneMoves ==
  ASSUME NEW k \in TurnKeys, NEW ph, NEW out,
         TurnPhase(k)' = ph, TurnOutcome(k)' = out,
         \A j \in TurnKeys \ {k} : turns'[j] = turns[j] /\ pending'[j] = pending[j]
  PROVE  /\ Phase' = [Phase EXCEPT ![k] = ph]
         /\ Outcome' = [Outcome EXCEPT ![k] = out]
         /\ TurnOutcome(k) = out => Outcome' = Outcome
  <1>1. \A j \in TurnKeys \ {k} : TurnPhase(j)' = TurnPhase(j) /\ TurnOutcome(j)' = TurnOutcome(j)
    BY PhaseStays
  <1>2. Phase' = [Phase EXCEPT ![k] = ph]
    BY <1>1 DEF Phase
  <1>3. Outcome' = [Outcome EXCEPT ![k] = out]
    BY <1>1 DEF Outcome
  <1>4. TurnOutcome(k) = out => Outcome' = Outcome
    BY <1>1 DEF Outcome
  <1> QED BY <1>2, <1>3, <1>4

\* Nothing the lifecycle speaks of changed but perhaps the host's visibility.
LEMMA NoneMoves ==
  ASSUME UNCHANGED turns, \A j \in TurnKeys : pending'[j] = NoPrompt <=> pending[j] = NoPrompt
  PROVE  Phase' = Phase /\ Outcome' = Outcome
  BY DEF Phase, Outcome, TurnPhase, TurnOutcome, NoOutcome

\* A new session is an initial state of the lifecycle.
LEMMA KernelMappedInit == Init => Lifecycle!Init
  BY DEF Init, Lifecycle!Init, TurnPhase, TurnOutcome, NoOutcome, NoTurn, Live, Terminal

\* The operations on a pending prompt enqueue, withdraw or stutter.
LEMMA MappedPrompt ==
  ASSUME SessionInv, NEW k \in TurnKeys,
         \/ \E p \in Prompts : Queue(k, p) \/ Replace(k, p)
         \/ Discard(k)
  PROVE  Lifecycle!Enqueue(k) \/ Lifecycle!Withdraw(k) \/ UNCHANGED Lifecycle!vars
  <1>1. /\ UNCHANGED <<turns, visibility, lifecycle>> /\ lifecycle # "archived"
        /\ turns[k] = NoTurn /\ pending \in [TurnKeys -> Prompts \cup {NoPrompt}]
    BY DEF Queue, Replace, Discard, Authorized, SessionInv, TurnsAgree, TypeOK, recoveryVars
  <1>2. CASE \E p \in Prompts : Queue(k, p)
    <2>1. /\ pending[k] = NoPrompt /\ pending'[k] # NoPrompt
          /\ \A j \in TurnKeys \ {k} : turns'[j] = turns[j] /\ pending'[j] = pending[j]
      BY <1>1, <1>2, KernelAssumption DEF Queue
    <2>2. TurnPhase(k) = "absent" /\ TurnPhase(k)' = "queued" /\ TurnOutcome(k) = NoOutcome /\ TurnOutcome(k)' = NoOutcome
      BY <1>1, <2>1, PhaseIs, PhaseIsNext
    <2>3. Phase' = [Phase EXCEPT ![k] = "queued"] /\ Outcome' = Outcome
      BY <2>1, <2>2, OneMoves
    <2> QED BY <1>1, <2>2, <2>3 DEF Lifecycle!Enqueue, Lifecycle!Move, Phase, Outcome
  <1>3. CASE Discard(k)
    <2>1. /\ pending[k] # NoPrompt /\ pending'[k] = NoPrompt
          /\ \A j \in TurnKeys \ {k} : turns'[j] = turns[j] /\ pending'[j] = pending[j]
      BY <1>1, <1>3 DEF Discard
    <2>2. TurnPhase(k) = "queued" /\ TurnPhase(k)' = "absent" /\ TurnOutcome(k) = NoOutcome /\ TurnOutcome(k)' = NoOutcome
      BY <1>1, <2>1, PhaseIs, PhaseIsNext
    <2>3. Phase' = [Phase EXCEPT ![k] = "absent"] /\ Outcome' = Outcome
      BY <2>1, <2>2, OneMoves
    <2> QED BY <1>1, <2>2, <2>3 DEF Lifecycle!Withdraw, Lifecycle!Move, Phase, Outcome
  <1>4. CASE \E p \in Prompts : Replace(k, p)
    <2>1. \A j \in TurnKeys : pending'[j] = NoPrompt <=> pending[j] = NoPrompt
      BY <1>1, <1>4, KernelAssumption DEF Replace
    <2>2. Phase' = Phase /\ Outcome' = Outcome
      BY <1>1, <2>1, NoneMoves
    <2> QED BY <1>1, <2>2 DEF Lifecycle!vars, Phase, Outcome
  <1> QED BY <1>2, <1>3, <1>4

\* A release begins its turn.
LEMMA MappedRelease ==
  ASSUME SessionInv, NEW k \in TurnKeys, Release(k)
  PROVE  Lifecycle!Begin(k)
  <1>1. /\ lifecycle # "archived" /\ visibility # "host_lost" /\ active = NoKey
        /\ pending[k] # NoPrompt /\ turns[k] = NoTurn
        /\ UNCHANGED <<visibility, lifecycle>>
    BY DEF Release, Authorized, Releasable, SessionInv, TypeOK, TurnsAgree, recoveryVars
  <1>2. /\ turns'[k].status = "running"
        /\ \A j \in TurnKeys \ {k} : turns'[j] = turns[j] /\ pending'[j] = pending[j]
    BY DEF Release, SessionInv, TypeOK
  <1>3. /\ TurnPhase(k) = "queued" /\ TurnPhase(k)' = "running"
        /\ TurnOutcome(k) = NoOutcome /\ TurnOutcome(k)' = NoOutcome
    BY <1>1, <1>2, PhaseIs, PhaseIsNext DEF Live
  <1>4. Phase' = [Phase EXCEPT ![k] = "running"] /\ Outcome' = Outcome
    BY <1>2, <1>3, OneMoves
  <1>5. Lifecycle!Occupying = {}
    BY <1>1, OccupyingIs, KernelAssumption
  <1> QED BY <1>1, <1>3, <1>4, <1>5 DEF Lifecycle!Begin, Lifecycle!Move, Phase, Outcome

\* Parking the active turn concludes it.
LEMMA MappedConclude ==
  ASSUME SessionInv, NEW k \in TurnKeys, NEW s \in Terminal, NEW r \in ResultTexts, Concludes(k, s, r)
  PROVE  \E o \in [status : Terminal, result : ResultTexts] : Lifecycle!Conclude(k, o)
  <1>1. turns[k] \in TurnRecord /\ turns[k].status \in Live
    BY ActiveTurn DEF Concludes
  <1>2. /\ turns'[k].status = s /\ turns'[k].result = r
        /\ \A j \in TurnKeys \ {k} : turns'[j] = turns[j] /\ pending'[j] = pending[j]
        /\ UNCHANGED lifecycle
    BY <1>1 DEF Concludes, Park, SessionInv, TypeOK, TurnRecord
  <1>3. visibility' \in {visibility, "reachable"}
    BY DEF Concludes, recoveryVars, CloseEpisode
  <1>4. TurnPhase(k) \in Live /\ TurnPhase(k)' = "done" /\ TurnOutcome(k)' = [status |-> s, result |-> r]
    BY <1>1, <1>2, PhaseIs, PhaseIsNext
  <1>5. Phase' = [Phase EXCEPT ![k] = "done"] /\ Outcome' = [Outcome EXCEPT ![k] = [status |-> s, result |-> r]]
    BY <1>2, <1>4, OneMoves
  <1>6. Lifecycle!Conclude(k, [status |-> s, result |-> r])
    BY <1>2, <1>3, <1>4, <1>5 DEF Lifecycle!Conclude, Lifecycle!Move, Phase, Outcome, Live
  <1> QED BY <1>6

\* The active turn asked to be cancelled, or found as it was.
LEMMA MappedLive ==
  ASSUME SessionInv, NEW k \in TurnKeys, active = k, NEW s \in Live,
         turns' = [turns EXCEPT ![k].status = s],
         turns[k].status = "cancelling" => s = "cancelling",
         UNCHANGED <<lifecycle, pending>>,
         visibility' = "reachable" \/ (visibility' = visibility /\ s # turns[k].status)
  PROVE  Lifecycle!AskCancel(k) \/ Lifecycle!FindHost
  <1>1. turns[k] \in TurnRecord /\ turns[k].status \in Live
    BY ActiveTurn
  <1>2. /\ turns'[k].status = s
        /\ \A j \in TurnKeys \ {k} : turns'[j] = turns[j] /\ pending'[j] = pending[j]
    BY <1>1 DEF SessionInv, TypeOK, TurnRecord
  <1>3. /\ TurnPhase(k) = turns[k].status /\ TurnPhase(k)' = s
        /\ TurnOutcome(k) = NoOutcome /\ TurnOutcome(k)' = NoOutcome
    BY <1>1, <1>2, PhaseIs, PhaseIsNext
  <1>4. Phase' = [Phase EXCEPT ![k] = s] /\ Outcome' = Outcome
    BY <1>2, <1>3, OneMoves
  <1>5. CASE s = turns[k].status
    <2>1. Phase' = Phase
      BY <1>3, <1>4, <1>5 DEF Phase
    <2> QED BY <1>4, <1>5, <2>1 DEF Lifecycle!FindHost, Phase, Outcome
  <1>6. CASE s # turns[k].status
    <2>1. turns[k].status = "running" /\ s = "cancelling"
      BY <1>1, <1>6 DEF Live
    <2> QED BY <1>3, <1>4, <2>1 DEF Lifecycle!AskCancel, Lifecycle!Move, Phase, Outcome
  <1> QED BY <1>5, <1>6

\* Every method is a step of the lifecycle or a stutter.
LEMMA KernelMappedNext ==
  ASSUME SessionInv, Next
  PROVE  [Lifecycle!Next]_(Lifecycle!vars)
  <1>1. ASSUME NEW k \in TurnKeys, TurnMethod(k) PROVE [Lifecycle!Next]_(Lifecycle!vars)
    <2>1. ASSUME NEW s \in Terminal, NEW r \in ResultTexts, Concludes(k, s, r) PROVE Lifecycle!Next
      BY <2>1, MappedConclude DEF Lifecycle!Next
    <2>2. ASSUME NEW s \in Live, ReconcilesLive(k, s) PROVE Lifecycle!Next
      BY <2>2, MappedLive DEF ReconcilesLive, CloseEpisode, Lifecycle!Next
    <2>3. ASSUME ClosesOnly PROVE Lifecycle!Next
      <3>1. Phase' = Phase /\ Outcome' = Outcome
        BY <2>3, NoneMoves DEF ClosesOnly
      <3>2. Lifecycle!FindHost
        BY <2>3, <3>1 DEF ClosesOnly, CloseEpisode, Lifecycle!FindHost, Phase, Outcome
      <3> QED BY <3>2 DEF Lifecycle!Next
    <2>4. CASE \/ \E p \in Prompts : Queue(k, p) \/ Replace(k, p)
               \/ Discard(k)
      BY <2>4, MappedPrompt DEF Lifecycle!Next
    <2>5. CASE Release(k)
      BY <2>5, MappedRelease DEF Lifecycle!Next
    <2>6. CASE \/ ConfirmCancel(k) \/ Interrupt(k)
               \/ \E r \in ResultTexts : Complete(k, r) \/ Fail(k, r)
      BY <2>1, <2>6, ConcludeCases
    <2>7. CASE \E g \in 0 .. MaxRecoveries, status \in TurnStatus, r \in ResultTexts :
                 ReconcileHost(k, g, status, r)
      BY <2>1, <2>2, <2>3, <2>7, ReconcileCases
    <2> QED BY <1>1, <2>4, <2>5, <2>6, <2>7 DEF TurnMethod
  <1>2. CASE RequestCancel
    <2>1. PICK k \in TurnKeys : active = k
      BY <1>2 DEF RequestCancel, SessionInv, TypeOK
    <2>2. /\ turns' = [turns EXCEPT ![k].status = "cancelling"]
          /\ turns[k].status = "running" /\ "cancelling" \in Live
          /\ UNCHANGED <<lifecycle, pending, visibility>>
      BY <1>2, <2>1 DEF RequestCancel, recoveryVars, Live
    <2>3. Lifecycle!AskCancel(k) \/ Lifecycle!FindHost
      BY <2>1, <2>2, MappedLive
    <2> QED BY <2>3 DEF Lifecycle!Next
  <1>3. CASE RecordHostLoss
    <2>1. active \in TurnKeys /\ visibility' = "host_lost" /\ UNCHANGED <<turns, pending, lifecycle>>
      BY <1>3 DEF RecordHostLoss, SessionInv, TypeOK
    <2>2. Lifecycle!Occupying # {}
      BY <2>1, OccupyingIs
    <2>3. Phase' = Phase /\ Outcome' = Outcome
      BY <2>1, NoneMoves
    <2>4. Lifecycle!LoseHost
      BY <2>1, <2>2, <2>3 DEF Lifecycle!LoseHost, Phase, Outcome
    <2> QED BY <2>4 DEF Lifecycle!Next
  <1>4. CASE DisconnectController \/ ReconnectController
    <2>1. UNCHANGED <<turns, pending, lifecycle, visibility>>
      BY <1>4 DEF DisconnectController, ReconnectController, recoveryVars
    <2> QED BY <2>1, NoneMoves DEF Lifecycle!vars, Phase, Outcome
  <1>5. CASE Archive
    <2>1. /\ active = NoKey /\ visibility # "host_lost" /\ lifecycle' = "archived"
          /\ UNCHANGED <<turns, pending, visibility>>
      BY <1>5 DEF Archive, recoveryVars
    <2>2. Lifecycle!Occupying = {}
      BY <2>1, OccupyingIs, KernelAssumption
    <2>3. Phase' = Phase /\ Outcome' = Outcome
      BY <2>1, NoneMoves
    <2>4. Lifecycle!Archive
      BY <2>1, <2>2, <2>3 DEF Lifecycle!Archive, Phase, Outcome
    <2> QED BY <2>4 DEF Lifecycle!Next
  <1> QED BY <1>1, <1>2, <1>3, <1>4, <1>5 DEF Next

\* A stutter of the kernel is one of the lifecycle.
LEMMA KernelMappedStutter == ASSUME UNCHANGED vars PROVE UNCHANGED Lifecycle!vars
  BY NoneMoves DEF vars, recoveryVars, Lifecycle!vars, Phase, Outcome

\* The in-memory kernel obeys the lifecycle that the durable store implements as well:
\* one turn at a time, begun and concluded once, no release while the host is lost,
\* and no probe that undoes a cancellation.
THEOREM KernelRefinesLifecycle == Spec => ImplementsLifecycle
  <1>1. SessionInv /\ [Next]_vars => SessionInv' /\ [Lifecycle!Next]_(Lifecycle!vars)
    BY SessionInvNext, SessionInvStutter, KernelMappedNext, KernelMappedStutter
  <1> QED BY <1>1, SessionInvInit, KernelMappedInit, PTL DEF Spec, ImplementsLifecycle, Lifecycle!Spec

-----------------------------------------------------------------------------
(* The same of the composed run.                                           *)

mcVars == <<vars, ballots, artVars, part>>

\* Only its own part moves the kernel.
LEMMA KernelAlone ==
  ASSUME SessionInv, [MCNext]_mcVars
  PROVE  SessionInv' /\ [Next]_vars
  BY SessionInvNext, SessionInvStutter DEF MCNext, Rest, mcVars

\* The kernel's part of the council run.
THEOREM KernelAlwaysSound == MCSpec => []KernelInv
  <1>1. SessionInv => KernelInv
    BY DEF SessionInv, KernelInv
  <1>2. SessionInv /\ [MCNext]_mcVars => SessionInv'
    BY KernelAlone
  <1>3. MCInit => SessionInv
    BY SessionInvInit DEF MCInit
  <1> QED BY <1>1, <1>2, <1>3, PTL DEF MCSpec, mcVars

\* And its refinement.
THEOREM KernelRunRefines == MCSpec => KernelImplementsLifecycle
  <1>1. SessionInv /\ [MCNext]_mcVars =>
          SessionInv' /\ [part = "kernel" => [Lifecycle!Next]_(Lifecycle!vars)]_vars
    BY KernelAlone, KernelMappedNext
  <1>2. MCInit => SessionInv /\ Lifecycle!Init
    BY SessionInvInit, KernelMappedInit DEF MCInit
  <1> QED BY <1>1, <1>2, PTL DEF MCSpec, mcVars, KernelImplementsLifecycle

-----------------------------------------------------------------------------
(* Artifact revisions and sealed proposal sets.                            *)

Authors == Executions \cup {NoExecution}
MemberRow == [id : Ids, revision : Nat, content : Contents, author : Authors]
RevisionRow == [content : Contents, author : Authors, released : BOOLEAN, set : SUBSET MemberRow]
PublishEntry == [cmd : {"publish"}, id : Ids, content : Contents, revision : Nat]
ReleaseEntry == [cmd : {"release"}, set : SUBSET MemberRow]
PublishCall == [pc : {"blob", "commit"}, op : ArtOps, id : Ids, content : Contents]

\* Rows, receipts and calls have the columns they are made with.
ArtTyped ==
  /\ rows \in [Ids -> Seq(RevisionRow)]
  /\ sets \subseteq SUBSET MemberRow
  /\ artJournal \in [ArtOps -> {NoEntry} \cup PublishEntry \cup ReleaseEntry]
  /\ call \in [Publishers -> {NoCall} \cup PublishCall]

Published == {x \in Revisions : x.author = NoExecution}
PublishOps == {o \in ArtOps : artJournal[o].cmd = "publish"}

\* A call that is about to commit has installed its blob.
CommitsHaveBlob == \A p \in Publishers : CallAt(p, "commit") => call[p].content \in blobs

\* What is sealed is released.
SealedIsReleased == \A ms \in sets : \A x \in ms : rows[x.id][x.revision].released

\* A receipt names the revision it made.
ReceiptsHold ==
  \A o \in ArtOps : artJournal[o].cmd = "publish" =>
    /\ artJournal[o].revision \in DOMAIN rows[artJournal[o].id]
    /\ rows[artJournal[o].id][artJournal[o].revision].content = artJournal[o].content

\* Receipts and published revisions are equally, and finitely, many.
CountsAgree ==
  /\ IsFiniteSet(Published) /\ IsFiniteSet(PublishOps)
  /\ Cardinality(Published) = Cardinality(PublishOps)

ArtStrong ==
  RecordsHold /\ CommitsHaveBlob /\ SealedIsReleased /\ ReceiptsHold /\ CountsAgree

ArtInv == ArtTyped /\ ArtStrong

\* The rows of one artifact.
LEMMA RowsAre ==
  ASSUME rows \in [Ids -> Seq(RevisionRow)], NEW i \in Ids
  PROVE  /\ rows[i] \in Seq(RevisionRow) /\ Len(rows[i]) \in Nat /\ DOMAIN rows[i] = 1 .. Len(rows[i])
         /\ \A k \in DOMAIN rows[i] :
              /\ rows[i][k] \in RevisionRow
              /\ rows[i][k].content \in Contents /\ rows[i][k].author \in Authors
  <1>1. rows[i] \in Seq(RevisionRow)
    OBVIOUS
  <1>2. Len(rows[i]) \in Nat /\ DOMAIN rows[i] = 1 .. Len(rows[i])
    BY <1>1, LenProperties
  <1>3. \A k \in DOMAIN rows[i] : rows[i][k] \in RevisionRow
    BY <1>1, <1>2, ElementOfSeq
  <1> QED BY <1>1, <1>2, <1>3 DEF RevisionRow

\* A revision, taken apart.
LEMMA RevisionsAre ==
  /\ \A x : x \in Revisions <=> \E i \in Ids : \E k \in DOMAIN rows[i] : x = Member(i, k)
  /\ \A i, k : /\ Member(i, k).id = i /\ Member(i, k).revision = k
               /\ Member(i, k).content = rows[i][k].content
               /\ Member(i, k).author = rows[i][k].author
  BY DEF Revisions, Member

\* The same of the next state.
LEMMA RevisionsAreNext ==
  \A x : x \in Revisions' <=>
    \E i \in Ids : \E k \in DOMAIN rows'[i] :
      x = [id |-> i, revision |-> k, content |-> rows'[i][k].content, author |-> rows'[i][k].author]
  BY DEF Revisions, Member

\* Revisions are rows of a set.
LEMMA RevisionsTyped == ASSUME ArtTyped PROVE Revisions \subseteq MemberRow
  <1>1. ASSUME NEW i \in Ids, NEW k \in DOMAIN rows[i] PROVE Member(i, k) \in MemberRow
    <2>1. k \in Nat /\ rows[i][k].content \in Contents /\ rows[i][k].author \in Authors
      BY RowsAre DEF ArtTyped
    <2> QED BY <2>1 DEF Member, MemberRow
  <1> QED BY <1>1, RevisionsAre

\* An insertion adds one revision, after the ones there are.
LEMMA InsertAdds ==
  ASSUME ArtTyped, NEW i \in Ids, NEW c \in Contents, NEW e \in Authors, Insert(i, c, e)
  PROVE  LET n == Len(rows[i]) + 1
             m == [id |-> i, revision |-> n, content |-> c, author |-> e]
         IN  /\ rows' \in [Ids -> Seq(RevisionRow)]
             /\ n \in Nat /\ n \in DOMAIN rows'[i] /\ rows'[i][n].content = c
             /\ Revisions' = Revisions \cup {m} /\ m \notin Revisions
             /\ \A j \in Ids : \A k \in DOMAIN rows[j] : k \in DOMAIN rows'[j] /\ rows'[j][k] = rows[j][k]
             /\ \A j \in Ids : \A k \in DOMAIN rows'[j] : k \in DOMAIN rows[j] \/ (j = i /\ k = n)
  <1> DEFINE n == Len(rows[i]) + 1
             m == [id |-> i, revision |-> n, content |-> c, author |-> e]
             s == Append(rows[i], Row(c, e))
  <1>1. Row(c, e) \in RevisionRow /\ Row(c, e).content = c /\ Row(c, e).author = e
    BY DEF Row, RevisionRow
  <1>2. /\ rows[i] \in Seq(RevisionRow) /\ Len(rows[i]) \in Nat /\ DOMAIN rows[i] = 1 .. Len(rows[i])
    BY RowsAre DEF ArtTyped
  <1>3. /\ s \in Seq(RevisionRow) /\ Len(s) = n
        /\ \A k \in 1 .. Len(rows[i]) : s[k] = rows[i][k]
        /\ s[n] = Row(c, e)
    BY <1>1, <1>2, AppendProperties
  <1>4. DOMAIN s = 1 .. n
    BY <1>3, LenProperties
  <1>5. rows' = [rows EXCEPT ![i] = s]
    BY DEF Insert
  <1>6. n \in Nat /\ n \in 1 .. n /\ n \notin 1 .. Len(rows[i]) /\ 1 .. n = (1 .. Len(rows[i])) \cup {n}
    BY <1>2
  <1> HIDE DEF s
  <1>7. rows' \in [Ids -> Seq(RevisionRow)] /\ rows'[i] = s /\ \A j \in Ids \ {i} : rows'[j] = rows[j]
    BY <1>3, <1>5 DEF ArtTyped
  <1>8. /\ \A j \in Ids : \A k \in DOMAIN rows[j] : k \in DOMAIN rows'[j] /\ rows'[j][k] = rows[j][k]
        /\ \A j \in Ids : \A k \in DOMAIN rows'[j] : k \in DOMAIN rows[j] \/ (j = i /\ k = n)
        /\ n \in DOMAIN rows'[i] /\ rows'[i][n] = Row(c, e)
    <2>1. DOMAIN rows'[i] = (DOMAIN rows[i]) \cup {n} /\ n \in DOMAIN rows'[i]
      BY <1>2, <1>4, <1>6, <1>7
    <2>2. /\ \A k \in DOMAIN rows[i] : rows'[i][k] = rows[i][k]
          /\ rows'[i][n] = Row(c, e)
      BY <1>2, <1>3, <1>7
    <2>3. ASSUME NEW j \in Ids
          PROVE  /\ \A k \in DOMAIN rows[j] : k \in DOMAIN rows'[j] /\ rows'[j][k] = rows[j][k]
                 /\ \A k \in DOMAIN rows'[j] : k \in DOMAIN rows[j] \/ (j = i /\ k = n)
      <3> HIDE DEF n
      <3>1. CASE j = i
        BY <2>1, <2>2, <3>1
      <3>2. CASE j # i
        BY <1>7, <3>2
      <3> QED BY <3>1, <3>2
    <2> QED BY <2>1, <2>2, <2>3
  <1>9. m \notin Revisions
    BY <1>2, <1>6, RevisionsAre
  <1>10. Revisions' \subseteq Revisions \cup {m}
    <2> SUFFICES ASSUME NEW x \in Revisions' PROVE x \in Revisions \cup {m}
      OBVIOUS
    <2>1. PICK j \in Ids : \E k \in DOMAIN rows'[j] :
            x = [id |-> j, revision |-> k, content |-> rows'[j][k].content, author |-> rows'[j][k].author]
      BY RevisionsAreNext
    <2>2. PICK k \in DOMAIN rows'[j] :
            x = [id |-> j, revision |-> k, content |-> rows'[j][k].content, author |-> rows'[j][k].author]
      BY <2>1
    <2>3. CASE k \in DOMAIN rows[j]
      <3>1. x = Member(j, k)
        BY <1>8, <2>2, <2>3 DEF Member
      <3> QED BY <2>3, <3>1, RevisionsAre
    <2>4. CASE j = i /\ k = n
      BY <1>1, <1>8, <2>2, <2>4
    <2> QED BY <1>8, <2>3, <2>4
  <1>11. Revisions \cup {m} \subseteq Revisions'
    <2>1. m \in Revisions'
      BY <1>1, <1>8, RevisionsAreNext
    <2>2. ASSUME NEW x \in Revisions PROVE x \in Revisions'
      <3>1. PICK j \in Ids : \E k \in DOMAIN rows[j] : x = Member(j, k)
        BY RevisionsAre
      <3>2. PICK k \in DOMAIN rows[j] : x = Member(j, k)
        BY <3>1
      <3>3. x = [id |-> j, revision |-> k, content |-> rows'[j][k].content, author |-> rows'[j][k].author]
        BY <1>8, <3>2 DEF Member
      <3>4. k \in DOMAIN rows'[j]
        BY <1>8
      <3> QED BY <3>3, <3>4, RevisionsAreNext
    <2> QED BY <2>1, <2>2
  <1> QED BY <1>1, <1>6, <1>7, <1>8, <1>9, <1>10, <1>11

\* A function on 1 .. n is a sequence.
LEMMA FunctionIsSeq ==
  ASSUME NEW S, NEW n \in Nat, NEW f \in [1 .. n -> S]
  PROVE  f \in Seq(S)
  BY SeqDef

\* What ReleaseArtifacts does to the rows.
Marks(ms) ==
  rows' = [i \in Ids |-> [k \in DOMAIN rows[i] |->
             IF Member(i, k) \in ms
             THEN [rows[i][k] EXCEPT !.released = TRUE, !.set = ms]
             ELSE rows[i][k]]]

\* Sealing marks rows and changes no revision.
LEMMA SealMarks ==
  ASSUME ArtTyped, NEW ms \in SUBSET MemberRow, Marks(ms)
  PROVE  /\ rows' \in [Ids -> Seq(RevisionRow)]
         /\ Revisions' = Revisions
         /\ \A i \in Ids :
              /\ DOMAIN rows'[i] = DOMAIN rows[i]
              /\ \A k \in DOMAIN rows[i] :
                   /\ rows'[i][k].content = rows[i][k].content
                   /\ rows'[i][k].author = rows[i][k].author
                   /\ rows[i][k].released => rows'[i][k].released
                   /\ Member(i, k) \in ms => rows'[i][k].released
                   /\ Member(i, k) \notin ms => rows'[i][k] = rows[i][k]
  <1>1. ASSUME NEW i \in Ids, NEW k \in DOMAIN rows[i]
        PROVE  LET x == [rows[i][k] EXCEPT !.released = TRUE, !.set = ms]
               IN  /\ x \in RevisionRow /\ x.content = rows[i][k].content /\ x.author = rows[i][k].author
                   /\ x.released
    <2>1. rows[i][k] \in RevisionRow
      BY RowsAre DEF ArtTyped
    <2> QED BY <2>1 DEF RevisionRow
  <1>2. \A i \in Ids :
          /\ DOMAIN rows'[i] = DOMAIN rows[i]
          /\ \A k \in DOMAIN rows[i] :
               rows'[i][k] = IF Member(i, k) \in ms
                             THEN [rows[i][k] EXCEPT !.released = TRUE, !.set = ms]
                             ELSE rows[i][k]
    BY DEF Marks
  <1>3. \A i \in Ids : \A k \in DOMAIN rows[i] :
          /\ rows'[i][k] \in RevisionRow
          /\ rows'[i][k].content = rows[i][k].content
          /\ rows'[i][k].author = rows[i][k].author
          /\ rows[i][k].released => rows'[i][k].released
          /\ Member(i, k) \in ms => rows'[i][k].released
          /\ Member(i, k) \notin ms => rows'[i][k] = rows[i][k]
    <2> SUFFICES ASSUME NEW i \in Ids, NEW k \in DOMAIN rows[i]
                 PROVE  /\ rows'[i][k] \in RevisionRow
                        /\ rows'[i][k].content = rows[i][k].content
                        /\ rows'[i][k].author = rows[i][k].author
                        /\ rows[i][k].released => rows'[i][k].released
                        /\ Member(i, k) \in ms => rows'[i][k].released
                        /\ Member(i, k) \notin ms => rows'[i][k] = rows[i][k]
      OBVIOUS
    <2>1. CASE Member(i, k) \in ms
      <3>1. rows'[i][k] = [rows[i][k] EXCEPT !.released = TRUE, !.set = ms]
        BY <1>2, <2>1
      <3> QED BY <1>1, <2>1, <3>1
    <2>2. CASE Member(i, k) \notin ms
      <3>1. rows'[i][k] = rows[i][k]
        BY <1>2, <2>2
      <3>2. rows[i][k] \in RevisionRow
        BY RowsAre DEF ArtTyped
      <3> QED BY <2>2, <3>1, <3>2
    <2> QED BY <2>1, <2>2
  <1>4. ASSUME NEW i \in Ids PROVE rows'[i] \in Seq(RevisionRow)
    <2>1. Len(rows[i]) \in Nat /\ DOMAIN rows[i] = 1 .. Len(rows[i])
      BY RowsAre DEF ArtTyped
    <2>2. rows'[i] \in [1 .. Len(rows[i]) -> RevisionRow]
      <3>1. rows'[i] = [k \in DOMAIN rows[i] |-> rows'[i][k]]
        BY DEF Marks
      <3> QED BY <1>3, <2>1, <3>1
    <2> QED BY <2>1, <2>2, FunctionIsSeq
  <1>5. rows' \in [Ids -> Seq(RevisionRow)]
    BY <1>4 DEF Marks
  <1>6. \A i \in Ids : \A k \in DOMAIN rows[i] :
          Member(i, k) = [id |-> i, revision |-> k, content |-> rows'[i][k].content, author |-> rows'[i][k].author]
    BY <1>3 DEF Member
  <1>7. Revisions' = Revisions
    <2>1. ASSUME NEW x \in Revisions PROVE x \in Revisions'
      <3>1. PICK i \in Ids : \E k \in DOMAIN rows[i] : x = Member(i, k)
        BY RevisionsAre
      <3>2. PICK k \in DOMAIN rows[i] : x = Member(i, k)
        BY <3>1
      <3>3. k \in DOMAIN rows'[i]
        <4>1. DOMAIN rows'[i] = DOMAIN rows[i]
          BY <1>2
        <4> QED BY <4>1
      <3>4. x = [id |-> i, revision |-> k, content |-> rows'[i][k].content, author |-> rows'[i][k].author]
        BY <1>6, <3>2
      <3>5. \E j \in Ids : \E l \in DOMAIN rows'[j] :
              x = [id |-> j, revision |-> l, content |-> rows'[j][l].content, author |-> rows'[j][l].author]
        BY <3>3, <3>4, Zenon
      <3> QED BY <3>5, RevisionsAreNext, Zenon
    <2>2. ASSUME NEW x \in Revisions' PROVE x \in Revisions
      <3>1. PICK i \in Ids : \E k \in DOMAIN rows'[i] :
              x = [id |-> i, revision |-> k, content |-> rows'[i][k].content, author |-> rows'[i][k].author]
        BY RevisionsAreNext, Zenon
      <3>2. PICK k \in DOMAIN rows'[i] :
              x = [id |-> i, revision |-> k, content |-> rows'[i][k].content, author |-> rows'[i][k].author]
        BY <3>1
      <3>3. k \in DOMAIN rows[i]
        <4>1. DOMAIN rows'[i] = DOMAIN rows[i]
          BY <1>2
        <4> QED BY <4>1
      <3>4. x = Member(i, k)
        BY <1>6, <3>2, <3>3
      <3> QED BY <3>3, <3>4, RevisionsAre
    <2> QED BY <2>1, <2>2
  <1> QED BY <1>2, <1>3, <1>5, <1>7

\* The run begins with nothing on record.
LEMMA ArtInvInit == ASSUME ArtInit PROVE ArtInv
  <1>1. \A i \in Ids : rows[i] = <<>> /\ DOMAIN rows[i] = {}
    BY DEF ArtInit
  <1>2. Revisions = {}
    BY <1>1, RevisionsAre
  <1>3. Published = {} /\ PublishOps = {}
    BY <1>2 DEF Published, PublishOps, ArtInit, NoEntry
  <1>4. ArtTyped
    BY DEF ArtInit, ArtTyped
  <1>5. RecordsHold
    BY <1>2 DEF RecordsHold, ArtInit
  <1>6. CommitsHaveBlob /\ SealedIsReleased
    BY DEF ArtInit, CommitsHaveBlob, SealedIsReleased, CallAt, NoCall
  <1>7. ReceiptsHold
    BY DEF ArtInit, ReceiptsHold, NoEntry
  <1>8. CountsAgree
    BY <1>3, FS_EmptySet DEF CountsAgree
  <1> QED BY <1>4, <1>5, <1>6, <1>7, <1>8 DEF ArtInv, ArtStrong

\* The revisions are a function of the rows.
LEMMA RowsKept ==
  ASSUME UNCHANGED rows
  PROVE  Revisions' = Revisions /\ Published' = Published
  BY DEF Revisions, Member, Published

\* A step that keeps rows, sets and receipts, and no fewer blobs.
LEMMA RecordsKept ==
  ASSUME ArtInv, UNCHANGED <<rows, sets, artJournal>>, blobs \subseteq blobs'
  PROVE  RecordsHold' /\ SealedIsReleased' /\ ReceiptsHold' /\ CountsAgree'
  <1>1. Revisions' = Revisions /\ Published' = Published /\ PublishOps' = PublishOps
    BY RowsKept DEF PublishOps
  <1>2. RecordsHold'
    BY <1>1 DEF ArtInv, ArtStrong, RecordsHold, Contributor
  <1>3. SealedIsReleased' /\ ReceiptsHold'
    BY DEF ArtInv, ArtStrong, SealedIsReleased, ReceiptsHold
  <1>4. CountsAgree'
    BY <1>1 DEF ArtInv, ArtStrong, CountsAgree
  <1> QED BY <1>2, <1>3, <1>4

\* An insertion of a content that is installed.
LEMMA InsertHolds ==
  ASSUME ArtInv, NEW i \in Ids, NEW c \in Contents, NEW e \in Authors, Insert(i, c, e),
         UNCHANGED sets, blobs \subseteq blobs', c \in blobs'
  PROVE  RecordsHold' /\ SealedIsReleased'
  <1> DEFINE n == Len(rows[i]) + 1
             m == [id |-> i, revision |-> n, content |-> c, author |-> e]
  <1>1. /\ Revisions' = Revisions \cup {m}
        /\ \A j \in Ids : \A k \in DOMAIN rows[j] : k \in DOMAIN rows'[j] /\ rows'[j][k] = rows[j][k]
    BY InsertAdds DEF ArtInv
  <1>2. m.content = c
    OBVIOUS
  <1> HIDE DEF m
  <1>3. RecordsHold'
    BY <1>1, <1>2 DEF ArtInv, ArtStrong, RecordsHold, Contributor
  <1>4. ASSUME NEW ms \in sets, NEW x \in ms PROVE rows'[x.id][x.revision].released
    <2>1. x \in Revisions /\ rows[x.id][x.revision].released
      BY DEF ArtInv, ArtStrong, RecordsHold, SealedIsReleased
    <2>2. x.id \in Ids /\ x.revision \in DOMAIN rows[x.id]
      BY <2>1, RevisionsAre
    <2> QED BY <1>1, <2>1, <2>2
  <1>5. SealedIsReleased'
    BY <1>4 DEF SealedIsReleased
  <1> QED BY <1>3, <1>5

\* PublishArtifact.
LEMMA PublishArtifactHolds ==
  ASSUME ArtInv, NEW p \in Publishers, NEW o \in ArtOps, NEW i \in Ids, NEW c \in Contents,
         PublishArtifact(p, o, i, c)
  PROVE  ArtInv'
  <1>1. RecordsHold' /\ SealedIsReleased' /\ ReceiptsHold' /\ CountsAgree'
    BY RecordsKept DEF PublishArtifact
  <1>2. call' = [call EXCEPT ![p] = [pc |-> "blob", op |-> o, id |-> i, content |-> c]]
    BY DEF PublishArtifact
  <1>3. ArtTyped'
    BY <1>2 DEF PublishArtifact, ArtInv, ArtTyped, PublishCall
  <1>4. CommitsHaveBlob'
    BY <1>2 DEF PublishArtifact, ArtInv, ArtTyped, ArtStrong, CommitsHaveBlob, CallAt
  <1> QED BY <1>1, <1>3, <1>4 DEF ArtInv, ArtStrong

\* WriteBlob.
LEMMA WriteBlobHolds ==
  ASSUME ArtInv, NEW p \in Publishers, WriteBlob(p)
  PROVE  ArtInv'
  <1>1. blobs \subseteq blobs'
    BY DEF WriteBlob, Installed
  <1>2. RecordsHold' /\ SealedIsReleased' /\ ReceiptsHold' /\ CountsAgree'
    BY <1>1, RecordsKept DEF WriteBlob
  <1>3. CASE Installed(call[p].content) /\ Move(p, "commit")
    <2>1. call[p] \in PublishCall
      BY DEF WriteBlob, CallAt, NoCall, ArtInv, ArtTyped
    <2>2. LET r == [call[p] EXCEPT !.pc = "commit"]
          IN  r \in PublishCall /\ r.content = call[p].content
      BY <2>1 DEF PublishCall
    <2>3. call' = [call EXCEPT ![p] = [call[p] EXCEPT !.pc = "commit"]]
      BY <1>3 DEF Move
    <2>4. ArtTyped'
      BY <2>2, <2>3 DEF WriteBlob, ArtInv, ArtTyped
    <2>5. \A q \in Publishers : call'[q].content = call[q].content /\ (q # p => call'[q] = call[q])
      BY <2>2, <2>3 DEF ArtInv, ArtTyped
    <2>6. call[p].content \in blobs'
      BY <1>3 DEF Installed
    <2>7. CommitsHaveBlob'
      BY <1>1, <2>5, <2>6 DEF ArtInv, ArtStrong, CommitsHaveBlob, CallAt
    <2> QED BY <1>2, <2>4, <2>7 DEF ArtInv, ArtStrong
  <1>4. CASE UNCHANGED blobs /\ Finish(p)
    BY <1>2, <1>4 DEF WriteBlob, Finish, ArtInv, ArtTyped, ArtStrong, CommitsHaveBlob, CallAt, NoCall
  <1> QED BY <1>3, <1>4 DEF WriteBlob

\* CommitPublish: a revision and its receipt, or neither.
LEMMA CommitPublishHolds ==
  ASSUME ArtInv, NEW p \in Publishers, CommitPublish(p)
  PROVE  ArtInv'
  <1>1. call[p] \in PublishCall /\ call[p].content \in blobs
    BY DEF CommitPublish, CallAt, NoCall, ArtInv, ArtTyped, ArtStrong, CommitsHaveBlob
  <1>2. call' \in [Publishers -> {NoCall} \cup PublishCall] /\ CommitsHaveBlob'
    BY DEF CommitPublish, Finish, ArtInv, ArtTyped, ArtStrong, CommitsHaveBlob, CallAt, NoCall
  <1>3. UNCHANGED <<blobs, sets>>
    BY DEF CommitPublish
  <1>4. CASE UNCHANGED <<rows, artJournal>>
    <2>1. RecordsHold' /\ SealedIsReleased' /\ ReceiptsHold' /\ CountsAgree'
      BY <1>3, <1>4, RecordsKept
    <2>2. ArtTyped'
      BY <1>2, <1>3, <1>4 DEF ArtInv, ArtTyped
    <2> QED BY <1>2, <2>1, <2>2 DEF ArtInv, ArtStrong
  <1>5. ASSUME NEW i \in Ids, NEW c \in Contents, NEW o \in ArtOps,
               i = call[p].id, c = call[p].content, o = call[p].op,
               artJournal[o] = NoEntry, Insert(i, c, NoExecution),
               artJournal' = [artJournal EXCEPT ![o] =
                 [cmd |-> "publish", id |-> i, content |-> c, revision |-> Len(rows[i]) + 1]]
        PROVE  ArtInv'
    <2> DEFINE n == Len(rows[i]) + 1
               m == [id |-> i, revision |-> n, content |-> c, author |-> NoExecution]
               j == [cmd |-> "publish", id |-> i, content |-> c, revision |-> n]
    <2>1. NoExecution \in Authors
      BY DEF Authors
    <2>2. /\ rows' \in [Ids -> Seq(RevisionRow)]
          /\ n \in Nat /\ n \in DOMAIN rows'[i] /\ rows'[i][n].content = c
          /\ Revisions' = Revisions \cup {m} /\ m \notin Revisions
          /\ \A l \in Ids : \A k \in DOMAIN rows[l] : k \in DOMAIN rows'[l] /\ rows'[l][k] = rows[l][k]
      BY <1>5, <2>1, InsertAdds DEF ArtInv
    <2>3. RecordsHold' /\ SealedIsReleased'
      BY <1>1, <1>3, <1>5, <2>1, InsertHolds
    <2>4. j \in PublishEntry /\ j.cmd = "publish" /\ j.id = i /\ j.content = c /\ j.revision = n
      BY <2>2 DEF PublishEntry
    <2>5. m.author = NoExecution
      OBVIOUS
    <2> HIDE DEF m, j, n
    <2>6. artJournal' = [artJournal EXCEPT ![o] = j]
      BY <1>5 DEF j, n
    <2>7. ArtTyped'
      BY <1>2, <1>3, <2>2, <2>4, <2>6 DEF ArtInv, ArtTyped
    <2>8. artJournal'[o] = j /\ \A q \in ArtOps \ {o} : artJournal'[q] = artJournal[q]
      BY <2>6 DEF ArtInv, ArtTyped
    <2>9. ReceiptsHold'
      <3> SUFFICES ASSUME NEW q \in ArtOps, artJournal'[q].cmd = "publish"
                   PROVE  /\ artJournal'[q].revision \in DOMAIN rows'[artJournal'[q].id]
                          /\ rows'[artJournal'[q].id][artJournal'[q].revision].content = artJournal'[q].content
        BY DEF ReceiptsHold
      <3>1. CASE q = o
        BY <2>2, <2>4, <2>8, <3>1
      <3>2. CASE q # o
        <4>1. artJournal[q].cmd = "publish" /\ artJournal'[q] = artJournal[q]
          BY <2>8, <3>2
        <4>2. artJournal[q].id \in Ids
          BY <4>1 DEF ArtInv, ArtTyped, NoEntry, PublishEntry, ReleaseEntry
        <4> QED BY <2>2, <4>1, <4>2 DEF ArtInv, ArtStrong, ReceiptsHold
      <3> QED BY <3>1, <3>2
    <2>10. Published' = Published \cup {m} /\ m \notin Published
      BY <2>2, <2>5 DEF Published
    <2>11. PublishOps' = PublishOps \cup {o} /\ o \notin PublishOps
      BY <1>5, <2>4, <2>8 DEF PublishOps, NoEntry
    <2>12. CountsAgree'
      <3>1. /\ IsFiniteSet(Published) /\ IsFiniteSet(PublishOps)
            /\ Cardinality(Published) = Cardinality(PublishOps)
        BY DEF ArtInv, ArtStrong, CountsAgree
      <3>2. /\ IsFiniteSet(Published') /\ Cardinality(Published') = Cardinality(Published) + 1
        BY <2>10, <3>1, FS_AddElement
      <3>3. /\ IsFiniteSet(PublishOps') /\ Cardinality(PublishOps') = Cardinality(PublishOps) + 1
        BY <2>11, <3>1, FS_AddElement
      <3> QED BY <3>1, <3>2, <3>3 DEF CountsAgree
    <2> QED BY <1>2, <2>3, <2>7, <2>9, <2>12 DEF ArtInv, ArtStrong
  <1>6. call[p].id \in Ids /\ call[p].content \in Contents /\ call[p].op \in ArtOps
    BY <1>1 DEF PublishCall
  <1> QED BY <1>4, <1>5, <1>6 DEF CommitPublish, Recorded

\* RecordObservedArtifact.
LEMMA RecordObservedArtifactHolds ==
  ASSUME ArtInv, NEW e \in Executions, NEW i \in Ids, NEW c \in Contents,
         RecordObservedArtifact(e, i, c)
  PROVE  ArtInv'
  <1>1. blobs \subseteq blobs' /\ c \in blobs'
    BY DEF RecordObservedArtifact, Installed
  <1>2. UNCHANGED <<sets, artJournal, call>>
    BY DEF RecordObservedArtifact
  <1>3. CommitsHaveBlob'
    BY <1>1, <1>2 DEF ArtInv, ArtStrong, CommitsHaveBlob, CallAt
  <1>4. CASE UNCHANGED rows
    <2>1. RecordsHold' /\ SealedIsReleased' /\ ReceiptsHold' /\ CountsAgree'
      BY <1>1, <1>2, <1>4, RecordsKept
    <2>2. ArtTyped'
      BY <1>2, <1>4 DEF ArtInv, ArtTyped
    <2> QED BY <1>3, <2>1, <2>2 DEF ArtInv, ArtStrong
  <1>5. CASE Insert(i, c, e)
    <2> DEFINE m == [id |-> i, revision |-> Len(rows[i]) + 1, content |-> c, author |-> e]
    <2>1. e \in Authors /\ e # NoExecution
      BY ArtifactsAssumption DEF Authors
    <2>2. /\ rows' \in [Ids -> Seq(RevisionRow)]
          /\ Revisions' = Revisions \cup {m}
          /\ \A l \in Ids : \A k \in DOMAIN rows[l] : k \in DOMAIN rows'[l] /\ rows'[l][k] = rows[l][k]
      BY <1>5, <2>1, InsertAdds DEF ArtInv
    <2>3. RecordsHold' /\ SealedIsReleased'
      BY <1>1, <1>2, <1>5, <2>1, InsertHolds
    <2>4. m.author = e
      OBVIOUS
    <2> HIDE DEF m
    <2>5. ArtTyped'
      BY <1>2, <2>2 DEF ArtInv, ArtTyped
    <2>6. ReceiptsHold'
      <3> SUFFICES ASSUME NEW q \in ArtOps, artJournal[q].cmd = "publish"
                   PROVE  /\ artJournal[q].revision \in DOMAIN rows'[artJournal[q].id]
                          /\ rows'[artJournal[q].id][artJournal[q].revision].content = artJournal[q].content
        BY <1>2 DEF ReceiptsHold
      <3>1. artJournal[q].id \in Ids
        BY DEF ArtInv, ArtTyped, NoEntry, PublishEntry, ReleaseEntry
      <3> QED BY <2>2, <3>1 DEF ArtInv, ArtStrong, ReceiptsHold
    <2>7. Published' = Published /\ PublishOps' = PublishOps
      BY <1>2, <2>1, <2>2, <2>4 DEF Published, PublishOps
    <2>8. CountsAgree'
      BY <2>7 DEF ArtInv, ArtStrong, CountsAgree
    <2> QED BY <1>3, <2>3, <2>5, <2>6, <2>8 DEF ArtInv, ArtStrong
  <1> QED BY <1>4, <1>5 DEF RecordObservedArtifact

\* ReleaseArtifacts: a set is sealed.
LEMMA ReleaseArtifactsHolds ==
  ASSUME ArtInv, NEW o \in ArtOps, NEW ms \in SUBSET Revisions, ReleaseArtifacts(o, ms)
  PROVE  ArtInv'
  <1>1. ms \in SUBSET MemberRow
    BY RevisionsTyped DEF ArtInv
  <1>2. Marks(ms)
    BY DEF ReleaseArtifacts, Marks
  <1>3. /\ rows' \in [Ids -> Seq(RevisionRow)]
        /\ Revisions' = Revisions
        /\ \A i \in Ids :
             /\ DOMAIN rows'[i] = DOMAIN rows[i]
             /\ \A k \in DOMAIN rows[i] :
                  /\ rows'[i][k].content = rows[i][k].content
                  /\ rows[i][k].released => rows'[i][k].released
                  /\ Member(i, k) \in ms => rows'[i][k].released
    BY <1>1, <1>2, SealMarks DEF ArtInv
  <1>4. /\ UNCHANGED <<blobs, call>> /\ sets' = sets \cup {ms} /\ Sealable(ms)
        /\ artJournal[o] = NoEntry
        /\ artJournal' = [artJournal EXCEPT ![o] = [cmd |-> "release", set |-> ms]]
    BY DEF ReleaseArtifacts
  <1>5. /\ artJournal' \in [ArtOps -> {NoEntry} \cup PublishEntry \cup ReleaseEntry]
        /\ artJournal'[o].cmd = "release" /\ \A q \in ArtOps \ {o} : artJournal'[q] = artJournal[q]
    BY <1>1, <1>4 DEF ArtInv, ArtTyped, ReleaseEntry
  <1>6. ArtTyped'
    BY <1>1, <1>3, <1>4, <1>5 DEF ArtInv, ArtTyped
  <1>7. RecordsHold'
    BY <1>3, <1>4 DEF ArtInv, ArtStrong, RecordsHold, Contributor, Sealable
  <1>8. CommitsHaveBlob'
    BY <1>4 DEF ArtInv, ArtStrong, CommitsHaveBlob, CallAt
  <1>9. SealedIsReleased'
    <2>1. ASSUME NEW ns \in sets \cup {ms}, NEW x \in ns PROVE rows'[x.id][x.revision].released
      <3>1. x \in Revisions
        BY DEF ArtInv, ArtStrong, RecordsHold
      <3>2. x.id \in Ids /\ x.revision \in DOMAIN rows[x.id] /\ x = Member(x.id, x.revision)
        BY <3>1, RevisionsAre
      <3>3. x \in ms \/ rows[x.id][x.revision].released
        BY DEF ArtInv, ArtStrong, SealedIsReleased
      <3> QED BY <1>3, <3>2, <3>3
    <2> QED BY <1>4, <2>1 DEF SealedIsReleased
  <1>10. ASSUME NEW q \in ArtOps, artJournal'[q].cmd = "publish"
         PROVE  /\ artJournal[q].cmd = "publish" /\ artJournal'[q] = artJournal[q]
                /\ artJournal[q].id \in Ids
    <2>1. artJournal[q].cmd = "publish" /\ artJournal'[q] = artJournal[q]
      BY <1>5, <1>10
    <2> QED BY <2>1 DEF ArtInv, ArtTyped, NoEntry, PublishEntry, ReleaseEntry
  <1>11. ReceiptsHold'
    <2> SUFFICES ASSUME NEW q \in ArtOps, artJournal'[q].cmd = "publish"
                 PROVE  /\ artJournal'[q].revision \in DOMAIN rows'[artJournal'[q].id]
                        /\ rows'[artJournal'[q].id][artJournal'[q].revision].content = artJournal'[q].content
      BY DEF ReceiptsHold
    <2> QED BY <1>3, <1>10 DEF ArtInv, ArtStrong, ReceiptsHold
  <1>12. PublishOps' = PublishOps /\ Published' = Published
    BY <1>3, <1>4, <1>5, <1>10 DEF PublishOps, Published, NoEntry
  <1>13. CountsAgree'
    BY <1>12 DEF ArtInv, ArtStrong, CountsAgree
  <1> QED BY <1>6, <1>7, <1>8, <1>9, <1>11, <1>13 DEF ArtInv, ArtStrong

\* Steps that touch no record: a session is archived, or the process crashes.
LEMMA ArtRestHolds ==
  ASSUME ArtInv, UNCHANGED <<blobs, rows, sets, artJournal>>,
         UNCHANGED call \/ call' = [p \in Publishers |-> NoCall]
  PROVE  ArtInv'
  <1>1. RecordsHold' /\ SealedIsReleased' /\ ReceiptsHold' /\ CountsAgree'
    BY RecordsKept
  <1>2. ArtTyped' /\ CommitsHaveBlob'
    BY DEF ArtInv, ArtTyped, ArtStrong, CommitsHaveBlob, CallAt, NoCall
  <1> QED BY <1>1, <1>2 DEF ArtInv, ArtStrong

\* Every step.
LEMMA ArtInvNext == ASSUME ArtInv, [ArtNext]_artVars PROVE ArtInv'
  <1>1. CASE UNCHANGED artVars
    BY <1>1, ArtRestHolds DEF artVars
  <1>2. ASSUME NEW p \in Publishers, Publishing(p) PROVE ArtInv'
    BY <1>2, PublishArtifactHolds, WriteBlobHolds, CommitPublishHolds DEF Publishing
  <1>3. ASSUME NEW s \in Sessions, ArchiveSession(s) PROVE ArtInv'
    BY <1>3, ArtRestHolds DEF ArchiveSession
  <1>4. CASE CrashCalls
    BY <1>4, ArtRestHolds DEF CrashCalls
  <1> QED
    BY <1>1, <1>2, <1>3, <1>4, RecordObservedArtifactHolds, ReleaseArtifactsHolds DEF ArtNext

\* No step takes a revision away, or its release back.
RowsGrow ==
  \A i \in Ids : \A k \in DOMAIN rows[i] :
    k \in DOMAIN rows'[i] /\ (rows[i][k].released => rows'[i][k].released)

\* Every step keeps the revisions there are.
LEMMA RowsOnlyGrow == ASSUME ArtInv, ArtNext PROVE RowsGrow
  <1>1. CASE UNCHANGED rows
    BY <1>1 DEF RowsGrow
  <1>2. ASSUME NEW j \in Ids, NEW c \in Contents, NEW e \in Authors, Insert(j, c, e)
        PROVE  RowsGrow
    <2>1. \A i \in Ids : \A k \in DOMAIN rows[i] : k \in DOMAIN rows'[i] /\ rows'[i][k] = rows[i][k]
      BY <1>2, InsertAdds DEF ArtInv
    <2> QED BY <2>1 DEF RowsGrow
  <1>3. ASSUME NEW o \in ArtOps, NEW ms \in SUBSET Revisions, ReleaseArtifacts(o, ms)
        PROVE  RowsGrow
    <2>1. ms \in SUBSET MemberRow
      BY RevisionsTyped DEF ArtInv
    <2>2. Marks(ms)
      BY <1>3 DEF ReleaseArtifacts, Marks
    <2>3. \A i \in Ids :
            /\ DOMAIN rows'[i] = DOMAIN rows[i]
            /\ \A k \in DOMAIN rows[i] : rows[i][k].released => rows'[i][k].released
      BY <2>1, <2>2, SealMarks DEF ArtInv
    <2> QED BY <2>3 DEF RowsGrow
  <1>4. ASSUME NEW p \in Publishers, CommitPublish(p) PROVE RowsGrow
    <2>1. call[p].id \in Ids /\ call[p].content \in Contents
      BY <1>4 DEF CommitPublish, CallAt, NoCall, ArtInv, ArtTyped, PublishCall
    <2>2. NoExecution \in Authors
      BY DEF Authors
    <2> QED BY <1>1, <1>2, <1>4, <2>1, <2>2 DEF CommitPublish
  <1>5. ASSUME NEW p \in Publishers, Publishing(p) PROVE RowsGrow
    BY <1>1, <1>4, <1>5 DEF Publishing, PublishArtifact, WriteBlob
  <1>6. ASSUME NEW e \in Executions, NEW i \in Ids, NEW c \in Contents, RecordObservedArtifact(e, i, c)
        PROVE  RowsGrow
    BY <1>1, <1>2, <1>6 DEF RecordObservedArtifact, Authors
  <1> QED BY <1>1, <1>3, <1>5, <1>6 DEF ArtNext, ArchiveSession, CrashCalls

\* What a reviewer reads through a sealed set, across one step.
LEMMA ReadsStay ==
  ASSUME ArtInv, ArtNext
  PROVE  \A ms \in sets, i \in Ids : ReadReleased(ms, i)' = ReadReleased(ms, i)
  <1> SUFFICES ASSUME NEW ms \in sets, NEW i \in Ids
               PROVE  {k \in DOMAIN rows'[i] : rows'[i][k].released /\ \E x \in ms : x.id = i /\ x.revision = k}
                        = {k \in DOMAIN rows[i] : rows[i][k].released /\ \E x \in ms : x.id = i /\ x.revision = k}
    BY DEF ReadReleased
  <1>1. ASSUME NEW x \in ms, x.id = i
        PROVE  x.revision \in DOMAIN rows[i] /\ rows[i][x.revision].released
    BY <1>1, RevisionsAre DEF ArtInv, ArtStrong, RecordsHold, SealedIsReleased
  <1>2. \A k \in DOMAIN rows[i] :
          k \in DOMAIN rows'[i] /\ (rows[i][k].released => rows'[i][k].released)
    BY RowsOnlyGrow DEF RowsGrow
  <1> QED BY <1>1, <1>2

\* Only its own part moves the artifacts.
LEMMA ArtifactsAlone ==
  ASSUME [MCNext]_mcVars
  PROVE  [ArtNext]_artVars
  BY DEF MCNext, Rest, mcVars

\* The invariant gives what the run checks.
LEMMA ArtInvImplies == ASSUME ArtInv PROVE ArtifactInv
  <1>1. ASSUME NEW o \in ArtOps, artJournal[o].cmd = "publish"
        PROVE  Member(artJournal[o].id, artJournal[o].revision).content = artJournal[o].content
    BY <1>1, RevisionsAre DEF ArtInv, ArtStrong, ReceiptsHold
  <1>2. Cardinality({x \in Revisions : x.author = NoExecution})
          = Cardinality({o \in ArtOps : artJournal[o].cmd = "publish"})
    BY DEF ArtInv, ArtStrong, CountsAgree, Published, PublishOps
  <1>3. OneRevisionPerOp
    BY <1>1, <1>2 DEF OneRevisionPerOp
  <1> QED BY <1>3 DEF ArtifactInv, ArtInv, ArtStrong

\* Whatever is interleaved, retried or cut off: a revision on record has its file, a sealed set
\* is made of revisions on record, one per contributor, and an operation makes one revision.
THEOREM ArtifactsAlwaysHold == MCSpec => []ArtifactInv
  <1>1. MCInit => ArtInv
    BY ArtInvInit DEF MCInit
  <1>2. ArtInv /\ [MCNext]_mcVars => ArtInv'
    BY ArtifactsAlone, ArtInvNext
  <1>3. ArtInv => ArtifactInv
    BY ArtInvImplies
  <1> QED BY <1>1, <1>2, <1>3, PTL DEF MCSpec, mcVars

\* What a reviewer reads through a sealed set never changes, however many sets the revision is
\* sealed into afterwards and whatever is recorded.
THEOREM SealedReadsStay == MCSpec => SealedReadsAreStable
  <1>1. MCInit => ArtInv
    BY ArtInvInit DEF MCInit
  <1>2. ArtInv /\ [MCNext]_mcVars =>
          /\ ArtInv'
          /\ [\A ms \in sets, i \in Ids : ReadReleased(ms, i)' = ReadReleased(ms, i)]_artVars
    BY ArtifactsAlone, ArtInvNext, ReadsStay
  <1> QED BY <1>1, <1>2, PTL DEF MCSpec, mcVars, SealedReadsAreStable

-----------------------------------------------------------------------------
(* The tally, for every sequence of ballots: the loop is a recursive        *)
(* function on how many ballots it has taken, and what it returns is found  *)
(* by induction on that number.                                             *)

\* Induction up to n, on the set of numbers it has been shown for.
LEMMA UpToAll ==
  ASSUME NEW n \in Nat, NEW S \in SUBSET (0 .. n), 0 \in S,
         \A k \in S : k < n => k + 1 \in S
  PROVE  S = 0 .. n
  <1> DEFINE All == 0 .. n
             R == StrictSubsetOrdering(All)
             T == All \ S
             Below == {0 .. k : k \in T}
  <1> SUFFICES ASSUME T # {} PROVE FALSE
    OBVIOUS
  <1>1. FiniteSubsetsOf(All) = SUBSET All
    <2>1. IsFiniteSet(All)
      BY FS_Interval, 0 \in Int, n \in Int
    <2> HIDE DEF All
    <2> QED BY <2>1, FS_FiniteSubsetsOfFinite
  <1>2. IsWellFoundedOn(R, SUBSET All)
    BY <1>1, FS_StrictSubsetOrderingWellFounded
  <1>3. Below \subseteq SUBSET All /\ Below # {}
    <2>1. \A k \in T : 0 .. k \subseteq 0 .. n
      OBVIOUS
    <2>2. PICK k \in T : TRUE
      OBVIOUS
    <2> QED BY <2>1, <2>2
  <1>4. \E x \in Below : \A y \in Below : ~ (<<y, x>> \in R)
    <2> HIDE DEF R, Below, T, All
    <2> QED BY <1>2, <1>3, WFMin
  <1>5. PICK x \in T : \A y \in T : ~ (<<0 .. y, 0 .. x>> \in R)
    BY <1>4
  <1>6. x \in 1 .. n /\ x - 1 \in 0 .. n /\ x - 1 \notin S
    OBVIOUS
  <1>7. /\ 0 .. x - 1 \in SUBSET All /\ 0 .. x \in SUBSET All
        /\ 0 .. x - 1 \subseteq 0 .. x /\ 0 .. x - 1 # 0 .. x
    <2>1. x \in 0 .. x /\ x \notin 0 .. x - 1
      BY <1>6
    <2>2. 0 .. x - 1 \subseteq 0 .. x /\ 0 .. x \subseteq 0 .. n
      BY <1>6
    <2> QED BY <2>1, <2>2
  <1>8. <<0 .. x - 1, 0 .. x>> \in R
    <2> HIDE DEF All
    <2> QED BY <1>7 DEF StrictSubsetOrdering
  <1> QED BY <1>5, <1>6, <1>8

\* What the checks ask of a ballot whoever voted before.
Proper(b) == b.voter \in Roster /\ b.choice \in Roster \ {b.voter} /\ b.proposalSet = Sealed /\ b.reasoned

\* The first n ballots pass the loop: each is proper and nobody votes twice.
Clean(bs, n) ==
  \A i \in 1 .. n : Proper(bs[i]) /\ \A j \in 1 .. i - 1 : bs[j].voter # bs[i].voter

For(bs, n, c) == {i \in 1 .. n : bs[i].choice = c}

\* What the loop has after n ballots.
Sums(acc, bs, n) ==
  /\ acc \in [ok : BOOLEAN, seen : SUBSET Roster, out : [Roster -> Nat]]
  /\ acc.ok <=> Clean(bs, n)
  /\ acc.ok => /\ acc.seen = {bs[i].voter : i \in 1 .. n}
               /\ \A c \in Roster : acc.out[c] = Cardinality(For(bs, n, c))

\* The loop: one value for every number of ballots taken.
LEMMA CountedRuns ==
  ASSUME NEW bs \in Seq(Ballot)
  PROVE  \E g : /\ g[Len(bs)] = Counted(bs)
                /\ g[0] = NoneCounted
                /\ \A i \in 1 .. Len(bs) : g[i] = Count(g[i - 1], bs[i])
  <1> DEFINE N == Len(bs)
             Step(g, i) == IF i = 0 THEN NoneCounted ELSE Count(g[i - 1], bs[i])
             S == {m \in 0 .. N : \E g : g = [i \in 0 .. m |-> Step(g, i)]}
             f == CHOOSE g : g = [i \in 0 .. N |-> Step(g, i)]
  <1>1. N \in Nat
    BY LenProperties
  <1>2. Counted(bs) = f[N]
    BY DEF Counted
  <1> HIDE DEF N
  <1>3. 0 \in S
    <2> DEFINE g == [i \in 0 .. 0 |-> NoneCounted]
    <2>1. g = [i \in 0 .. 0 |-> Step(g, i)]
      OBVIOUS
    <2> HIDE DEF g
    <2> QED BY <1>1, <2>1
  <1>4. ASSUME NEW m \in S, m < N PROVE m + 1 \in S
    <2>1. PICK g : g = [i \in 0 .. m |-> Step(g, i)]
      OBVIOUS
    <2> DEFINE h == [i \in 0 .. m + 1 |-> IF i = m + 1 THEN Count(g[m], bs[m + 1]) ELSE g[i]]
    <2>2. m \in Nat /\ m + 1 \in 0 .. N
      BY <1>1, <1>4
    <2>3. \A i \in 0 .. m : h[i] = g[i]
      BY <2>2
    <2>4. h = [i \in 0 .. m + 1 |-> Step(h, i)]
      <3>1. ASSUME NEW i \in 0 .. m + 1 PROVE h[i] = Step(h, i)
        <4>1. CASE i = m + 1
          <5>1. h[i] = Count(g[m], bs[m + 1]) /\ i # 0 /\ i - 1 = m /\ m \in 0 .. m
            BY <2>2, <4>1
          <5>2. h[i - 1] = g[m]
            BY <2>3, <5>1
          <5> HIDE DEF h
          <5> QED BY <4>1, <5>1, <5>2
        <4>2. CASE i \in 0 .. m
          <5>1. h[i] = g[i] /\ (i # 0 => i - 1 \in 0 .. m)
            BY <2>2, <2>3, <4>2
          <5>2. i # 0 => h[i - 1] = g[i - 1]
            BY <2>3, <5>1
          <5>3. g[i] = Step(g, i)
            BY <2>1, <4>2
          <5> HIDE DEF h
          <5> QED BY <5>1, <5>2, <5>3
        <4> QED BY <2>2, <4>1, <4>2
      <3>2. h = [i \in 0 .. m + 1 |-> h[i]]
        OBVIOUS
      <3> HIDE DEF h
      <3> QED BY <3>1, <3>2
    <2> HIDE DEF h
    <2> QED BY <2>2, <2>4
  <1>5. N \in S
    <2>1. S \in SUBSET (0 .. N)
      OBVIOUS
    <2> HIDE DEF S
    <2>2. S = 0 .. N
      BY <1>1, <1>3, <1>4, <2>1, UpToAll
    <2> QED BY <1>1, <2>2
  <1>6. f = [i \in 0 .. N |-> Step(f, i)]
    BY <1>5
  <1> HIDE DEF f
  <1>7. f[0] = NoneCounted /\ \A i \in 1 .. N : f[i] = Count(f[i - 1], bs[i])
    <2>1. \A i \in 0 .. N : f[i] = Step(f, i)
      BY <1>6
    <2>2. 0 \in 0 .. N /\ \A i \in 1 .. N : i \in 0 .. N /\ i # 0
      BY <1>1
    <2> QED BY <2>1, <2>2
  <1> QED BY <1>2, <1>7 DEF N

\* One more ballot for c, or for somebody else.
LEMMA ForGrows ==
  ASSUME NEW bs, NEW n \in Nat, NEW c
  PROVE  /\ IsFiniteSet(For(bs, n, c)) /\ Cardinality(For(bs, n, c)) \in Nat
         /\ Cardinality(For(bs, n + 1, c))
              = IF bs[n + 1].choice = c THEN Cardinality(For(bs, n, c)) + 1 ELSE Cardinality(For(bs, n, c))
  <1>1. IsFiniteSet(For(bs, n, c)) /\ Cardinality(For(bs, n, c)) \in Nat
    <2>1. IsFiniteSet(1 .. n)
      BY FS_Interval, 1 \in Int, n \in Int
    <2>2. For(bs, n, c) \in SUBSET (1 .. n)
      BY DEF For
    <2> QED BY <2>1, <2>2, FS_Subset, FS_CardinalityType
  <1>2. For(bs, n + 1, c) = IF bs[n + 1].choice = c THEN For(bs, n, c) \cup {n + 1} ELSE For(bs, n, c)
    <2>1. 1 .. n + 1 = (1 .. n) \cup {n + 1}
      OBVIOUS
    <2> QED BY <2>1 DEF For
  <1>3. n + 1 \notin For(bs, n, c)
    BY DEF For
  <1> QED BY <1>1, <1>2, <1>3, FS_AddElement

\* The loop's invariant is kept by one ballot.
LEMMA CountSums ==
  ASSUME NEW bs \in Seq(Ballot), NEW n \in Nat, n < Len(bs), NEW acc, Sums(acc, bs, n)
  PROVE  Sums(Count(acc, bs[n + 1]), bs, n + 1)
  <1> DEFINE b == bs[n + 1]
             new == Count(acc, b)
  <1> SUFFICES Sums(new, bs, n + 1)
    OBVIOUS
  <1>1. /\ acc.ok \in BOOLEAN /\ acc.seen \in SUBSET Roster /\ acc.out \in [Roster -> Nat]
        /\ acc = [ok |-> acc.ok, seen |-> acc.seen, out |-> acc.out]
    BY DEF Sums
  <1>2. 1 .. n + 1 = (1 .. n) \cup {n + 1} /\ (n + 1) - 1 = n /\ n + 1 \notin 1 .. n
    OBVIOUS
  <1>3. Clean(bs, n + 1) <=> Clean(bs, n) /\ Proper(b) /\ \A j \in 1 .. n : bs[j].voter # b.voter
    BY <1>2 DEF Clean
  <1>4. ASSUME acc.ok PROVE Acceptable(b, acc.seen) <=> Proper(b) /\ \A j \in 1 .. n : bs[j].voter # b.voter
    <2>1. acc.seen = {bs[i].voter : i \in 1 .. n}
      BY <1>4 DEF Sums
    <2> HIDE DEF b
    <2> QED BY <2>1 DEF Acceptable, Proper
  <1>5. (acc.ok /\ Acceptable(b, acc.seen)) <=> Clean(bs, n + 1)
    <2>1. acc.ok <=> Clean(bs, n)
      BY DEF Sums
    <2> HIDE DEF b
    <2> QED BY <1>3, <1>4, <2>1
  <1>6. CASE ~ (acc.ok /\ Acceptable(b, acc.seen))
    <2>1. new = [ok |-> FALSE, seen |-> acc.seen, out |-> acc.out]
      <3>1. new = [acc EXCEPT !.ok = FALSE]
        BY <1>6 DEF Count
      <3> HIDE DEF new, b
      <3> QED BY <1>1, <3>1
    <2> HIDE DEF new, b
    <2> QED BY <1>1, <1>5, <1>6, <2>1 DEF Sums
  <1>7. CASE acc.ok /\ Acceptable(b, acc.seen)
    <2>1. /\ b.voter \in Roster /\ b.choice \in Roster
      BY <1>7 DEF Acceptable
    <2>2. new = [ok |-> TRUE, seen |-> acc.seen \cup {b.voter},
                 out |-> [acc.out EXCEPT ![b.choice] = acc.out[b.choice] + 1]]
      <3>1. new = [acc EXCEPT !.seen = acc.seen \cup {b.voter}, !.out[b.choice] = acc.out[b.choice] + 1]
        BY <1>7 DEF Count
      <3> HIDE DEF new, b
      <3> QED BY <1>1, <1>7, <3>1
    <2>3. acc.seen \cup {b.voter} = {bs[i].voter : i \in 1 .. n + 1}
      <3>1. acc.seen = {bs[i].voter : i \in 1 .. n}
        BY <1>7 DEF Sums
      <3> QED BY <1>2, <3>1
    <2>4. [acc.out EXCEPT ![b.choice] = acc.out[b.choice] + 1] \in [Roster -> Nat]
      <3> HIDE DEF b
      <3> QED BY <1>1, <2>1
    <2>5. ASSUME NEW c \in Roster
          PROVE  [acc.out EXCEPT ![b.choice] = acc.out[b.choice] + 1][c] = Cardinality(For(bs, n + 1, c))
      <3>1. acc.out[c] = Cardinality(For(bs, n, c))
        BY <1>7 DEF Sums
      <3>2. Cardinality(For(bs, n + 1, c)) = IF b.choice = c THEN acc.out[c] + 1 ELSE acc.out[c]
        BY <3>1, ForGrows
      <3> HIDE DEF b
      <3> QED BY <1>1, <2>1, <3>2
    <2> HIDE DEF new, b
    <2> QED BY <1>1, <1>5, <1>7, <2>1, <2>2, <2>3, <2>4, <2>5 DEF Sums
  <1> QED BY <1>6, <1>7

\* What the loop returns, for every sequence of ballots.
LEMMA CountedSums ==
  ASSUME NEW bs \in Seq(Ballot)
  PROVE  Sums(Counted(bs), bs, Len(bs))
  <1>1. PICK g : /\ g[Len(bs)] = Counted(bs)
                 /\ g[0] = NoneCounted
                 /\ \A i \in 1 .. Len(bs) : g[i] = Count(g[i - 1], bs[i])
    BY CountedRuns
  <1> DEFINE N == Len(bs)
             S == {n \in 0 .. N : Sums(g[n], bs, n)}
  <1>2. N \in Nat
    BY LenProperties
  <1>3. Sums(NoneCounted, bs, 0)
    <2>1. 1 .. 0 = {} /\ Cardinality({}) = 0
      BY FS_EmptySet
    <2> QED BY <2>1 DEF Sums, NoneCounted, Clean, For
  <1>4. 0 \in S
    BY <1>1, <1>2, <1>3
  <1>5. ASSUME NEW k \in S, k < N PROVE k + 1 \in S
    <2>1. k \in Nat /\ k + 1 \in 1 .. N /\ k + 1 \in 0 .. N /\ (k + 1) - 1 = k
      BY <1>2, <1>5
    <2>2. g[k + 1] = Count(g[k], bs[k + 1])
      BY <1>1, <2>1
    <2>3. Sums(Count(g[k], bs[k + 1]), bs, k + 1)
      BY <1>5, <2>1, CountSums
    <2> QED BY <2>1, <2>2, <2>3
  <1>6. S \in SUBSET (0 .. N) /\ N \in 0 .. N
    BY <1>2
  <1> HIDE DEF S, N
  <1>7. S = 0 .. N
    BY <1>2, <1>4, <1>5, <1>6, UpToAll
  <1> QED BY <1>1, <1>6, <1>7 DEF S, N

\* As many clean ballots as there are contributors: everybody voted.
LEMMA CleanIsComplete ==
  ASSUME NEW bs \in Seq(Ballot), Len(bs) = Cardinality(Roster)
  PROVE  Clean(bs, Len(bs)) <=> /\ {bs[i].voter : i \in 1 .. Len(bs)} = Roster
                                /\ \A i \in 1 .. Len(bs) : Proper(bs[i])
  <1> DEFINE N == Len(bs)
             D == 1 .. N
             v == [i \in D |-> bs[i].voter]
  <1>1. N \in Nat
    BY LenProperties
  <1>2. IsFiniteSet(D) /\ Cardinality(D) = Cardinality(Roster) /\ IsFiniteSet(Roster)
    BY <1>1, FS_Interval, 1 \in Int, N \in Int, BallotsAssumption
  <1>3. ASSUME Clean(bs, N) PROVE {bs[i].voter : i \in D} = Roster
    <2>1. v \in [D -> Roster] /\ \A i, j \in D : i # j => v[i] # v[j]
      BY <1>1, <1>3 DEF Clean, Proper
    <2>2. v \in Injection(D, Roster)
      <3> HIDE DEF v, D
      <3> QED BY <2>1 DEF Injection, IsInjective
    <2>3. v \in Surjection(D, Roster)
      <3> HIDE DEF v, D
      <3> QED BY <1>2, <2>2, FS_Injection
    <2>4. \A r \in Roster : \E i \in D : v[i] = r
      <3> HIDE DEF v, D
      <3> QED BY <2>3 DEF Surjection
    <2>5. \A i \in D : v[i] = bs[i].voter /\ bs[i].voter \in Roster
      BY <1>1, <1>3 DEF Clean, Proper
    <2> HIDE DEF v, D
    <2> QED BY <2>4, <2>5
  <1>4. ASSUME {bs[i].voter : i \in D} = Roster, \A i \in D : Proper(bs[i]) PROVE Clean(bs, N)
    <2>1. v \in Surjection(D, Roster)
      BY <1>4 DEF Surjection
    <2>2. v \in Injection(D, Roster)
      <3> HIDE DEF v, D
      <3> QED BY <1>2, <2>1, FS_Surjection
    <2>3. \A i, j \in D : bs[i].voter = bs[j].voter => i = j
      <3>1. \A i, j \in D : v[i] = v[j] => i = j
        <4> HIDE DEF v, D
        <4> QED BY <2>2 DEF Injection, IsInjective
      <3> QED BY <3>1
    <2>4. \A i \in D : \A j \in 1 .. i - 1 : j \in D /\ j # i
      BY <1>1
    <2> QED BY <1>4, <2>3, <2>4 DEF Clean
  <1> QED BY <1>3, <1>4 DEF Clean

\* The votes that come in are ballots.
LEMMA BallotsTyped == MCSpec => [](ballots \in Seq(Ballot))
  <1>1. MCInit => ballots \in Seq(Ballot)
    BY EmptySeq DEF MCInit, BallotInit
  <1>2. ballots \in Seq(Ballot) /\ [MCNext]_mcVars => (ballots \in Seq(Ballot))'
    BY AppendProperties DEF MCNext, Rest, mcVars, CastBallot, Submit
  <1> QED BY <1>1, <1>2, PTL DEF MCSpec, mcVars

\* Tally accepts exactly the valid votes and counts every ballot once, whatever the roster and
\* however many ballots come in, in whatever order.
THEOREM TallyAlwaysCorrect == MCSpec => []TallyCorrect
  <1>1. ASSUME ballots \in Seq(Ballot) PROVE TallyCorrect
    <2>1. CASE Len(ballots) # Cardinality(Roster)
      BY <2>1 DEF TallyCorrect, Tally, ValidVote, NoneCounted
    <2>2. CASE Len(ballots) = Cardinality(Roster)
      <3>1. Tally(ballots) = Counted(ballots) /\ DOMAIN ballots = 1 .. Len(ballots)
        BY <1>1, <2>2, LenProperties DEF Tally
      <3>2. Sums(Counted(ballots), ballots, Len(ballots))
        BY <1>1, CountedSums
      <3>3. ValidVote <=> Clean(ballots, Len(ballots))
        <4>1. ValidVote <=> /\ {ballots[i].voter : i \in 1 .. Len(ballots)} = Roster
                            /\ \A i \in 1 .. Len(ballots) : Proper(ballots[i])
          BY <2>2, <3>1 DEF ValidVote, Proper
        <4> QED BY <1>1, <2>2, <4>1, CleanIsComplete
      <3> QED BY <3>1, <3>2, <3>3 DEF TallyCorrect, Sums, For
    <2> QED BY <2>1, <2>2
  <1> QED BY <1>1, BallotsTyped, PTL
=============================================================================
