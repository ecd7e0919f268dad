------------------------------ MODULE CodexTurn ------------------------------
(***************************************************************************)
(* The codex adapter's turns in one native thread: Dispatch, the loop that *)
(* consumes a turn's notifications, cancellation, the approval responder,  *)
(* the durable attempt and launch rows, the rollout file as evidence, and  *)
(* reconciliation after an outcome was lost.                               *)
(*                                                                         *)
(* A step is one critical section, one request to the child, one call of   *)
(* the store, or one event of the child; the store may fail.  A stop       *)
(* returns when the process has exited: the caller waits in a pc of its    *)
(* own.  The rollout is a sequence of entries; the entries a turn opens    *)
(* with (context and prompt) are written at once, and only a protected     *)
(* rollout is modelled: an advisory one is not evidence.  One attestation  *)
(* is in force, or none, throughout.  Left out: the accepted               *)
(* column, usage and payloads, the observation stream, denials that are    *)
(* answered (they change no state here), and the absence redispatch: the   *)
(* attempt stays uncertain, so Dispatch refuses it (HasUnresolvedAttempts).*)
(***************************************************************************)
EXTENDS CodexServer, Sequences, SequencesExt

CONSTANTS
  MaxTurn,   \* the turns are numbered in the order of their release
  TapCap,    \* capacity of a turn's route (maxParkedPerThread)
  MaxFault   \* bound on faults: a crash of the service, a broken stream, a child that
             \* ends by itself, a request that may not be answered, a cancellation

ASSUME CodexAssumption ==
  /\ MaxTurn \in Nat /\ TapCap \in Nat \ {0} /\ MaxFault \in Nat
  /\ None \notin {"uncertain", "missing", "completed", "interrupted", "accepted", "rejected",
                  "dead"}

Turns == 1 .. MaxTurn

VARIABLES
  row,           \* row[t]: the turn, attempt and launch rows
  protected,     \* the attestation that protects the rollout is in force
  materialized,  \* the binding's materialized flag
  slot,          \* the turn that owns the thread's slot, or None
  disp,          \* disp[t]: program counter and locals of Dispatch and runTurn; live:
                 \* registered in a.turns; seen: the run knows its terminal status
  cancel,        \* cancel[t]: program counter of Cancel; "confirmed" is its one result that
                 \* is kept
  resp,          \* the request the approval responder is handling
  nat,           \* nat[t]: the native turn and the route of its notifications
  rollout,       \* the thread's rollout file
  faults

turnVars == <<row, protected, materialized, slot, disp, cancel, resp, nat, rollout, faults>>
vars == <<turnVars, serverVars>>

\* A failed native turn takes the path of a completed one.
Terminals == {"completed", "interrupted"}
NoResp == [pc |-> "none", turn |-> None]

Init ==
  /\ ServerInit
  /\ row = [t \in Turns |-> [turn |-> "queued", attempt |-> None, terminal |-> FALSE,
                             launch |-> None, bound |-> FALSE, absent |-> FALSE,
                             baseline |-> 0]]
  /\ protected \in BOOLEAN
  /\ materialized = FALSE
  /\ slot = None
  /\ disp = [t \in Turns |-> [pc |-> "none", outcome |-> None, child |-> None,
                              live |-> FALSE, seen |-> FALSE]]
  /\ cancel = [t \in Turns |-> "none"]
  /\ resp = NoResp
  /\ nat = [t \in Turns |-> [state |-> "none", tap |-> "none", queue |-> <<>>]]
  /\ rollout = <<>>
  /\ faults = 0

-----------------------------------------------------------------------------
(* Dispatch.                                                               *)

Goto(t, l) == disp' = [disp EXCEPT ![t].pc = l]
SetRow(t, r) == row' = [row EXCEPT ![t] = r]
ReleaseSlot(t) == slot' = IF slot = t THEN None ELSE slot
Fault == faults < MaxFault /\ faults' = faults + 1
Other == UNCHANGED <<cancel, resp, rollout, faults>>

\* A rejected dispatch: the supervisor records the turn as failed.
Rejected(t, r) ==
  /\ SetRow(t, [r EXCEPT !.turn = "failed"])
  /\ disp' = [disp EXCEPT ![t].pc = "done", ![t].outcome = "rejected", ![t].live = FALSE]
  /\ ReleaseSlot(t)

\* An unknown acceptance: the turn stays open and the slot stays taken.
Unknown(t, live) ==
  /\ disp' = [disp EXCEPT ![t].pc = "done", ![t].outcome = "unknown", ![t].live = live]
  /\ UNCHANGED slot

\* Slip: an attempt whose absence was verified does not block.
SlipUnresolved == \E u \in Turns : row[u].attempt = "uncertain" /\ ~row[u].absent

HasUnresolvedAttempts == \E u \in Turns : row[u].attempt = "uncertain"

\* The turn is released and its worker calls Dispatch, which reads the binding and,
\* before the slot, whether an attempt of the thread is unresolved.
Dispatch(t) ==
  /\ row[t].turn = "queued"
  /\ \A u \in Turns : row[u].turn # "open" /\ (u < t => row[u].turn # "queued")
  /\ IF HasUnresolvedAttempts
     THEN Rejected(t, row[t])
     ELSE SetRow(t, [row[t] EXCEPT !.turn = "open"]) /\ Goto(t, "slot") /\ UNCHANGED slot
  /\ Other /\ UNCHANGED <<materialized, nat>> /\ UNCHANGED serverVars

\* acquireSlot and markBusy.
AcquireSlot(t) ==
  /\ disp[t].pc = "slot"
  /\ IF slot = None
     THEN slot' = t /\ MarkBusy /\ Goto(t, "start") /\ UNCHANGED row
     ELSE Rejected(t, row[t]) /\ UNCHANGED serverVars
  /\ Other /\ UNCHANGED <<materialized, nat>>

Ineligible(t) ==
  /\ disp[t].pc = "start"
  /\ MarkIdle /\ Rejected(t, row[t])
  /\ Other /\ UNCHANGED <<materialized, nat>>

\* server.start returns the registered child, dead or alive, or launches one.  When the
\* launch fails the busy mark stays.
StartChild(t) ==
  /\ disp[t].pc = "start"
  /\ \/ /\ IF child = None THEN Launch ELSE UNCHANGED serverVars
        /\ disp' = [disp EXCEPT ![t].pc = "probe", ![t].child = child']
        /\ UNCHANGED <<row, slot>>
     \/ LaunchFails /\ Rejected(t, row[t])
  /\ Other /\ UNCHANGED <<materialized, nat>>

\* BindThread, then the resume probe, the configuration and the tool inventory.
Probe(t) ==
  /\ disp[t].pc = "probe"
  /\ \/ conn[disp[t].child] = "open" /\ Goto(t, "insert") /\ UNCHANGED serverVars
     \/ Stop /\ Goto(t, "stopping")
  /\ Other /\ UNCHANGED <<row, materialized, slot, nat>>

Stopped(t) ==
  /\ disp[t].pc = "stopping"
  /\ proc[disp[t].child] = "exited"
  /\ Rejected(t, row[t])
  /\ Other /\ UNCHANGED <<materialized, nat>> /\ UNCHANGED serverVars

\* The prompt's digest, the parameters and the baseline; then the protection class, whose
\* failure alone ends the busy mark; then the attempt is inserted.
InsertAttempt(t) ==
  /\ disp[t].pc = "insert"
  /\ \/ /\ SetRow(t, [row[t] EXCEPT !.attempt = "uncertain",
                                      !.baseline = IF materialized THEN Len(rollout) ELSE 0])
        /\ Goto(t, "reserve") /\ UNCHANGED slot /\ UNCHANGED serverVars
     \/ Rejected(t, row[t]) /\ UNCHANGED serverVars
     \/ Rejected(t, row[t]) /\ MarkIdle
  /\ Other /\ UNCHANGED <<materialized, nat>>

\* A failed reservation leaves the attempt uncertain.
ReserveLaunch(t) ==
  /\ disp[t].pc = "reserve"
  /\ \/ SetRow(t, [row[t] EXCEPT !.launch = "reserved"]) /\ Goto(t, "started")
        /\ UNCHANGED slot
     \/ Rejected(t, row[t])
  /\ Other /\ UNCHANGED <<materialized, nat>> /\ UNCHANGED serverVars

\* The launch is recorded as started and the run is registered before the request.
RecordStarted(t) ==
  /\ disp[t].pc = "started"
  /\ \/ /\ SetRow(t, [row[t] EXCEPT !.launch = "started"])
        /\ disp' = [disp EXCEPT ![t].pc = "write", ![t].live = TRUE]
        /\ UNCHANGED slot /\ UNCHANGED serverVars
     \/ MarkIdle /\ Unknown(t, FALSE) /\ UNCHANGED row
  /\ Other /\ UNCHANGED <<materialized, nat>>

\* The request reaches the child; or no byte of it was written, which is a rejection; or
\* the connection was closed already, or broke in the middle, which is not.
WriteTurnStart(t) ==
  LET g == disp[t].child IN
  /\ disp[t].pc = "write"
  /\ \/ /\ conn[g] = "open" /\ proc[g] = "up"
        /\ nat' = [nat EXCEPT ![t].state = "received"]
        /\ Goto(t, "ack") /\ UNCHANGED <<row, slot>> /\ UNCHANGED serverVars
     \/ /\ conn[g] = "done" \/ proc[g] # "up"
        /\ Rejected(t, [row[t] EXCEPT !.launch = "dead", !.attempt = "missing"])
        /\ MarkIdle /\ UNCHANGED nat
     \/ MarkIdle /\ Unknown(t, FALSE) /\ UNCHANGED <<row, nat>>
  /\ Other /\ UNCHANGED materialized

\* The child refused the turn: the launch is over and the attempt is missing.
TurnStartRefused(t) ==
  /\ disp[t].pc = "ack" /\ nat[t].state = "refused"
  /\ Rejected(t, [row[t] EXCEPT !.launch = "dead", !.attempt = "missing"])
  /\ MarkIdle
  /\ Other /\ UNCHANGED <<materialized, nat>>

\* No answer in time, the connection is gone, the boundary cannot be stored, the answer
\* has no turn id or the route cannot be installed: the turn may be running.
TurnStartUnknown(t) ==
  /\ disp[t].pc = "ack"
  /\ MarkIdle /\ Unknown(t, FALSE)
  /\ Other /\ UNCHANGED <<row, materialized, nat>>

\* The child accepted; the boundary is stored and the route installed, with the
\* notifications that were parked for it.
InstallTurnRoute(t) ==
  /\ disp[t].pc = "ack"
  /\ nat[t].state \notin {"none", "received", "refused"}
  /\ nat' = [nat EXCEPT ![t].tap = "open"]
  /\ Goto(t, "await")
  /\ Other /\ UNCHANGED <<row, materialized, slot>> /\ UNCHANGED serverVars

\* recordFirstAcceptance scans the rollout as it is now and makes that the baseline; a
\* rollout that is not there yet leaves the binding unmaterialized.
FirstAcceptance(t, r) ==
  \/ /\ ~materialized /\ rollout # <<>>
     /\ materialized' = TRUE /\ SetRow(t, [r EXCEPT !.baseline = Len(rollout)])
  \/ /\ UNCHANGED materialized /\ SetRow(t, r)

\* awaitTurnStarted takes one notification, or gives up; only turn/started binds the
\* native turn id.  The turn is accepted either way.
AwaitTurnStarted(t) ==
  /\ disp[t].pc = "await"
  /\ \/ /\ nat[t].queue # <<>>
        /\ nat' = [nat EXCEPT ![t].queue = Tail(@)]
        /\ FirstAcceptance(t, [row[t] EXCEPT !.bound = Head(nat[t].queue) = "started"])
     \/ UNCHANGED nat /\ FirstAcceptance(t, row[t])
  /\ disp' = [disp EXCEPT ![t].pc = "run", ![t].outcome = "accepted"]
  /\ Other /\ UNCHANGED slot /\ UNCHANGED serverVars

\* The id cannot be stored: the run stays registered and nothing consumes its route.
BindFails(t) ==
  /\ disp[t].pc = "await"
  /\ nat[t].queue # <<>> /\ Head(nat[t].queue) = "started"
  /\ nat' = [nat EXCEPT ![t].queue = Tail(@)]
  /\ MarkIdle /\ Unknown(t, TRUE)
  /\ Other /\ UNCHANGED <<row, materialized>>

-----------------------------------------------------------------------------
(* The turn loop.                                                          *)

\* CorrelateRolloutTurn over the entries past the attempt's baseline.
RolloutTail(t) == SubSeq(rollout, row[t].baseline + 1, Len(rollout))
Opens(e) == e.kind \in {"open", "drift"}
Opening(t) == SelectInSeq(RolloutTail(t), Opens)
Drift(t) == Opening(t) # 0 /\ RolloutTail(t)[Opening(t)].kind = "drift"
Matches(t) == Opening(t) # 0 /\ RolloutTail(t)[Opening(t)] = [turn |-> t, kind |-> "open"]
TaskComplete(t) ==
  LET tail == RolloutTail(t)
      Ends(e) == e.kind = "completed"
      i == SelectInSeq(SubSeq(tail, Opening(t) + 1, Len(tail)), Ends)
  IN  IF Matches(t) /\ i # 0 THEN tail[Opening(t) + i].kind ELSE None

\* What a terminal notification does: an unreadable one, or one that cannot be stored,
\* leaves the attempt uncertain; a protected turn needs its rollout confirmed, and drift in
\* it ends the child.
Terminal(t, status) ==
  \/ /\ status = "interrupted" \/ ~protected \/ (materialized /\ ~Drift(t))
     /\ ~row[t].terminal
     /\ SetRow(t, [row[t] EXCEPT !.terminal = TRUE, !.attempt = status])
     /\ Goto(t, "notify") /\ UNCHANGED serverVars
  \/ /\ Goto(t, "finish") /\ UNCHANGED row /\ UNCHANGED serverVars
  \/ /\ status = "completed" /\ protected /\ materialized /\ Drift(t)
     /\ SetRow(t, [row[t] EXCEPT !.attempt = "uncertain"])
     /\ Stop /\ Goto(t, "finish")

\* Slip: a child that ends is taken for the end of its turn.
SlipConsume(t) ==
  /\ disp[t].pc = "run"
  /\ nat[t].queue = <<>> /\ conn[disp[t].child] = "done" /\ ~row[t].terminal
  /\ SetRow(t, [row[t] EXCEPT !.terminal = TRUE, !.attempt = "completed"])
  /\ Goto(t, "notify")
  /\ Other /\ UNCHANGED <<materialized, slot, nat>> /\ UNCHANGED serverVars

Consume(t) ==
  /\ disp[t].pc = "run"
  /\ \/ /\ nat[t].queue # <<>>
        /\ nat' = [nat EXCEPT ![t].queue = Tail(@)]
        /\ IF Head(nat[t].queue) = "started"
           THEN UNCHANGED <<row, disp>> /\ UNCHANGED serverVars
           ELSE Terminal(t, Head(nat[t].queue))
     \* The connection is done and the route is drained.
     \/ /\ nat[t].queue = <<>> /\ conn[disp[t].child] = "done"
        /\ SetRow(t, [row[t] EXCEPT !.launch = "dead"])
        /\ Goto(t, "finish") /\ UNCHANGED nat /\ UNCHANGED serverVars
  /\ Other /\ UNCHANGED <<materialized, slot>>

NotifyTerminal(t) ==
  /\ disp[t].pc = "notify"
  /\ disp' = [disp EXCEPT ![t].pc = "finish", ![t].seen = TRUE]
  /\ Other /\ UNCHANGED <<row, materialized, slot, nat>> /\ UNCHANGED serverVars

\* finishTurn: the route, the registration and the slot go; then the session is idle.
FinishTurn(t) ==
  /\ disp[t].pc = "finish"
  /\ disp' = [disp EXCEPT ![t].pc = "idle", ![t].live = FALSE]
  /\ nat' = [nat EXCEPT ![t].tap = "closed", ![t].queue = <<>>]
  /\ ReleaseSlot(t)
  /\ Other /\ UNCHANGED <<row, materialized>> /\ UNCHANGED serverVars

FinishIdle(t) ==
  /\ disp[t].pc = "idle"
  /\ MarkIdle /\ Goto(t, "done")
  /\ Other /\ UNCHANGED <<row, materialized, slot, nat>>

\* The supervisor collects the verdict of an accepted turn.
TurnVerdict(status) == IF status = "interrupted" THEN "cancelled" ELSE status
Collect(t) ==
  /\ disp[t].outcome = "accepted" /\ row[t].turn = "open"
  /\ row[t].terminal /\ row[t].bound /\ row[t].attempt \in Terminals
  /\ SetRow(t, [row[t] EXCEPT !.turn = TurnVerdict(row[t].attempt)])
  /\ Other /\ UNCHANGED <<materialized, slot, disp, nat>> /\ UNCHANGED serverVars

-----------------------------------------------------------------------------
(* Cancel.                                                                 *)

CancelTo(t, l) == cancel' = [cancel EXCEPT ![t] = l]
Calling == UNCHANGED <<row, materialized, slot, disp, resp, nat, rollout>>
CancelEnd(t) ==
  CancelTo(t, IF disp[t].seen /\ row[t].attempt = "interrupted" THEN "confirmed" ELSE "none")

\* The interrupt needs a registered run with a route and no terminal yet; a call that the
\* child refuses or does not answer leaves no trace here.
TurnInterrupt(t) ==
  /\ cancel[t] = "none"
  /\ disp[t].live /\ nat[t].tap = "open" /\ ~disp[t].seen
  /\ conn[disp[t].child] = "open"
  /\ CancelTo(t, "waiting")
  /\ Fault /\ Calling /\ UNCHANGED serverVars

CancelWait(t) ==
  /\ cancel[t] = "waiting"
  /\ \/ disp[t].seen /\ CancelEnd(t)
     \/ (nat[t].tap = "closed" \/ conn[disp[t].child] = "done") /\ CancelEnd(t)
     \* The caller went away.
     \/ CancelTo(t, "none")
  /\ Calling /\ UNCHANGED faults /\ UNCHANGED serverVars

\* No terminal within the grace: the child is stopped.
CancelGrace(t) ==
  /\ cancel[t] = "waiting"
  /\ CancelTo(t, "stopping") /\ Stop
  /\ Calling /\ UNCHANGED faults

CancelStopped(t) ==
  /\ cancel[t] = "stopping"
  /\ proc[disp[t].child] = "exited"
  /\ CancelEnd(t)
  /\ Calling /\ UNCHANGED faults /\ UNCHANGED serverVars

-----------------------------------------------------------------------------
(* The approval responder, for a request it may not answer.                *)

Responding == UNCHANGED <<materialized, slot, disp, cancel, nat, rollout>>

\* The run of the thread is looked up and its terminal status read.
HandleRequest(t) ==
  /\ resp = NoResp
  /\ nat[t].state = "running" /\ conn[disp[t].child] = "open"
  /\ resp' = IF disp[t].live /\ ~disp[t].seen THEN [pc |-> "classify", turn |-> t]
             ELSE [pc |-> "stop", turn |-> t]
  /\ Fault /\ Responding /\ UNCHANGED row /\ UNCHANGED serverVars

\* SetCodexAttemptObservedStatus has no guard.
ClassifyUncertain ==
  /\ resp.pc = "classify"
  /\ SetRow(resp.turn, [row[resp.turn] EXCEPT !.attempt = "uncertain"])
  /\ resp' = [resp EXCEPT !.pc = "stop"]
  /\ Responding /\ UNCHANGED faults /\ UNCHANGED serverVars

FailRequest ==
  /\ resp.pc = "stop"
  /\ resp' = NoResp /\ Stop
  /\ Responding /\ UNCHANGED faults /\ UNCHANGED row

-----------------------------------------------------------------------------
(* Reconcile.                                                              *)

Unchanged(t) == Len(rollout) = row[t].baseline
CanVerify(t) == protected /\ materialized /\ ~row[t].terminal

\* Verified absence: the launch is dead and the rollout is at the baseline.
VerifyAbsence(t) ==
  /\ CanVerify(t) /\ row[t].launch = "dead" /\ Unchanged(t)
  /\ ~row[t].absent
  /\ SetRow(t, [row[t] EXCEPT !.absent = TRUE, !.turn = "failed"])

Reconstruct(t) ==
  /\ CanVerify(t) /\ ~(row[t].launch = "dead" /\ Unchanged(t))
  /\ TaskComplete(t) # None
  /\ SetRow(t, [row[t] EXCEPT !.terminal = TRUE, !.attempt = TaskComplete(t),
                              !.turn = TaskComplete(t)])

\* A controller reconciles an open turn that is not live in the adapter.  A committed
\* terminal stands; a recorded refusal is a definite absence; anything else is uncertain
\* and changes nothing.  (A downgraded status is reported as completed.)
Reconcile(t) ==
  /\ row[t].turn = "open" /\ ~disp[t].live /\ row[t].attempt # None
  /\ \/ /\ row[t].terminal
        /\ SetRow(t, [row[t] EXCEPT !.turn = IF row[t].attempt \in Terminals
                                             THEN TurnVerdict(row[t].attempt)
                                             ELSE "completed"])
     \/ VerifyAbsence(t)
     \/ Reconstruct(t)
     \/ /\ ~row[t].terminal /\ row[t].attempt = "missing"
        /\ SetRow(t, [row[t] EXCEPT !.turn = "failed"])
  /\ Other /\ UNCHANGED <<materialized, slot, disp, nat>> /\ UNCHANGED serverVars

-----------------------------------------------------------------------------
(* The child, and the crash of the service.                                *)

NativeOnly == UNCHANGED <<row, materialized, slot, disp, cancel, resp, faults>>
ProcessUp(t) == disp[t].child # None /\ proc[disp[t].child] \in {"up", "ending"}

\* One notification of turn t: to its route, to the park buffer before there is one, and
\* nowhere once the route is gone.  A full route is closed and deleted.
Deliver(t, state, n) ==
  nat' = [nat EXCEPT ![t].state = state,
            ![t].queue = IF conn[disp[t].child] # "open" \/ nat[t].tap = "closed" THEN @
                         ELSE IF nat[t].tap = "open" /\ Len(@) >= TapCap THEN @
                         ELSE Append(@, n),
            ![t].tap = IF @ = "open" /\ Len(nat[t].queue) >= TapCap
                          /\ conn[disp[t].child] = "open" THEN "closed" ELSE @]

NativeRefuses(t) ==
  /\ nat[t].state = "received" /\ ProcessUp(t)
  /\ nat' = [nat EXCEPT ![t].state = "refused"]
  /\ NativeOnly /\ UNCHANGED rollout /\ UNCHANGED serverVars

NativeAccepts(t) ==
  /\ nat[t].state = "received" /\ ProcessUp(t)
  /\ Deliver(t, "running", "started")
  /\ NativeOnly /\ UNCHANGED rollout /\ UNCHANGED serverVars

\* The opening entries are written some time after the turn was accepted, and before the
\* record of its end.
Opened(t) == \E i \in DOMAIN rollout : rollout[i].turn = t
OpeningEntries(t) == IF Opened(t) THEN {<<>>} ELSE {<<[turn |-> t, kind |-> k]>> : k \in {"open", "drift"}}

RolloutOpens(t) ==
  /\ nat[t].state = "running" /\ ProcessUp(t) /\ protected /\ ~Opened(t)
  /\ \E o \in OpeningEntries(t) : rollout' = rollout \o o
  /\ NativeOnly /\ UNCHANGED nat /\ UNCHANGED serverVars

NativeEnds(t) ==
  /\ nat[t].state = "running" /\ ProcessUp(t)
  /\ \E s \in Terminals :
       /\ Deliver(t, s, s)
       /\ IF s = "interrupted" \/ ~protected THEN UNCHANGED rollout
          ELSE \E o \in OpeningEntries(t) : rollout' = rollout \o Append(o, [turn |-> t, kind |-> s])
  /\ NativeOnly /\ UNCHANGED serverVars

Crash ==
  /\ Fault
  /\ ServerCrash
  /\ slot' = None
  /\ resp' = NoResp
  /\ disp' = [t \in Turns |-> IF disp[t].pc = "none" THEN disp[t]
                              ELSE [disp[t] EXCEPT !.pc = "done", !.live = FALSE,
                                                   !.outcome = IF @ = None THEN "lost" ELSE @]]
  /\ cancel' = [t \in Turns |-> IF cancel[t] = "confirmed" THEN "confirmed" ELSE "none"]
  /\ nat' = [t \in Turns |-> [nat[t] EXCEPT !.tap = "closed", !.queue = <<>>]]
  /\ UNCHANGED <<row, materialized, rollout>>

\* The app-server manager's own steps.
Background ==
  /\ \/ (TimerFires \/ Park) /\ UNCHANGED faults
     \/ \E g \in Gens : \/ (Poison(g) \/ Exit(g, "ending")) /\ UNCHANGED faults
                        \/ (StreamBreaks(g) \/ Exit(g, "up")) /\ Fault
  /\ UNCHANGED <<row, materialized, slot, disp, cancel, resp, nat, rollout>>

DispatchStep(t) ==
  \/ Dispatch(t) \/ AcquireSlot(t) \/ Ineligible(t) \/ StartChild(t) \/ Probe(t)
  \/ Stopped(t) \/ InsertAttempt(t) \/ ReserveLaunch(t) \/ RecordStarted(t)
  \/ WriteTurnStart(t) \/ TurnStartRefused(t) \/ TurnStartUnknown(t)
  \/ InstallTurnRoute(t) \/ AwaitTurnStarted(t) \/ BindFails(t)

RunStep(t) == Consume(t) \/ NotifyTerminal(t) \/ FinishTurn(t) \/ FinishIdle(t)

CancelStep(t) == TurnInterrupt(t) \/ CancelWait(t) \/ CancelGrace(t) \/ CancelStopped(t)

NativeStep(t) == NativeRefuses(t) \/ NativeAccepts(t) \/ NativeEnds(t) \/ RolloutOpens(t)

Next ==
  \/ \E t \in Turns :
       \/ DispatchStep(t) \/ RunStep(t) \/ Collect(t) \/ CancelStep(t)
       \/ HandleRequest(t) \/ Reconcile(t) \/ NativeStep(t)
  \/ ClassifyUncertain
  \/ FailRequest
  \/ Background
  \/ Crash

Spec == Init /\ [][Next /\ UNCHANGED protected]_vars

-----------------------------------------------------------------------------
(* Properties.                                                             *)

\* A rejected dispatch never runs: the child did not get the turn or refused it, and it
\* cannot still accept it (classifyTurnStartFailure).
RejectedNeverRuns ==
  \A t \in Turns : disp[t].outcome = "rejected" => nat[t].state \in {"none", "refused"}

\* A verdict that the adapter commits for a turn is the one the child reached, and it is
\* not committed before (handleTurnNotification, reconcileProtected).
VerdictIsNative ==
  \A t \in Turns : row[t].terminal /\ row[t].attempt \in Terminals
                     => nat[t].state = row[t].attempt

\* No two native turns of the thread are under way at once, also across the children a
\* parked, stopped or crashed one is replaced by.
Active(t) == nat[t].state \in {"received", "running"} /\ ProcessUp(t)
OneTurnPerThread == \A t, u \in Turns : Active(t) /\ Active(u) => t = u

\* A confirmed cancellation has a verified interrupted terminal behind it (Cancel).
ConfirmedIsInterrupted ==
  \A t \in Turns : cancel[t] = "confirmed" => nat[t].state = "interrupted"

\* Verified absence proves that the rollout absorbed nothing of the attempt
\* (reconcileProtected).
AbsentTookNothing == \A t \in Turns : row[t].absent => ~Opened(t)

\* What the children have running of a turn, whether the model has its prompt, and what the
\* service was told of it: by a rejection, by Collect or by Reconcile, which says "completed"
\* of a terminal whose status was downgraded.  Verified absence is told too and is not an
\* answer here: the prompt may have been given and the child may still work on it, see
\* AbsentTookNothing.
WorkOn(t) ==
  IF nat[t].state = "none" THEN "none" ELSE IF Active(t) THEN "running" ELSE "over"
GivenTo(t) == nat[t].state \in {"running"} \cup Terminals
Told == {"completed", "cancelled"}
AnswerTo(t) ==
  IF row[t].turn \in Told THEN row[t].turn
  ELSE IF row[t].turn = "failed" /\ ~row[t].absent THEN "absent"
  ELSE "none"

Native == INSTANCE NativeTurns WITH
  Verdicts <- Told,
  work <- [t \in Turns |-> WorkOn(t)],
  given <- [t \in Turns |-> GivenTo(t)],
  answer <- [t \in Turns |-> AnswerTo(t)]

=============================================================================
