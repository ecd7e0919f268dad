------------------------------- MODULE AgyTurn -------------------------------
(***************************************************************************)
(* The agy adapter's turns: one sealed child per turn in one native        *)
(* conversation, the durable attempt and launch rows, cancellation by an   *)
(* interrupt that escalates to a kill, and the controller's disposition of *)
(* an attempt whose outcome is unknown.                                    *)
(*                                                                         *)
(* A step is one critical section, one call of the store or the executor,  *)
(* or one event of the child; every store call may fail.  Kill and wait    *)
(* return once the child is reaped, so a kill is one step.  The checks of  *)
(* profile, launch, toolkit and sign-in that precede the reservation pass  *)
(* or refuse.  A crash leaves the child running ("orphan"); a controller   *)
(* that abandons an attempt of an earlier instance states that its child   *)
(* is retired.  Left out: columns nothing reads back here (the boundary's  *)
(* time, an orphan conversation's id, exit codes, tool verification), the  *)
(* binding's materialized flag and the event taps.                         *)
(***************************************************************************)
EXTENDS Naturals

CONSTANTS
  MaxTurn,             \* the turns are numbered in the order of their release
  None,
  InterruptSupported,  \* the platform has SIGINT
  MaxInstance          \* bound on service instances

AgyTurns == 1 .. MaxTurn

VARIABLES
  row,      \* row[t]: the turn, attempt and launch rows
  slot,     \* the turn that owns the conversation's slot, or None
  worker,   \* the turns with a worker in the coordinator
  pc,       \* pc[t]: program counter of the release, Dispatch and supervisor
  run,      \* run[t]: program counter and locals of runTurn
  cancel,   \* cancel[t]: flag is cancelRequested; sending and grace are the
            \* interrupt under way and the timer it arms
  early,    \* the turns a disposition request found without a worker although one
            \* is about to be registered
  child,    \* child[t]: the process, and the history of what it got and said
  instance

vars == <<row, slot, worker, pc, run, cancel, early, child, instance>>

Verdicts == {"completed", "failed", "cancelled"}
Events == {"accept", "ok", "error", "interrupted", "foreign", "other", "malformed"}
Results == {"ok", "error", "interrupted"}

NoRun == [pc |-> "none", accepted |-> "no", result |-> None, bound |-> FALSE]
NoCancel == [flag |-> FALSE, sending |-> FALSE, grace |-> FALSE]

Init ==
  /\ row = [t \in AgyTurns |-> [turn |-> "queued", attempt |-> None, disposed |-> FALSE,
                                launch |-> None, accepted |-> FALSE]]
  /\ slot = None
  /\ worker = {}
  /\ pc = [t \in AgyTurns |-> "none"]
  /\ run = [t \in AgyTurns |-> NoRun]
  /\ cancel = [t \in AgyTurns |-> NoCancel]
  /\ early = {}
  /\ child = [t \in AgyTurns |-> [state |-> "none", got |-> FALSE, said |-> {}]]
  /\ instance = 1

-----------------------------------------------------------------------------
(* Release and Dispatch.                                                   *)

Goto(t, l) == pc' = [pc EXCEPT ![t] = l]
ReleaseSlot(t) == slot' = IF slot = t THEN None ELSE slot
Reject(t) == ReleaseSlot(t) /\ Goto(t, "reject") /\ UNCHANGED worker
WorkerEnds(t) == Goto(t, "gone") /\ worker' = worker \ {t}
SetRow(t, r) == row' = [row EXCEPT ![t] = r]
Dispatching == UNCHANGED <<run, cancel, early, instance>>

\* ReleaseTurn commits: no other turn of the session is running.
ReleaseTurn(t) ==
  /\ row[t].turn = "queued"
  /\ \A u \in AgyTurns : row[u].turn # "running" /\ (u < t => row[u].turn # "queued")
  /\ SetRow(t, [row[t] EXCEPT !.turn = "running"])
  /\ Goto(t, "register")
  /\ Dispatching /\ UNCHANGED <<slot, worker, child>>

\* The worker is registered after the commit; a stopping service refuses it.
RegisterWorker(t) ==
  /\ pc[t] = "register"
  /\ \/ worker' = worker \cup {t} /\ Goto(t, "dispatch")
     \/ Goto(t, "gone") /\ UNCHANGED worker
  /\ Dispatching /\ UNCHANGED <<row, slot, child>>

\* The binding, the required tools and the latest attempt are read before the
\* slot is tried.  The slot of another attempt refuses: nothing waits for it.
AcquireSlot(t) ==
  /\ pc[t] = "dispatch"
  /\ \/ slot = None /\ slot' = t /\ Goto(t, "unresolved")
     \/ Goto(t, "reject") /\ UNCHANGED slot
  /\ Dispatching /\ UNCHANGED <<row, worker, child>>

\* An uncertain attempt blocks the conversation until a disposition is recorded.
HasUnresolvedAttempts == \E u \in AgyTurns : row[u].attempt = "uncertain" /\ ~row[u].disposed

CheckUnresolved(t) ==
  /\ pc[t] = "unresolved"
  /\ \/ ~HasUnresolvedAttempts /\ Goto(t, "gates") /\ UNCHANGED <<slot, worker>>
     \/ Reject(t)
  /\ Dispatching /\ UNCHANGED <<row, child>>

\* Eligibility, the launch request and its validation, the toolkit's state and
\* the models sign-in gate.
Gates(t) ==
  /\ pc[t] = "gates"
  /\ \/ Goto(t, "insert") /\ UNCHANGED <<slot, worker>>
     \/ Reject(t)
  /\ Dispatching /\ UNCHANGED <<row, child>>

\* The attempt and its only launch are one transaction.
InsertAttemptAndReserve(t) ==
  /\ pc[t] = "insert"
  /\ \/ /\ row[t].attempt = None
        /\ SetRow(t, [row[t] EXCEPT !.attempt = "uncertain", !.launch = "reserved"])
        /\ Goto(t, "start")
        /\ UNCHANGED <<slot, worker>>
     \/ Reject(t) /\ UNCHANGED row
  /\ Dispatching /\ UNCHANGED child

StartChild(t) ==
  /\ pc[t] = "start"
  /\ \/ child' = [child EXCEPT ![t].state = "up"] /\ Goto(t, "started")
     \/ Goto(t, "start_failed") /\ UNCHANGED child
  /\ Dispatching /\ UNCHANGED <<row, slot, worker>>

\* No process: the attempt is missing, atomically with the launch's state.
RecordStartFailed(t) ==
  /\ pc[t] = "start_failed"
  /\ \/ /\ SetRow(t, [row[t] EXCEPT !.launch = "start_failed",
                                    !.attempt = IF @ = "uncertain" THEN "missing" ELSE @])
        /\ Reject(t)
     \/ ReleaseSlot(t) /\ WorkerEnds(t) /\ UNCHANGED row
  /\ Dispatching /\ UNCHANGED child

RecordStarted(t) ==
  /\ pc[t] = "started"
  /\ \/ SetRow(t, [row[t] EXCEPT !.launch = "started"]) /\ Goto(t, "init")
     \/ Goto(t, "abort") /\ UNCHANGED row
  /\ Dispatching /\ UNCHANGED <<slot, worker, child>>

\* init must name the bound conversation, model, mode, directory and tools
\* before a byte is written.
VerifyInit(t) ==
  /\ pc[t] = "init"
  /\ \/ child[t].state = "up" /\ Goto(t, "write") /\ UNCHANGED row
     \/ Goto(t, "abort") /\ UNCHANGED row
  /\ Dispatching /\ UNCHANGED <<slot, worker, child>>

\* The first byte is the boundary: before it a failed write aborts, after it the
\* run owns the outcome whatever fails.
WriteFirstByte(t) ==
  /\ pc[t] = "write"
  /\ \/ /\ child[t].state = "up"
        /\ child' = [child EXCEPT ![t].got = TRUE]
        /\ Goto(t, "publish")
     \/ Goto(t, "abort") /\ UNCHANGED child
  /\ Dispatching /\ UNCHANGED <<row, slot, worker>>

\* The run is published; the dispatch is accepted only if the whole prompt was
\* written, the boundary was recorded and stdin is closed.  From here Collect
\* refuses an early disposition.
PublishRun(t) ==
  /\ pc[t] = "publish"
  /\ run' = [run EXCEPT ![t].pc = "read"]
  /\ \/ Goto(t, "collect") /\ UNCHANGED worker
     \/ WorkerEnds(t)
  /\ early' = early \ {t}
  /\ UNCHANGED <<row, slot, cancel, child, instance>>

\* Slip: the abort does not kill the child.
SlipAbortKill(t) ==
  /\ pc[t] = "abort"
  /\ row' \in {row, [row EXCEPT ![t].launch = "dead"]}
  /\ Goto(t, "missing")
  /\ Dispatching /\ UNCHANGED <<slot, worker, child>>

\* abortPreWrite: kill and wait, launch dead, attempt missing.
AbortKill(t) ==
  /\ pc[t] = "abort"
  /\ child' = [child EXCEPT ![t].state = "gone"]
  /\ row' \in {row, [row EXCEPT ![t].launch = "dead"]}
  /\ Goto(t, "missing")
  /\ Dispatching /\ UNCHANGED <<slot, worker>>

\* The rejection is reported only when the evidence for it is durable.
AbortMissing(t) ==
  /\ pc[t] = "missing"
  /\ \/ /\ row[t].attempt = "uncertain"
        /\ SetRow(t, [row[t] EXCEPT !.attempt = "missing"])
        /\ Reject(t)
     \/ ReleaseSlot(t) /\ WorkerEnds(t) /\ UNCHANGED row
  /\ Dispatching /\ UNCHANGED child

DispatchStep(t) ==
  \/ ReleaseTurn(t) \/ RegisterWorker(t) \/ AcquireSlot(t) \/ CheckUnresolved(t) \/ Gates(t)
  \/ InsertAttemptAndReserve(t) \/ StartChild(t) \/ RecordStartFailed(t) \/ RecordStarted(t)
  \/ VerifyInit(t) \/ WriteFirstByte(t) \/ PublishRun(t) \/ AbortKill(t) \/ AbortMissing(t)

-----------------------------------------------------------------------------
(* The supervisor, the recovery command and the disposition request.       *)

Observing == UNCHANGED <<slot, run, cancel, child, instance>>

Record(t, v) == SetRow(t, [row[t] EXCEPT !.turn = IF @ = "running" THEN v ELSE @])

\* A rejected dispatch is a failed turn, unless the store refuses the outcome.
RecordRejected(t) ==
  /\ pc[t] = "reject"
  /\ WorkerEnds(t)
  /\ Record(t, "rejected") \/ UNCHANGED row
  /\ Observing /\ UNCHANGED early

\* a.turns holds the run.
Live(t) == run[t].pc \notin {"none", "over"}

\* What Collect and Reconcile say of an attempt: its verdict, that it is missing,
\* or nothing.
Evidence(t) ==
  CASE row[t].attempt \in Verdicts -> row[t].attempt
    [] row[t].attempt = "missing" -> "rejected"
    [] OTHER -> None

\* collectUntilTerminal ends with evidence, with a turn another path resolved, or
\* with an error.
CollectUntilTerminal(t) ==
  /\ pc[t] = "collect"
  /\ WorkerEnds(t)
  /\ \/ Evidence(t) # None /\ Record(t, Evidence(t))
     \/ UNCHANGED row
  /\ Observing /\ UNCHANGED early

\* Reconcile, or a Cancel that waited for the run to end, and the commit of what it
\* answers.  Evidence once recorded never changes, so reading and committing are
\* one step.
Reconcile(t) ==
  /\ row[t].turn = "running"
  /\ ~Live(t)
  /\ Evidence(t) # None
  /\ Record(t, Evidence(t))
  /\ Observing /\ UNCHANGED <<worker, pc, early>>

Retired(t) == row[t].launch \in {"dead", "start_failed"}

\* A turn with a local worker must show that its launch has retired.  A request
\* that reads the workers before this one is registered passes.
DisposeBeforeWorker(t) ==
  /\ pc[t] = "register"
  /\ early' = early \cup {t}
  /\ Observing /\ UNCHANGED <<row, worker, pc>>

WorkerRetired(t) == t \in worker => Retired(t) \/ t \in early

\* Then Collect must not find a live run, and the transaction an uncertain attempt.
\* Once a worker has left or its launch has retired no later step makes the attempt
\* live again, so but for an early request the three reads are one step.
ResolveTurnUncertainty(t) ==
  /\ row[t].turn = "running" /\ row[t].attempt = "uncertain" /\ ~row[t].disposed
  /\ child[t].state # "orphan"
  /\ WorkerRetired(t)
  /\ ~Live(t)
  /\ SetRow(t, [row[t] EXCEPT !.disposed = TRUE, !.turn = "abandoned"])
  /\ early' = early \ {t}
  /\ Observing /\ UNCHANGED <<worker, pc>>

-----------------------------------------------------------------------------
(* The child, runTurn and Cancel.                                          *)

Running == UNCHANGED <<worker, pc, early, instance>>

ChildExit(t) ==
  /\ child[t].state \in {"up", "orphan"}
  /\ child' = [child EXCEPT ![t].state = "gone"]
  /\ Running /\ UNCHANGED <<row, slot, run, cancel>>

\* Slip: a second event after the result is ignored.
SlipDrifts(r, e) == e \in {"foreign", "other"}

\* What poisons a run: anything after the result, another conversation's id, an
\* event of an unexpected kind.
Drifts(r, e) == r.result # None \/ e \in {"foreign", "other"}

\* The child with one more event read from it, killed when killed.  The history
\* keeps "bad" for an event out of place and every one after it, and is dropped
\* when a run ends without a verdict.
Said(t, e, killed) ==
  child' = [child EXCEPT
    ![t].said = IF run[t].result # None \/ e \in {"foreign", "other", "malformed"} \/ "bad" \in @
                THEN {"bad"} ELSE @ \cup {e},
    ![t].state = IF killed THEN "gone" ELSE @]

\* One event.  The first user_input DONE is recorded as the acceptance.
ReadEvent(t, e) ==
  /\ run[t].pc = "read"
  /\ run[t].result # "drift"
  /\ e # "malformed"
  /\ Said(t, e, Drifts(run[t], e))
  /\ \/ /\ Drifts(run[t], e)
        /\ run' = [run EXCEPT ![t].result = "drift"]
        /\ UNCHANGED row
     \/ /\ ~Drifts(run[t], e)
        /\ \/ /\ e = "accept" /\ run[t].accepted = "no"
              /\ \/ /\ row' = [row EXCEPT ![t].accepted = TRUE]
                    /\ run' = [run EXCEPT ![t].accepted = "yes"]
                 \/ /\ run' = [run EXCEPT ![t].accepted = "error"]
                    /\ UNCHANGED row
           \/ e = "accept" /\ run[t].accepted # "no" /\ UNCHANGED <<row, run>>
           \/ e \in Results /\ run' = [run EXCEPT ![t].result = e] /\ UNCHANGED row
  /\ Running /\ UNCHANGED <<slot, cancel>>

\* A line the decoder refuses ends the reader and the child.
ReadMalformed(t) ==
  /\ run[t].pc = "read"
  /\ Said(t, "malformed", TRUE)
  /\ run' = [run EXCEPT ![t].pc = "settle", ![t].result = "drift"]
  /\ Running /\ UNCHANGED <<row, slot, cancel>>

\* Stdout ends; a reader the kill detached reports an error or a plain end.
ReadEnd(t) ==
  /\ run[t].pc = "read"
  /\ child[t].state = "gone"
  /\ run' \in {[run EXCEPT ![t].pc = "settle", ![t].result = e] : e \in {run[t].result, "drift"}}
  /\ Running /\ UNCHANGED <<row, slot, cancel, child>>

\* The evidence a verdict needs.
Verified(r) == r.accepted # "error" /\ r.result \in Results

\* "interrupted" is a cancellation only when Council asked for it.
Verdict(t) ==
  CASE run[t].result = "ok" -> "completed"
    [] run[t].result = "interrupted" /\ cancel[t].flag -> "cancelled"
    [] OTHER -> "failed"

\* settle: the child is gone, killed if it lingered, and the launch is dead; then
\* the outcome, which stderr's markers may spoil too.
Settle(t) ==
  /\ run[t].pc = "settle"
  /\ child' = [child EXCEPT ![t].state = "gone"]
  /\ row' \in {row, [row EXCEPT ![t].launch = "dead"]}
  /\ \/ Verified(run[t]) /\ run' = [run EXCEPT ![t].pc = Verdict(t)]
     \/ run' = [run EXCEPT ![t].pc = "finish"]
  /\ Running /\ UNCHANGED <<slot, cancel>>

\* Exactly once, on an attempt that is still uncertain.
SetAttemptTerminal(t) ==
  /\ run[t].pc \in Verdicts
  /\ run' = [run EXCEPT ![t].pc = "finish"]
  /\ \/ row[t].attempt = "uncertain" /\ SetRow(t, [row[t] EXCEPT !.attempt = run[t].pc])
     \/ UNCHANGED row
  /\ Running /\ UNCHANGED <<slot, cancel, child>>

\* The run leaves a.turns, the slot is free, run.done ends the grace timer; the
\* run's locals and its flag are not read again, a late interrupt is without effect.
FinishRun(t) ==
  /\ run[t].pc = "finish"
  /\ run' = [run EXCEPT ![t] = [NoRun EXCEPT !.pc = "over"]]
  /\ cancel' = [cancel EXCEPT ![t] = NoCancel]
  /\ ReleaseSlot(t)
  /\ child' = [child EXCEPT ![t].said = IF row[t].attempt \in Verdicts THEN @ ELSE {}]
  /\ Running /\ UNCHANGED row

\* The first request sets the flag, then sends the signal.
RequestInterrupt(t) ==
  cancel' = [cancel EXCEPT ![t].flag = TRUE, ![t].sending = @ \/ ~cancel[t].flag]

\* The turn's bound, which runTurn waits for beside the next event; once.
TurnBound(t) ==
  /\ run[t].pc = "read"
  /\ ~run[t].bound
  /\ run' = [run EXCEPT ![t].bound = TRUE]
  /\ RequestInterrupt(t)
  /\ Running /\ UNCHANGED <<row, slot, child>>

\* Cancel finds a live run and asks for the interrupt.
Cancel(t) ==
  /\ Live(t)
  /\ RequestInterrupt(t)
  /\ Running /\ UNCHANGED <<row, slot, run, child>>

\* Slip: no grace timer follows the interrupt.
SlipSendInterrupt(t) ==
  /\ cancel[t].sending
  /\ cancel' = [cancel EXCEPT ![t].sending = FALSE]
  /\ Running /\ UNCHANGED <<row, slot, run, child>>

\* A signal to a live child succeeds where the platform has it and arms the grace
\* timer; a failed one takes the request back.
SendInterrupt(t) ==
  /\ cancel[t].sending
  /\ \/ /\ InterruptSupported
        /\ cancel' = [cancel EXCEPT ![t].sending = FALSE, ![t].grace = TRUE]
     \/ /\ InterruptSupported => child[t].state # "up"
        /\ cancel' = [cancel EXCEPT ![t].sending = FALSE, ![t].flag = FALSE]
  /\ Running /\ UNCHANGED <<row, slot, run, child>>

\* The grace period ends before the run does.
GraceKill(t) ==
  /\ cancel[t].grace
  /\ Live(t)
  /\ child' = [child EXCEPT ![t].state = "gone"]
  /\ cancel' = [cancel EXCEPT ![t].grace = FALSE]
  /\ Running /\ UNCHANGED <<row, slot, run>>

\* A crash, at any point: what is durable and the child stay.
Crash ==
  /\ instance < MaxInstance
  /\ instance' = instance + 1
  /\ slot' = None
  /\ worker' = {}
  /\ pc' = [t \in AgyTurns |-> IF pc[t] = "none" THEN "none" ELSE "gone"]
  /\ run' = [t \in AgyTurns |-> NoRun]
  /\ cancel' = [t \in AgyTurns |-> NoCancel]
  /\ early' = {}
  /\ child' = [t \in AgyTurns |->
       [child[t] EXCEPT !.state = IF @ = "up" THEN "orphan" ELSE @,
                        !.said = IF row[t].attempt \in Verdicts THEN @ ELSE {}]]
  /\ UNCHANGED row

RunStep(t) ==
  \/ \E e \in Events : ReadEvent(t, e)
  \/ ReadMalformed(t) \/ ReadEnd(t) \/ Settle(t) \/ SetAttemptTerminal(t)
  \/ FinishRun(t)

CancelStep(t) ==
  TurnBound(t) \/ Cancel(t) \/ SendInterrupt(t) \/ GraceKill(t)

ServiceStep(t) ==
  RecordRejected(t) \/ CollectUntilTerminal(t) \/ Reconcile(t) \/ DisposeBeforeWorker(t)
  \/ ResolveTurnUncertainty(t)

Next ==
  \/ \E t \in AgyTurns :
       DispatchStep(t) \/ RunStep(t) \/ CancelStep(t) \/ ServiceStep(t) \/ ChildExit(t)
  \/ Crash

Spec == Init /\ [][Next]_vars

-----------------------------------------------------------------------------
(* Properties.                                                             *)

\* "Missing" and a rejected turn are statements that the prompt never reached the
\* model: no byte of it crossed the child's stdin, in this instance or an earlier
\* one (abortPreWrite, RecordAgyLaunchState, Collect).
RejectedNeverSent ==
  \A t \in AgyTurns : row[t].attempt = "missing" \/ row[t].turn = "rejected" => ~child[t].got

\* A verdict on the attempt or the turn rests on one result of the child, the last
\* thing it said, in its own conversation, by a child that is gone (runTurn).
VerdictIsVerified ==
  \A t \in AgyTurns :
    /\ row[t].turn \in Verdicts => row[t].attempt = row[t].turn
    /\ row[t].attempt \in Verdicts =>
         /\ child[t].state = "gone" /\ "bad" \notin child[t].said
         /\ child[t].said \cap Results \subseteq
              (CASE row[t].attempt = "completed" -> {"ok"}
                 [] row[t].attempt = "cancelled" -> {"interrupted"}
                 [] OTHER -> {"error", "interrupted"})
         /\ child[t].said \cap Results # {}
         /\ "accept" \in child[t].said => row[t].accepted

\* What this instance has running for a turn, and what its rows answer of it.
WorkOn(t) ==
  CASE child[t].state = "none" -> "none" [] child[t].state = "up" -> "running" [] OTHER -> "over"
AnswerTo(t) ==
  IF row[t].attempt \in Verdicts THEN row[t].attempt
  ELSE IF row[t].attempt = "missing" \/ row[t].turn = "rejected" THEN "absent"
  ELSE "none"

Native == INSTANCE NativeTurns WITH
  Turns <- AgyTurns,
  work <- [t \in AgyTurns |-> WorkOn(t)],
  given <- [t \in AgyTurns |-> child[t].got],
  answer <- [t \in AgyTurns |-> AnswerTo(t)]

\* A service instance never has two children in the conversation, although a turn
\* may be resolved, and the next one released, before its run has ended (the slot
\* of acquireSlot and finishRun).
OneChildPerConversation ==
  \A t, u \in AgyTurns : child[t].state = "up" /\ child[u].state = "up" => t = u

\* A run that reads from a child which may never say another word has something
\* that ends it: the turn's bound, an interrupt about to be sent, or the grace
\* period that kills the child, however the bound, Cancel and failed interrupts
\* interleave (runTurn, interruptRun).
RunIsBounded ==
  InterruptSupported =>
    \A t \in AgyTurns : run[t].pc = "read" =>
      ~run[t].bound \/ cancel[t].sending \/ cancel[t].grace \/ child[t].state = "gone"

=============================================================================
