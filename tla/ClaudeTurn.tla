------------------------------ MODULE ClaudeTurn ------------------------------
(***************************************************************************)
(* The Claude adapter: the creation of one native session, the turns that  *)
(* run in it, each in a child process of its own, and the durable ledger   *)
(* of attempts and launches from which a restarted service decides what it *)
(* may say of a turn.                                                      *)
(*                                                                         *)
(* The turns are those of one Council session, so the store releases one   *)
(* at a time and each is dispatched once.  A step is one critical section  *)
(* of the adapter's lock, one call of the store or of the executor, or one *)
(* line of the child's output; every call of the store may fail.  The      *)
(* adapter's event stream may overflow at any moment, so a supervisor may  *)
(* be polling Collect at any time after its dispatch was accepted.         *)
(* Profiles, manifests and digests are abstracted to checks that pass or   *)
(* refuse.                                                                 *)
(***************************************************************************)
EXTENDS Naturals, FiniteSets

CONSTANTS
  Turns,
  Callers,     \* concurrent requests to create the session
  NativeIDs,   \* the UUIDs a behaviour can draw
  None,
  MaxInstance  \* bound on service instances

ASSUME ClaudeAssumption ==
  /\ IsFiniteSet(Turns) /\ IsFiniteSet(NativeIDs)
  /\ None \notin Turns \cup Callers \cup NativeIDs
  /\ None \notin {"reserved", "started", "start_failed", "dead", "states",
                  "uncertain", "missing", "completed", "failed"}
  /\ MaxInstance \in Nat

VARIABLES
  turn,         \* turn[t]: the turn's row; "rejected" and "missing" are the
                \* failures recorded without a result of the child
  attempt,      \* attempt[t]: observed_status of the attempt's row, or None
  launch,       \* launch[t]: state of its launch row, or None
  sent,         \* sent[t]: first_stdin_byte_at is recorded
  native,       \* native_id of the session's binding, or None
  materialized, \* the binding's materialized flag
  creation,     \* the reservation in a.creations: its caller, or None
  caller,       \* caller[c]: program counter and native id of a creation
  slot,         \* the turn that holds the native session's slot, or None
  pc,           \* pc[t]: program counter of t's supervisor and its Dispatch
  first,        \* first[t]: firstTurn, as Dispatch read it from the binding
  run,          \* run[t]: program counter of runTurn
  parser,       \* parser[t]: the local state of ParseStream
  reconcile,    \* reconcile[t]: program counter of a Reconcile, or its verdict
  child,        \* child[t]: "none", "up" or "gone"
  got,          \* history: a byte of the prompt reached the child
  said,         \* history: the lines the child printed
  issued,       \* history: the UUIDs drawn so far
  instance

rowVars == <<turn, attempt, launch, sent>>
bindingVars == <<native, materialized>>
createVars == <<creation, caller, issued>>
runVars == <<run, parser>>
childVars == <<child, got, said>>
vars == <<rowVars, bindingVars, createVars, slot, pc, first, runVars, reconcile, childVars, instance>>

Lines == {"init", "text", "result", "error", "drift"}
Resolved == {"completed", "failed"}
Fresh == [init |-> FALSE, evidence |-> FALSE, verdict |-> None, poisoned |-> FALSE]

\* Every row, program counter and flag has a value of its domain.
TypeOK ==
  /\ turn \in [Turns -> {"queued", "running", "rejected", "missing"} \cup Resolved]
  /\ attempt \in [Turns -> {None, "uncertain", "missing"} \cup Resolved]
  /\ launch \in [Turns -> {None, "reserved", "started", "start_failed", "dead"}]
  /\ sent \in [Turns -> BOOLEAN]
  /\ native \in NativeIDs \cup {None}
  /\ materialized \in BOOLEAN
  /\ creation \in Callers \cup {None}
  /\ caller \in [Callers -> [pc : {"idle", "create", "wait", "failing", "created", "done"},
                             id : NativeIDs \cup {None}]]
  /\ slot \in Turns \cup {None}
  /\ pc \in [Turns -> {"none", "binding", "slot", "check", "source", "insert", "reserve", "start",
                       "start_failed", "started", "write", "close", "terminate", "reject",
                       "collect", "gone"}]
  /\ first \in [Turns -> BOOLEAN]
  /\ run \in [Turns -> {"none", "parse", "reaped", "verdict", "materialize", "release", "over"}]
  /\ parser \in [Turns -> [init : BOOLEAN, evidence : BOOLEAN,
                           verdict : {None} \cup Resolved, poisoned : BOOLEAN]]
  /\ reconcile \in [Turns -> {None, "states", "missing"} \cup Resolved]
  /\ child \in [Turns -> {"none", "up", "gone"}]
  /\ got \in [Turns -> BOOLEAN]
  /\ said \in [Turns -> SUBSET Lines]
  /\ issued \subseteq NativeIDs
  /\ instance \in Nat

Init ==
  /\ turn = [t \in Turns |-> "queued"]
  /\ attempt = [t \in Turns |-> None]
  /\ launch = [t \in Turns |-> None]
  /\ sent = [t \in Turns |-> FALSE]
  /\ native = None
  /\ materialized = FALSE
  /\ creation = None
  /\ caller = [c \in Callers |-> [pc |-> "idle", id |-> None]]
  /\ slot = None
  /\ pc = [t \in Turns |-> "none"]
  /\ first = [t \in Turns |-> FALSE]
  /\ run = [t \in Turns |-> "none"]
  /\ parser = [t \in Turns |-> Fresh]
  /\ reconcile = [t \in Turns |-> None]
  /\ child = [t \in Turns |-> "none"]
  /\ got = [t \in Turns |-> FALSE]
  /\ said = [t \in Turns |-> {}]
  /\ issued = {}
  /\ instance = 1

-----------------------------------------------------------------------------
(* CreateSession and the binding.                                          *)

Creating == UNCHANGED <<rowVars, slot, pc, first, runVars, reconcile, childVars, instance>>

\* A request finds the reservation of another one and waits on it, or installs
\* its own.
CreateSession(c) ==
  /\ caller[c].pc = "idle"
  /\ \/ /\ creation = None
        /\ creation' = c
        /\ caller' = [caller EXCEPT ![c].pc = "create"]
     \/ /\ creation # None
        /\ \/ /\ caller[creation].pc \in {"create", "failing"}
              /\ caller' = [caller EXCEPT ![c].pc = "wait"]
           \/ /\ caller[creation].id # None
              /\ caller' = [caller EXCEPT ![c] = [pc |-> "created", id |-> caller[creation].id]]
        /\ UNCHANGED creation
  /\ Creating
  /\ UNCHANGED <<bindingVars, issued>>

\* The identities createBinding can answer: the one that is bound, or a new UUID.
Candidates == IF native # None THEN {native} ELSE NativeIDs \ issued

\* close(call.done) hands the outcome to every request that waits; a waiter whose
\* configuration differs is refused.
Publish(c, id) ==
  \E refused \in SUBSET {d \in Callers : caller[d].pc = "wait"} :
    caller' = [d \in Callers |->
      IF d = c THEN [pc |-> IF id = None THEN "failing" ELSE "created", id |-> id]
      ELSE IF caller[d].pc # "wait" THEN caller[d]
      ELSE IF id = None \/ d \in refused THEN [pc |-> "done", id |-> None]
      ELSE [pc |-> "created", id |-> id]]

CreateBinding(c) ==
  /\ caller[c].pc = "create"
  /\ \E id \in Candidates \cup {None} :
       /\ Publish(c, id)
       /\ issued' = issued \cup ({id} \ {None})
  /\ Creating
  /\ UNCHANGED <<bindingVars, creation>>

\* A failed reservation is retired after its outcome was published; a request
\* that came in between shares the failure.
RetireCreation(c) ==
  /\ caller[c].pc = "failing"
  /\ creation' = IF creation = c THEN None ELSE creation
  /\ caller' = [d \in Callers |->
       IF d = c \/ caller[d].pc = "wait" THEN [pc |-> "done", id |-> None] ELSE caller[d]]
  /\ Creating
  /\ UNCHANGED <<bindingVars, issued>>

\* BindClaudeSession: the first binding stays; the second is refused.
BindClaudeSession(c) ==
  /\ caller[c].pc = "created"
  /\ caller' = [caller EXCEPT ![c].pc = "done"]
  /\ \/ /\ native = None
        /\ native' = caller[c].id
     \/ UNCHANGED native
  /\ Creating
  /\ UNCHANGED <<materialized, creation, issued>>

-----------------------------------------------------------------------------
(* Dispatch, in the supervisor's goroutine.                                *)

Goto(t, l) == pc' = [pc EXCEPT ![t] = l]

ReleaseSlot(t) == slot' = IF slot = t THEN None ELSE slot

\* releaseIfRejected and a rejected outcome.
Reject(t) == ReleaseSlot(t) /\ Goto(t, "reject")

Dispatching == UNCHANGED <<bindingVars, createVars, runVars, reconcile, instance>>

\* ReleaseTurn and the start of the supervisor: the session has no other turn.
Release(t) ==
  /\ turn[t] = "queued"
  /\ \A u \in Turns : turn[u] # "running"
  /\ turn' = [turn EXCEPT ![t] = "running"]
  /\ Goto(t, "binding")
  /\ Dispatching
  /\ UNCHANGED <<attempt, launch, sent, slot, first, childVars>>

\* The binding is read before the slot is taken.
ReadBinding(t) ==
  /\ pc[t] = "binding"
  /\ \/ Goto(t, "reject") /\ UNCHANGED first
     \/ /\ native # None
        /\ first' = [first EXCEPT ![t] = ~materialized]
        /\ Goto(t, "slot")
  /\ Dispatching
  /\ UNCHANGED <<rowVars, slot, childVars>>

\* A slot that another attempt owns is waited for.
AcquireSlot(t) ==
  /\ pc[t] = "slot"
  /\ slot \in {None, t}
  /\ slot' = t
  /\ Goto(t, "check")
  /\ Dispatching
  /\ UNCHANGED <<rowVars, first, childVars>>

\* No Claude operation records a disposition, so uncertain is unresolved.
HasUnresolvedAttempts == \E u \in Turns : attempt[u] = "uncertain"

CheckUnresolved(t) ==
  /\ pc[t] = "check"
  /\ \/ Reject(t)
     \/ ~HasUnresolvedAttempts /\ Goto(t, "source") /\ UNCHANGED slot
  /\ Dispatching
  /\ UNCHANGED <<rowVars, first, childVars>>

\* ClaudeTurnLaunch and the transcript protection: profile, workspace, tool
\* universe and attestation are checked, and each check may refuse.
ClaudeTurnLaunch(t) ==
  /\ pc[t] = "source"
  /\ \/ Reject(t)
     \/ Goto(t, "insert") /\ UNCHANGED slot
  /\ Dispatching
  /\ UNCHANGED <<rowVars, first, childVars>>

InsertAttempt(t) ==
  /\ pc[t] = "insert"
  /\ \/ Reject(t) /\ UNCHANGED attempt
     \/ /\ attempt[t] = None
        /\ attempt' = [attempt EXCEPT ![t] = "uncertain"]
        /\ Goto(t, "reserve")
        /\ UNCHANGED slot
  /\ Dispatching
  /\ UNCHANGED <<turn, launch, sent, first, childVars>>

\* The first launch of an attempt; a failure leaves the attempt's row behind.
ReserveLaunch(t) ==
  /\ pc[t] = "reserve"
  /\ \/ Reject(t) /\ UNCHANGED launch
     \/ /\ launch[t] = None
        /\ launch' = [launch EXCEPT ![t] = "reserved"]
        /\ Goto(t, "start")
        /\ UNCHANGED slot
  /\ Dispatching
  /\ UNCHANGED <<turn, attempt, sent, first, childVars>>

StartChild(t) ==
  /\ pc[t] = "start"
  /\ \/ Goto(t, "start_failed") /\ UNCHANGED childVars
     \/ /\ child' = [child EXCEPT ![t] = "up"]
        /\ Goto(t, "started")
        /\ UNCHANGED <<got, said>>
  /\ Dispatching
  /\ UNCHANGED <<rowVars, slot, first>>

\* The launch count goes back and the attempt is known missing; when that cannot
\* be recorded the outcome is unknown and the slot stays taken.
RecordStartFailed(t) ==
  /\ pc[t] = "start_failed"
  /\ \/ /\ launch' = [launch EXCEPT ![t] = "start_failed"]
        /\ attempt' = [attempt EXCEPT ![t] = IF @ = "uncertain" THEN "missing" ELSE @]
        /\ Reject(t)
     \/ Goto(t, "gone") /\ UNCHANGED <<launch, attempt, slot>>
  /\ Dispatching
  /\ UNCHANGED <<turn, sent, first, childVars>>

RecordStarted(t) ==
  /\ pc[t] = "started"
  /\ \/ /\ launch' = [launch EXCEPT ![t] = "started"]
        /\ Goto(t, "write")
     \/ Goto(t, "terminate") /\ UNCHANGED launch
  /\ Dispatching
  /\ UNCHANGED <<turn, attempt, sent, slot, first, childVars>>

\* The boundary writer: the first byte that reaches a started child is recorded,
\* once; a failed write and a failed record both end the dispatch.
WritePrompt(t) ==
  /\ pc[t] = "write"
  /\ \/ /\ child[t] = "up"
        /\ got' = [got EXCEPT ![t] = TRUE]
        /\ \/ /\ launch[t] = "started" /\ ~sent[t]
              /\ sent' = [sent EXCEPT ![t] = TRUE]
              /\ pc' \in {[pc EXCEPT ![t] = "close"], [pc EXCEPT ![t] = "terminate"]}
           \/ Goto(t, "terminate") /\ UNCHANGED sent
     \/ Goto(t, "terminate") /\ UNCHANGED <<got, sent>>
  /\ Dispatching
  /\ UNCHANGED <<turn, attempt, launch, slot, first, child, said>>

\* Stdin closes, the run is published and the dispatch is accepted.
CloseStdin(t) ==
  /\ pc[t] = "close"
  /\ \/ /\ run' = [run EXCEPT ![t] = "parse"]
        /\ parser' = [parser EXCEPT ![t] = Fresh]
        /\ Goto(t, "collect")
     \/ Goto(t, "terminate") /\ UNCHANGED runVars
  /\ UNCHANGED <<rowVars, bindingVars, createVars, slot, first, reconcile, childVars, instance>>

\* Terminate waits for the child to be gone; then the slot is free and the
\* outcome unknown.  The update to "dead" binds its arguments in another order
\* than its statement has them and touches no row.
TerminateChild(t) ==
  /\ pc[t] = "terminate"
  /\ child[t] = "gone"
  /\ ReleaseSlot(t)
  /\ Goto(t, "gone")
  /\ Dispatching
  /\ UNCHANGED <<rowVars, first, childVars>>

DispatchStep(t) ==
  \/ Release(t) \/ ReadBinding(t) \/ AcquireSlot(t) \/ CheckUnresolved(t) \/ ClaudeTurnLaunch(t)
  \/ InsertAttempt(t) \/ ReserveLaunch(t) \/ StartChild(t) \/ RecordStartFailed(t)
  \/ RecordStarted(t) \/ WritePrompt(t) \/ CloseStdin(t) \/ TerminateChild(t)

-----------------------------------------------------------------------------
(* What the supervisor records, and the recovery command.                  *)

Observing == UNCHANGED <<attempt, launch, sent, bindingVars, createVars, slot, first, runVars,
                         childVars, instance>>

Record(t, v) == turn' = [turn EXCEPT ![t] = IF @ = "running" THEN v ELSE @]

\* A rejected dispatch is a failed turn, unless the store refuses the outcome.
RecordRejected(t) ==
  /\ pc[t] = "reject"
  /\ Goto(t, "gone")
  /\ Record(t, "rejected") \/ UNCHANGED turn
  /\ Observing
  /\ UNCHANGED reconcile

\* collectUntilTerminal: the row is polled until it is terminal or the turn is
\* over; an error ends the supervisor.
Collect(t) ==
  /\ pc[t] = "collect"
  /\ Goto(t, "gone")
  /\ \/ attempt[t] \in Resolved /\ Record(t, attempt[t])
     \/ UNCHANGED turn
  /\ Observing
  /\ UNCHANGED reconcile

\* a.turns holds the run.
Live(t) == run[t] \in {"parse", "reaped"}

\* Reconcile: no live run, and the attempt's row is terminal or inconclusive.
ReconcileProbe(t) ==
  /\ turn[t] = "running"
  /\ reconcile[t] = None
  /\ ~Live(t)
  /\ attempt[t] # None
  /\ reconcile' = [reconcile EXCEPT ![t] = IF attempt[t] \in Resolved THEN attempt[t] ELSE "states"]
  /\ Observing
  /\ UNCHANGED <<turn, pc>>

\* Only a retained start_failed row shows that no process was created.
MissingLaunch(t) == launch[t] = "start_failed"

ReconcileStates(t) ==
  /\ reconcile[t] = "states"
  /\ reconcile' = [reconcile EXCEPT ![t] = IF MissingLaunch(t) THEN "missing" ELSE None]
  /\ Observing
  /\ UNCHANGED <<turn, pc>>

ReconcileCommit(t) ==
  /\ reconcile[t] \in {"missing"} \cup Resolved
  /\ reconcile' = [reconcile EXCEPT ![t] = None]
  /\ Record(t, reconcile[t])
  /\ Observing
  /\ UNCHANGED pc

-----------------------------------------------------------------------------
(* The child process and runTurn.                                          *)

Running == UNCHANGED <<turn, launch, sent, createVars, pc, first, reconcile, got, instance>>

\* Slip: the last of several results wins.
SlipParseLine(p, l) ==
  CASE l = "init" -> [p EXCEPT !.init = TRUE, !.poisoned = p.evidence]
    [] l = "text" -> [p EXCEPT !.evidence = TRUE, !.poisoned = ~p.init]
    [] l \in {"result", "error"} ->
         [p EXCEPT !.evidence = TRUE,
                   !.poisoned = ~p.init,
                   !.verdict = IF l = "result" THEN "completed" ELSE "failed"]
    [] l = "drift" -> [p EXCEPT !.poisoned = TRUE]

\* One line of ParseStream.  "drift" stands for everything that poisons at once:
\* malformed or oversized lines, an init that does not match the frozen
\* manifest, another session's id, a tool result of no known tool use.
ParseLine(p, l) ==
  CASE l = "init" -> [p EXCEPT !.init = TRUE, !.poisoned = p.evidence]
    [] l = "text" -> [p EXCEPT !.evidence = TRUE, !.poisoned = ~p.init]
    [] l \in {"result", "error"} ->
         [p EXCEPT !.evidence = TRUE,
                   !.poisoned = ~p.init \/ p.verdict # None,
                   !.verdict = IF l = "result" THEN "completed" ELSE "failed"]
    [] l = "drift" -> [p EXCEPT !.poisoned = TRUE]

\* The parser takes the next line, which the child may have left in the pipe.
ReadLine(t, l) ==
  /\ run[t] = "parse"
  /\ ~parser[t].poisoned
  /\ said' = [said EXCEPT ![t] = @ \cup {l}]
  /\ parser' = [parser EXCEPT ![t] = ParseLine(@, l)]
  /\ Running
  /\ UNCHANGED <<attempt, bindingVars, slot, run, child>>

\* Slip: the end of the output is taken for the end of the child.
SlipReap(t) ==
  /\ run[t] = "parse"
  /\ run' = [run EXCEPT ![t] = "reaped"]
  /\ Running
  /\ UNCHANGED <<attempt, bindingVars, slot, parser, child, said>>

\* End of stream or poison, then Wait: the run goes on when the child is gone.
Reap(t) ==
  /\ run[t] = "parse"
  /\ child[t] = "gone"
  /\ run' = [run EXCEPT ![t] = "reaped"]
  /\ Running
  /\ UNCHANGED <<attempt, bindingVars, slot, parser, child, said>>

RemoveTurn(t) ==
  /\ run[t] = "reaped"
  /\ run' = [run EXCEPT ![t] = "verdict"]
  /\ Running
  /\ UNCHANGED <<attempt, bindingVars, slot, parser, child, said>>

\* A poisoned stream, or one without init and result, says nothing; otherwise
\* the verdict is written once.
SetAttemptTerminal(t) ==
  /\ run[t] = "verdict"
  /\ LET p == parser[t]
     IN  \/ /\ ~p.poisoned /\ p.init /\ p.verdict # None
            /\ attempt[t] \notin Resolved
            /\ attempt' = [attempt EXCEPT ![t] = p.verdict]
            /\ run' = [run EXCEPT ![t] = IF first[t] THEN "materialize" ELSE "release"]
         \/ run' = [run EXCEPT ![t] = "release"] /\ UNCHANGED attempt
  /\ Running
  /\ UNCHANGED <<bindingVars, slot, parser, child, said>>

\* The transcript of a first turn was observed and the binding marked, or not.
MarkMaterialized(t) ==
  /\ run[t] = "materialize"
  /\ run' = [run EXCEPT ![t] = "release"]
  /\ materialized' \in {TRUE, materialized}
  /\ Running
  /\ UNCHANGED <<attempt, native, slot, parser, child, said>>

\* The deferred releaseSlot.
EndRun(t) ==
  /\ run[t] = "release"
  /\ run' = [run EXCEPT ![t] = "over"]
  /\ ReleaseSlot(t)
  /\ Running
  /\ UNCHANGED <<attempt, bindingVars, parser, child, said>>

\* A child ends by itself, by the terminate of a failed dispatch, or by Cancel,
\* which terminates the child of a live run and always answers unknown.
ChildExit(t) ==
  /\ child[t] = "up"
  /\ child' = [child EXCEPT ![t] = "gone"]
  /\ Running
  /\ UNCHANGED <<attempt, bindingVars, slot, run, parser, said>>

RunStep(t) ==
  \/ \E l \in Lines : ReadLine(t, l)
  \/ Reap(t) \/ RemoveTurn(t) \/ SetAttemptTerminal(t) \/ MarkMaterialized(t) \/ EndRun(t)
  \/ ChildExit(t)

\* The service dies and starts again: memory is gone, the rows stay, and a
\* child of the old instance may go on.
Restart ==
  /\ instance < MaxInstance
  /\ instance' = instance + 1
  /\ creation' = None
  /\ caller' = [c \in Callers |-> [pc |-> "idle", id |-> None]]
  /\ slot' = None
  /\ pc' = [t \in Turns |-> IF pc[t] = "none" THEN "none" ELSE "gone"]
  /\ run' = [t \in Turns |-> IF run[t] = "none" THEN "none" ELSE "over"]
  /\ parser' = [t \in Turns |-> Fresh]
  /\ reconcile' = [t \in Turns |-> None]
  /\ UNCHANGED <<rowVars, bindingVars, issued, first, childVars>>

Next ==
  \/ \E c \in Callers :
       CreateSession(c) \/ CreateBinding(c) \/ RetireCreation(c) \/ BindClaudeSession(c)
  \/ \E t \in Turns :
       \/ DispatchStep(t)
       \/ RecordRejected(t) \/ Collect(t)
       \/ ReconcileProbe(t) \/ ReconcileStates(t) \/ ReconcileCommit(t)
       \/ RunStep(t)
  \/ Restart

Spec == Init /\ [][Next]_vars

-----------------------------------------------------------------------------
(* Properties.                                                             *)

\* A turn recorded as rejected or missing never reached its child, and neither
\* did an attempt marked missing: whoever repeats it does not run it twice.
RejectedNeverSent ==
  \A t \in Turns :
    turn[t] \in {"rejected", "missing"} \/ attempt[t] = "missing" => ~got[t]

\* A resolved attempt rests on the one result of a child that got the prompt and
\* printed nothing that contradicts it, and a turn's verdict on its attempt.
VerdictHasResult ==
  \A t \in Turns :
    /\ attempt[t] = "completed" =>
         got[t] /\ {"init", "result"} \subseteq said[t] /\ said[t] \cap {"error", "drift"} = {}
    /\ attempt[t] = "failed" =>
         got[t] /\ {"init", "error"} \subseteq said[t] /\ said[t] \cap {"result", "drift"} = {}
    /\ turn[t] \in Resolved => turn[t] = attempt[t]

\* What the service has running for a turn, and what its rows answer of it.
WorkOn(t) == CASE child[t] = "none" -> "none" [] child[t] = "up" -> "running" [] OTHER -> "over"
AnswerTo(t) ==
  IF attempt[t] \in Resolved THEN attempt[t]
  ELSE IF attempt[t] = "missing" \/ turn[t] \in {"rejected", "missing"} THEN "absent"
  ELSE "none"

Native == INSTANCE NativeTurns WITH
  Verdicts <- Resolved,
  work <- [t \in Turns |-> WorkOn(t)],
  given <- got,
  answer <- [t \in Turns |-> AnswerTo(t)]

\* At most one child of a native session runs, over all instances: the slot
\* orders the turns of one process, the durable attempts those of the next.
OneChildPerSession ==
  \A t, u \in Turns : child[t] = "up" /\ child[u] = "up" => t = u

\* Requests that succeed in one instance get one native identity, and once the
\* session is bound nobody gets another.
SharedIdentity ==
  \A c, d \in Callers :
    caller[c].id # None /\ caller[d].id # None => caller[c].id = caller[d].id
=============================================================================
