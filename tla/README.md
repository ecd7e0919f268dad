# Agent Council: a verification project

TLA+ models of the Go service in `src/`, model-checked with TLC on small
instances and, for the durable core, proved with TLAPS for every size.

Agent Council lets one *controller* (a coding agent or an operator) drive four
*contributors* (opencode, claude, codex, agy). A local service keeps runs,
sessions, prompts and turns in one SQLite file, hands turns to harness
*adapters*, supervises them, and answers HTTP commands over a Unix socket.
What makes it hard is not the volume of state but its history: every command
may be retried after a lost answer, executions outlive their controllers,
hosts are lost and probed, and the service stops, is killed and restarts at any
point while native processes keep running.

## 1. Inventory

| Part | State it keeps | Operations | What makes it correct |
|---|---|---|---|
| Session store (`internal/storage`: `session_store.go`, `transitions.go`, `execution_outcomes.go`) | `sessions`, `pending_prompts`, `turns`, `dispatch_intents`, `native_bindings`, `journal_entries` | queue, replace, discard, release, cancel, outcome (two paths), dispatch observation (two paths), host loss, reconcile, binding, connection, archive | one live turn per session, the one that is reserved; outcomes final; references unambiguous; versions move with every visible change; a lost host stays recoverable |
| Controller authority (`controller_leases.go`, `controller_attachment.go` in `storage` and `service`, `controller_admin.go`) | `controller_leases`, two columns of `runs`, the in-memory attachment of an instance | adopt, handoff, revoke, recover, connect, disconnect, the decision gate | one newest generation in force; retired for good; secrets only while active; decisions only by a controller attached to *this* instance |
| Service lifecycle (`service`: `coordinator.go`, `supervisor.go`, `shutdown.go`, `release.go`, `commands.go`) | gate, five shutdown counters, blocker epoch, workers and their contexts | release, cancel, reconcile, status, stop, drain, signal, teardown, start | dispatch once; no fabricated outcome; a stop never hides unresolved work; supervisors and drains end |
| Council kernel (`council/domain.go`) | an in-memory `Session`; ballots | queue ... archive; `Tally` | the same lifecycle as the store; the tally counts exactly the valid votes |
| Restart hydration (`recovery.go`) | none | `HydrateState` | accepts whatever the store's operations can leave behind |
| Artifact store, proposal sets (`artifact_store.go`, `worker_artifacts.go`, `proposal_sets.go`) | CAS blobs, revisions, sealed sets | publish, ingest, seal, read | rows never name missing blobs; a retried operation records one revision; a sealed set reads the same for ever |
| Claude adapter and ledger (`adapter/claude`, `claude_state.go`) | binding, attempts, launches; one child per turn | create, dispatch, run, collect, cancel, reconcile | a rejected prompt never reached a child; a verdict is a child's result; one child per session |
| Agy adapter and ledger (`adapter/agy`, `agy_state.go`, `agy_disposition.go`) | the same, creation episodes, dispositions | create, dispatch, interrupt, verify, abandon | as for claude; every child is waited for a bounded time; no birth is forgotten |
| Codex adapter and ledger (`adapter/codex`, `codex_state.go`) | the app-server child, its generations and timer; attempts, launches, baselines; rollout file | create, dispatch, notifications, approvals, cancel, park, stop, reconcile | a verdict is the native one; one native turn per thread; at most one unresolved thread |
| Opencode adapter (`adapter/opencode`) | serve child, slot, dispatches, pump and taps | dispatch, observe, collect, cancel, reconcile, park | single flight; taps end with their terminal; no park under a live turn |
| Event stream (`events.go`), buffered stream (`adapter/stream.go`) | subscriber channels | subscribe, broadcast, overflow, close | no send on a closed channel; an observer learns of the end |
| Workspace manager (`adapter/workspace`) | session map, directories, branches | allocate, paths | a root that is given out is whole |
| Lock, discovery, migrations | lock file, discovery files, schema version | acquire, publish, clean, migrate | one service per file; migration steps atomic |

How they interact. An HTTP handler passes the coordinator's gate
(`AdmitRelease`, `TrackControl`), then the decision gate
(`requireConnectedController`), then commits one store transaction; a release
registers a worker, and its supervisor runs detached from the request:
`Dispatch`, `Observe`, `Collect`, commit. Cancel and reconcile commit from
handlers, concurrently with the supervisor. Diagnostic reads recompute the
blocker count that stop and drain decide on. All writes go through one writer
connection with immediate transactions; reads use a separate pool, so a
handler's successive reads are different snapshots. Adapters keep ledgers of
their own in the same file, which a restarted service reads to decide what it
may say of a turn. The single point of arbitration between supervisor, handlers
and a restarted service is the store.

The hazards this gives, each at its line, are in `PROJECT.json`.

## 2. Modules

| Module | What it is |
|---|---|
| `TurnLifecycle` | Abstract: what a session promises about its turns. Models no code. |
| `NativeTurns` | Abstract: what an adapter promises of the turns of one native session. |
| `RunGrant` | Abstract: a run's controller authority as the rest of the system relies on it. |
| `SessionStore` | One session in the store, on top of `RunGrant`. Implements `TurnLifecycle`. |
| `SessionStoreProofs` | Its invariants and action properties, proved. |
| `SessionStoreRefinement` | The proof that it implements `TurnLifecycle`. |
| `CouncilKernel` | The in-memory session. Implements `TurnLifecycle` too. |
| `Ballots` | The tally loop against a definition of a valid vote. |
| `Artifacts` | Revisions, blobs, observed artifacts and sealed proposal sets. |
| `ControllerLease` | Grant rows, credentials, journal replays, the in-memory attachment, handlers in flight, restarts. Implements `RunGrant`. |
| `ServiceLifecycle` | Coordinator, supervisors, handlers, refreshes, stopping, crash and restart. |
| `EventStream` | The events route: observers, broadcasts, teardown. |
| `BufferedStream` | The adapters' observation stream and its locking. |
| `ClaudeTurn` | Creation, turns, children and ledger of the claude adapter. Implements `NativeTurns`. |
| `AgyTurn`, `AgyCreation` | Turns, interrupts and dispositions of the agy adapter; the birth of its conversations. `AgyTurn` implements `NativeTurns`. |
| `CodexServer`, `CodexTurn`, `CodexCreation` | The app-server child; the turns on it; the birth of threads. `CodexTurn` implements `NativeTurns`. |
| `OpencodeTurn` | Dispatch, serve child, pump, taps and parking of the opencode adapter. |
| `Workspace` | Allocation of a session's workspace. |
| `ControllerLeaseProofs` | The lease's invariants and action properties, and that it implements `RunGrant`, proved. |
| `StreamProofs` | `BufferedStream` and `EventStream`, for any number of threads and observers. |
| `CouncilProofs` | The kernel, its refinement of `TurnLifecycle`, the tally, and the artifacts. |
| `ServiceProofs` | Dispatch, outcomes, counts and idle stops of the service. |
| `ChildrenProofs` | The turns of claude and agy, their refinement of `NativeTurns`, the births of agy and codex, the workspace. |
| `ServersProofs` | The turns of codex and of opencode, on any number of children; codex as `NativeTurns`. |

Definitions are named after the Go functions, columns and statuses they
translate; `map` in `PROJECT.json` gives the lines.

Instances for TLC. `MCSessionStore`, `MCControllerLease`, `MCServiceLifecycle`
and `MCOpencodeTurn` give one module its symmetry sets. `MCCouncil` (kernel,
ballots, artifacts), `MCControl` (lease, adapter stream, events route),
`MCChildren` (claude, agy, both births, workspace) and `MCServers` (codex,
opencode) put components that share no state side by side: the variable `part`
chooses in the initial state whose behaviour is explored, the others' variables
do not move (and are 0 where that keeps states small), and each property is
that of its part. TLC then counts a part's steps as one action; that every
action of every part fires was checked by running each part alone, with the
same constants and coverage on. `MCService` and `MCSessionStore` bound the
exploration with a CONSTRAINT (`InBounds`). `MCServiceLifecycle` has a liveness
run, so that it bounds the steps that clients take and cuts off no fair one
(`OneLoop`).
Where symmetry is not sound or not cheap, interchangeable names are numbers
that are used in order (`OpsInOrder`, `ClaudeInOrder`, `CallsInOrder`).

**Wrong variants.** A definition `Slip...` is a deliberately wrong variant of
the definition that follows it, a slip that could be made in that code: a
dropped guard, a missing reset, a comparison by the wrong field. No
specification uses one. Put in the place of the original, each breaks the
property listed for it under `mutants`, which shows that the property depends
on that piece of code.

### SessionStore

State: the columns of the session's row, `pending`, `turns` and `intents` by
turn key, `bound`, `journal`, and the history variable `declared` (the tools a
turn was queued with). One operation of the store is one action, because each
is one immediate transaction on the only writer. Refused calls, and replays of
journaled operations, change nothing and are stuttering steps; a compare-and-set
call succeeds only with the current version, so the expected version is not a
parameter. Every operation takes an operation id: one of `OpIDs`, which callers
may present again, or `Untracked`, an id presented once. An attempt id,
`att_<version>_<key>`, is its version next to its key. Prompts and results are
texts after sanitization, tools are opaque sets. The steps of `RunGrant` happen
together with what they write to the session (`projectSessionConnection`).

### ControllerLease

Transactions are actions; what a handler does around one (its reads through the
read pool, publication, invalidation) is a record in `tasks` that advances by
steps of its own, and is lost in a restart. The secret of generation `g` is
`g`, and `known` is the set of secrets some response has carried, since any
response may be lost. The attachment id that a connect draws at random is named
by the revision the same statement assigns. The decision gate is four steps
(credential, lease rows, adoption flag, memory) and the decision's own
transaction a fifth, that classifies the credential again. Either read may fail,
or the request's context may have ended (`ReadFails`): a decision is then
refused, while a connect handler answers with its receipt and publishes nothing
(`AnswerUnread`). The handler of a handoff invalidates the attachment first and
writes the secret afterwards (`Invalidate`); until then nobody new knows it, and
a restart may lose it. A replay takes the same steps as a task of its own kind
(`again`).

### ServiceLifecycle

Each turn is the only turn of its own session, so that several executions run at
once. Program counters stand for goroutines: `release`, `worker`, `cancel`,
`reconcile` per turn, `refresh` per observer (status polls, idle stop, drain
loop, signal loop). The counters `pendingHandoffs`, `liveWorkers` and
`inFlightControl` are derived from them, so that their bookkeeping cannot
disagree by construction; `pendingCommits` lies within a worker's life.
`blockers` and `epoch` are kept as the code keeps them. A step is one critical
section of the coordinator, one transaction or read, or one adapter call. The
adapter answers anything its contract allows, and may leave a call unanswered or
a poll pending for ever: `AdapterStep` is what an answer lets the supervisor do.
After the stream of events has ended (`StreamEnds`) it polls: before each poll it
stops if the execution is being terminated or another path resolved the turn
(`CollectStops`), and only a conclusive answer ends the polling otherwise
(`CollectAnswers`). `Restart` may happen at any
moment: a crash and an orderly exit are the same to the file.

### CouncilKernel and Ballots

The kernel is translated method by method; the pair `Active`/`ActiveTurn` is
one variable. The kernel and the store differ where the code does (the kernel
archives only under a connected controller, confirms a cancellation only after
a request, and has no uncertain probe), which is why both are compared with
`TurnLifecycle` and not with each other. `Ballots` has the loop as a recursive
function of the number of ballots counted and compares it, on every sequence of
ballots that can come in, with a definition of a valid vote that has no loop.

### Artifacts

A content stands for its digest. What `PublishArtifact` does on the read pool
and on disk before its transaction are steps of their own, so that two
publishers, a retry and a publication that ends after its blob are all there;
ingestion and sealing are one transaction each. A reviewer's read of a sealed
member goes by name, author and content.

### The adapters

A step is one critical section of the adapter's lock, one call of the store,
the executor or the child, or one thing the child does; every store call may
fail and the service may crash between any two steps. Children, threads,
rollouts and conversations are external: they do whatever the code's parsing
can tell apart. History variables record what a child really received and said,
and the properties compare the adapter's verdicts with them.

- `ClaudeTurn`: concurrent creations share a reservation; Dispatch reads the
  binding, waits for the slot, reserves attempt and launch, starts the child and
  writes the prompt; `runTurn` parses its lines; a restarted service reconciles
  from the ledger. Absence verification has no caller in the adapter and is left
  out.
- `AgyTurn`: one bounded run per turn. Cancel marks the run, unlocks, sends the
  interrupt and arms the grace timer, each a step; a result is a verdict only
  after it was verified against the conversation; the disposition command
  abandons an attempt. `AgyCreation`: the durable marker, the child that creates
  the conversation, the bind, drift, tombstones and the operator's resolution.
- `CodexServer` has the child: generations, the gap between a closed connection
  and the exited process, the idle timer that fires and parks later, and the
  fatal handler that knows the session only. `CodexTurn` adds turns, routes of
  notifications, the rollout as a sequence of entries, baselines, the approval
  responder and reconciliation. `CodexCreation`: the shared creation call, the
  pump's pending creation, tombstone and episodes, and resolution in two steps.
- `OpencodeTurn`: launch reservations, the per-session slot, launch and parking
  of the serve child, the pump with its kept terminals and taps, Observe,
  Collect, Cancel, Reconcile. `LateCalls` says whether a call may reserve a turn
  between a rejected call's verdict and its release of the slot. The service
  hands a turn to its adapter once (`ServiceInv`), so that the runs have it FALSE;
  with TRUE the slot can be lost (see the remarks in section 3).

`NativeTurns` is what these adapters promise alike, whatever program works on a
turn and however it is run: work on a turn begins at most once and on one turn at
a time; one answer is given, never to a turn that is being worked on; "absent"
says that the model was not given the prompt, a verdict that it was; and nothing
begins after an answer. `ClaudeTurn` and `AgyTurn` map to it by `WorkOn`,
`AnswerTo` and the history variable of what the child received: a child that is up
is work, also one that a crashed service left behind, and a child that is gone is
work that is over; the answer is the attempt's verdict, "absent" for an attempt
that is missing or a turn that was rejected, or else none. An attempt that stays
uncertain is never answered. In `CodexTurn` the child outlives the turn, so that
work is a native turn that was received or runs in a process that is up
(`Active`), whichever child that is, registered or not; the prompt is given when
the native turn is taken up; and the answer is what the service was told (`Told`):
the status that Collect or Reconcile reports, "completed" also for a terminal
whose status a late responder downgraded (`reconcile.go:181-188`), or a failure,
which is "absent". Verified absence is told as well and is no answer there,
because it is not true: see finding 4 and `AbsentTookNothing`. So what the
refinement says of codex's answers is that a turn is answered once, a verdict
being given to a turn that was taken up and is over, and a failure to one that was
not taken up and will not be. Which verdict it is, is the matter of
`CodexVerdictsTrue`.

In `CodexTurn`, `FailRequest` covers both ways an approval request can fail: the
poisoning of the child by a drift (`responder.go:445-448`) is the `Stop` that the
other one ends in. `HandleRequest` looks up receipt and run in one step.
`CodexServer.Launch` registers the child and arms its idle timer if no turn marks
it busy; the callback looks at the child again, so that the two locks between
which this happens need no step of their own. In `EventStream`, `Rejected` is the
supervisor's store calls after a rejection in one step.

`CodexCreation` follows each native thread: live while its creation runs, then
bound, or uncertain and recorded in an episode, and resolved by a controller. Two
statuses are what the code loses sight of. A thread is *forgotten* when its
process crashes before its outcome is on record, and *exposed* when the
resolution of an earlier episode clears the tombstone that was its own
(`ClearTombstone`), or the resolution of its own does so while a request has
passed the check of open episodes. Beside such a thread the code starts another
one, and `OneNativeThread` says what remains: of the threads in sight the session
has one at most, whatever overlaps, so that a crash forgets and a resolution
exposes one at most.

### BufferedStream, EventStream and Workspace

`BufferedStream` keeps the read-write lock, the `closed` flag and the one-time
close at their granularity, with any number of senders and closers.
`EventStream` has one turn: a supervisor and a command that may conclude it,
broadcasts to bounded channels, the events handler from registration over its
snapshot to its end, and the two steps of teardown. `Workspace` has a session's
entry, what is on disk, the repository's branch, births (serialised by the
service) and launches (not), failing commands and restarts.

## 3. Runs

| Run | Config | What it shows | Size |
|---|---|---|---|
| `store` | `MCSessionStore` | rows, references, receipts and versions; finality, recoverability, hydration, tools, archive; refinement of `TurnLifecycle` | 2 turns, 2 tool sets, 2 generations, 1 retried id, 9 versions; 148k states |
| `council` | `MCCouncil` | kernel episodes and refinement of `TurnLifecycle`; tally = definition; artifact records and sealed sets | 2 turns, 2 episodes; the real roster of four, a stranger, a stale set; 3 executions, 2 publishers; 420k states |
| `control` | `MCControl` | grant invariant, freshness, retirement, publication order, refinement of `RunGrant`, attachment; channels never used after close, calls return; announced streams end | 2 generations, 2 episodes each, 4 ids, 2 instances, 2 handlers; 3 threads; 2 observers; 90k states |
| `service` | `MCService` | dispatch once, no fabricated outcome, through signals, forced exit and crash; applied counts sound; an accepted idle stop is quiet | 1 turn; 2 commands and 2 instances, or polls, stops and 1 command; 3.4M states |
| `service_drain` | `MCServiceDrain` | supervisors end if their adapter answers; drains end then, unless something needs recovery; a signal ends the service whatever the adapter does | 1 turn, 1 command, a drain or a signal; 79k states |
| `children` | `MCChildren` | claude's and agy's verdicts true, one child per conversation, bounded runs, refinement of `NativeTurns`; births accounted for; roots whole | 2 turns, 2 instances; 3 creations; 4 callers and 2 faults; 3.0M states |
| `servers` | `MCServers` | verdicts true; refinement of `NativeTurns` by codex; one opencode prompt at a time, taps end with terminals | 2 turns, 2 children, 1 fault; 3.2M states |
| `service_stop` | `MCServiceStop` | **violated**: finding 1 | 1 turn, idle stops |
| `lease_session_route` | `MCSessionRoute` | **violated**: finding 2 | as `control`, both routes |
| `lease_handoff_retry` | `MCHandoffRetry` | **violated**: finding 3 | as `control` |
| `codex_absence` | `MCCodexAbsence` | **violated**: finding 4 | 1 turn, 1 child, 1 fault |
| `opencode_park` | `MCOpencodePark` | **violated**: finding 5 | as `servers` |

Why the bounds are enough. Two turns are what the store's properties speak of
(the reserved one and another). Nine versions leave room for connect, queue,
release, loss, probe, a second loss and its probe, or for two complete turns;
with a retried id, eight versions and one generation (`InBounds`). Two
generations with two episodes each give every order of publication of older and
newer ones; four operation ids are a grant, a connect, a second grant and a
connect of it, each of which may be replayed. In the service one turn suffices
for the races between its own handlers, its supervisor and the observers. For the adapters two turns are
the one that holds the native session and the one that must not enter it; two
instances are a crash and what follows; two child generations are the child
that goes away and its replacement; one fault at a time (`MaxFault`) is a crash,
a broken stream, a child's end, a lost answer, a full route or a cancellation,
and every order of the other steps around it. Three creations are one that goes
wrong, its retry, and one after a resolution. Capacities of 1 make channels
full at once. `MaxEpoch` keeps new requests from starting and lets what has
started end. `MaxVersion` bounds the model only in `Bump`; the theorems hold for
every value of it.

Deadlock is checked in `council`: the kernel can always take another call, and a
complete vote or publication rests (`Rest`). Elsewhere a bounded history ends
(versions, instances, generations, faults run out) and the configurations say so.

Fairness. `service_drain` assumes weak fairness of every handler and drain step
and of a supervisor's own steps, because goroutines run on, and strong fairness
of the two diagnostic reads, which fail now and then but not forever. It assumes
nothing of clients, of crashes, of a successful commit, and nothing of adapters:
claude's `Collect` answers pending (`claude/adapter.go:823`), and agy's running or
unavailable (`agy/adapter.go:1843-1845`), for as long as an accepted attempt stays
uncertain, and `collectUntilTerminal` polls without bound. So `WorkersRetire` is
conditional: if a supervisor is, again and again, not waiting for its adapter
(`AwaitsAdapter`), then it ends. A drain (`DrainEnds`) is held up by a supervisor
that never ends, although nothing then counts as needing recovery, so that its
end has the same condition, and that nothing needs recovery; after a signal the
grace period ends the service without any.

`control` assumes weak fairness of each step of a connect handler
(`ConnectFairness`; a read may fail, and `ConnectedGetsAttached` then promises
nothing: the controller got its receipt and has to connect again), of a stream
call that has begun (`StreamFairness`; the consumer need not receive), and of
announcements, the events handler and the forced end of a teardown that waits for
an observer (`EventFairness`, `Forced`; clients need not go away, nor the service
stop). After `CancelAll` a supervisor passes nothing on. In a behaviour of another
part these steps are not enabled, so that they ask nothing of it.

### Findings

1. **An idle stop can be accepted with a turn unresolved** (`StopVerified`). The
   stop counts blockers (`refreshDiagnosticsBound`) and decides
   (`TryStopIdle`) in two steps. A supervisor that cannot record its outcome adds
   a blocker and moves the epoch, and is still registered: the stop's refresh
   reads that epoch, leaves the turn of a live worker out, and writes 0 over the
   blocker. Then the supervisor leaves, and the stop finds neither worker nor
   blocker. The worker's retirement moves the epoch, but the count was applied
   before it. The lifetime design asks to retain the responsibility for a result
   whose persistence failed, and to check for unresolved blockers under the
   admission lock. The next instance counts the turn again, so that it is delayed
   and not lost.
2. **A replayed connect reattaches after a restart through the session route**
   (`DecisionsFresh` with both routes). `handleControllerConnect` publishes
   without the check of the durable record that `handleRunControllerConnect`
   makes. The AC-004 design rules this out. With the run route alone the property
   holds (`control`).
3. **A retried handoff clears the successor's attachment**
   (`RetriesClearNothing`). The handoff and revoke handlers invalidate the
   in-memory record after a replay as well. In the run a handoff is presented
   again before its first answer; the first handler invalidates and answers, the
   successor connects with the secret it got and is attached, and the handler of
   the replay clears that attachment. The successor must connect again; no
   authority leaks.
4. **A turn that ran is verified as absent** (`AbsentTookNothing`). Verified
   absence compares the rollout with the attempt's baseline, and for the first
   turn of a thread that baseline is taken again after the turn was accepted
   (`recordFirstAcceptance`). It may hold the turn's own entries: when the child's
   stream then breaks, the launch is recorded dead, the rollout is unchanged, and
   `Reconcile` answers that the turn is definitively missing, which the child may
   even be working on. The comment in `reconcileProtected` says
   that this proves that nothing was accepted. The service records a turn as failed
   that the model was given, and that may have changed the workspace.
5. **The opencode child can be parked under a live prompt** (`ParkIsQuiet`). The
   idle callback checks, unlocks, and parks; a prompt sent in between, or by a
   dispatch that is not registered yet, loses its child. The turn becomes
   uncertain and no verdict is false (`OpencodeVerdictsTrue`).

Seen while modelling and kept as hazards or remarks, where the service does not get
there, the consequence is bounded, or no run is spent on it:

- the claude `firstTurn` flag is read before the slot is waited for and may be
  stale;
- `SetCodexAttemptObservedStatus` is unguarded, so that a late responder can
  lower the status of an attempt whose terminal is committed, although the comment
  at `codex/responder.go:468-471` classifies the attempt uncertain only "when the
  attempt has not already reached a verified terminal (which is never
  downgraded)": the check reads the run's memory, which is told of the terminal only
  after it is committed. The terminal stays on
  record beside the status, Reconcile answers "completed" of it
  (`reconcile.go:181-188`), also of an interrupted turn, and `VerdictIsNative`
  speaks of a committed terminal whose status was not lowered;
- a turn can be concluded without a terminal event: a rejected dispatch, an
  unreadable prompt (`supervisor.go:84-107`), and a reconciliation whose request
  ends between its commit and its read-back (`commands.go:568`) broadcast nothing,
  although the comment at `commands.go:566-567` wants subscribers told of any
  terminal commit. An observer that took its snapshot before waits until it leaves
  or the service is torn down. A party that announces does end every stream
  (`ToldStreamsEnd`);
- a native thread of codex can be forgotten by a crash or exposed by a resolution
  (see `CodexCreation` above), and a second one is then started beside it;
- an observer that registers after `CloseAllSubscribers` keeps an orderly
  teardown waiting until contexts are cancelled;
- a rejected opencode dispatch deletes its reservation and only later frees the
  slot, without asking who owns it: a second call of the same turn in between
  keeps working without a slot, and the next turn is prompted beside it. With
  `LateCalls = TRUE` TLC finds `OneTurnPerNativeSession` violated in 17 steps; the
  rule is the comment at `opencode/adapter.go:69-72`;
- an unknown opencode turn that reconciliation finds missing keeps the slot
  until its own retry;
- an opencode stream that breaks between an event's id and its data resumes
  after the id, and that event is lost;
- a restart forgets workspace entries, so that a session's directory is met
  without an entry, and refused;
- members of one proposal set may have the same artifact name; a read of the set
  resolves them by author as well.

## 4. Proofs

Constants are arbitrary under the assumptions below, among them the bounds on
versions, instances, generations, creations and faults.

| Assumption | Why the code justifies it |
|---|---|
| `StoreAssumption`, `MaxGenAssumption`, `LeaseAssumption`, `KernelAssumption`, `VerdictAssumption` | a marker for "none" is no member of what it marks; bounds are natural numbers |
| `EntryAssumption`, `ArtifactsAssumption` | the same for an empty journal row and for an artifact of no execution |
| `ClaudeAssumption`, `ChildrenAssumption` | `None` stands for NULL or nil, which is no number, id, status or event; there are finitely many turns and native ids |
| `CodexServerAssumption`, `CodexAssumption` | `None` is no generation, status or outcome; bounds are natural numbers, and a thread's parked notifications have a positive capacity |
| `OpencodeAssumption` | a Dispatch or Observe call is for one turn; a turn is observed by one call, its supervisor's; `None` is no call, observer or outcome; the bound on pumps is a natural number |
| `ServiceAssumption` | there are finitely many turns, so that the counts of pending work are numbers |
| `StreamAssumption` | a stream's channel has a buffer (the adapters give it a positive constant) |
| `Routes \subseteq {"run"}`, in two theorems | the run route publishes only what the running instance committed; with the session route the statements are false (finding 2), so that they say exactly how far they hold |
| `OcHandover`, in one theorem | a turn is handed to the opencode adapter by one call, which `ServiceInv` establishes for the service, or no call reserves a turn while a rejected one is about to free its slot; without either the statement is false (see `LateCalls`) |

| Module | Theorem | Statement |
|---|---|---|
| `SessionStoreProofs` | `TypeCorrect` | `Spec => []TypeOK` |
| | `RowsAlwaysAgree` | `Spec => []StoreInv` |
| | `RestartAccepts` | `Spec => []HydrateConsistent` |
| | `LossIsRecoverable` | `Spec => []HostLossRecoverable` |
| | `ReferencesIdentify` | `Spec => []AttemptsNameExecutions` |
| | `ToolsKept` | `Spec => []ToolsAsQueued` |
| | `OutcomesAreFinal` | `Spec => TerminalIsFinal` |
| | `VersionsAreSound` | `Spec => EveryChangeMovesVersion` |
| | `ArchivesAreFrozen` | `Spec => ArchivedFrozen` |
| `SessionStoreRefinement` | `StoreImplementsLifecycle` | `Spec => ImplementsLifecycle` |
| `ControllerLeaseProofs` | `GrantsAlwaysAgree` | `Spec => [](TypeOK /\ GrantInv)` |
| | `RetiredStayRetired` | `Spec => RetiredForGood` |
| | `CurrentEpisodesGetPublished` | `Spec => CurrentIsPublished` |
| | `LeaseImplementsGrant` | `Spec => ImplementsGrant` |
| | `LeaseAlwaysSound` | run route: `Spec => []LeaseInv` |
| | `DecisionsNeedFreshAuthority` | run route: `Spec => DecisionsFresh` |
| `StreamProofs` | `SendersAreSafe` | `StreamSpec => []NoSendOnClosedChannel` |
| | `ObserversAreSafe` | `EventSpec => []StreamsAreSound` |
| | `ChannelsAlwaysSound` | `MCSpec => []ChannelsAreSound` |
| `CouncilProofs` | `KernelSafe`, `KernelAlwaysSound` | `Spec => [](TypeOK /\ EpisodeNamesTurn)`, `MCSpec => []KernelInv` |
| | `KernelRefinesLifecycle`, `KernelRunRefines` | `Spec => ImplementsLifecycle`, `MCSpec => KernelImplementsLifecycle` |
| | `TallyAlwaysCorrect` | `MCSpec => []TallyCorrect` |
| | `ArtifactsAlwaysHold` | `MCSpec => []ArtifactInv` |
| | `SealedReadsStay` | `MCSpec => SealedReadsAreStable` |
| `ServiceProofs` | `ServiceAlwaysSound` | `Spec => []ServiceInv` |
| | `OutcomesAlwaysGrounded` | `Spec => []OutcomesHaveEvidence` |
| | `AppliedCountsSound` | `Spec => AppliedCountIsSound` |
| | `IdleStopStaysQuiet` | `Spec => IdleStopIsQuiet` |
| `ChildrenProofs` | `ClaudeAlwaysTrue`, `ClaudeAlwaysHeld` | `MCSpec => []ClaudeVerdictsTrue`, `MCSpec => [](part = "claude" => OneChildPerSession)` |
| | `AgyAlwaysTrue`, `AgyAlwaysHeld` | `MCSpec => []AgyVerdictsTrue`, `MCSpec => []AgyConversationHeld` |
| | `ClaudeRefinesTurns`, `AgyRefinesTurns` | `MCSpec => ClaudeImplementsTurns`, `MCSpec => AgyImplementsTurns` |
| | `BirthsAlwaysAccounted` | `MCSpec => []BirthsAccounted` |
| | `WorkspaceAlwaysWhole` | `MCSpec => []WorkspaceIsWhole` |
| `ServersProofs` | `CodexAlwaysTrue`, `CodexAlwaysHeld` | `MCSpec => []CodexVerdictsTrue`, `MCSpec => [](part = "codex" => OneTurnPerThread)` |
| | `CodexRefinesTurns` | `MCSpec => CodexImplementsTurns` |
| | `OpencodeAlwaysTrue` | `MCSpec => []OpencodeVerdictsTrue` |
| | `OpencodeAlwaysHeld` | one call per turn, or `~LateCalls`: `MCSpec => []OpencodeSlotHeld` |

Every inductive invariant was checked by TLC on its run before it was proved.
What each adds to the property it is for:

- **Store** (`StoreInv`, itself a checked invariant, which includes the types). That a restart accepts the
  session needs the exact correspondence of reservation and live turn
  (`ReservationExact`); finality needs that an intent is resolved exactly when its
  turn is terminal (`RowsAgree`), because the acknowledgement paths look at the
  intent only; recoverability needs that an episode names a released turn that the
  reservation, if any, is for (`EpisodeWellFormed`); and references identify
  executions because an attempt is never above the current version, so a new one is
  fresh (`AttemptsDistinct`, `RowsAgree`), which receipts inherit
  (`ReceiptsAgree`). One lemma per operation, over a step that leaves turns, intents
  and reservation alone (`QuietStep`) and a journaled no-op (`NoopStep`). The
  refinement shows for each operation the step of `TurnLifecycle` it is, or that
  it stutters.
- **Lease** (`RowInv`, `LeaseInv`). What is published, is about to be, or can be
  replayed from the journal names an episode that a connect of an installed
  generation committed (`EpisodesRecorded`); without it a replayed receipt could
  publish an episode nobody opened. And the bootstrap credential's generation 0 is
  never active (`ProvenanceInactive`), which is why a revocation may clear the
  adoption flag.
- **Streams** (`StreamInv`, `EventInv`). The wait group counts exactly the senders;
  a thread that drains or finishes found the stream closed, and the channel is
  shut only when it is closed and no sender is left. A terminal event is announced
  or shown only once its outcome is committed, and an observer on the list has an
  open channel.
- **Kernel**. Exactly the active turn is live, and the session has one exactly while
  it runs (`TurnsAgree`), so that the episode opened at a loss names what is
  really running.
- **Tally**. After `n` ballots without an error the voters seen are those of the
  first `n` ballots, no two of them alike, and each candidate has as many votes as
  there are ballots for it among them (`Sums`); by induction on the number of
  ballots counted (`UpToAll`), stated of a set of natural numbers so that it needs
  no theorem with an operator for a parameter. As many different voters of the
  roster as it has members are the whole roster, which is a fact about finite
  cardinalities. The ballots may be any sequence, so that the statement holds of
  every input of `Tally` and not only of those that `Submit` builds.
- **Artifacts** (`ArtStrong`). Every commit names an installed blob, a sealed set is
  of released revisions, a receipt names the revision it made, and the published
  revisions are finitely and exactly as many as the publishing operations in the
  journal, which is what a retry could break.
- **Service** (`SvcInv`). A dispatch is due to one release handler or worker at a
  time and the phase on disk says whether it was made (`DispatchInv`); an outcome
  on its way carries its evidence (`EvidenceInv`); an accepted idle stop leaves no
  handler past the gate (`IdleInv`); a count in flight accounts for the turns that
  came and went since (`CountInv`, under an unchanged epoch).
- **Claude and agy turns** (`ClaudeInv`, `AgyInv`). The phase of the dispatch says
  what there is of the child and of the run; whoever's child is up holds the slot,
  which a resolved turn may still do; what the run knows of the child's words is
  what the child said, and a verdict on its way is already backed by it. An agy run
  that was asked to stop has the interrupt, the grace timer or a dead child.
- **Claude and agy as `NativeTurns`**. Each step moves at most one of work, prompt
  and answer, and those of one turn (`Moves`, `ClaudeTurnMoves`, `AgyTurnMoves`);
  that the move is one `NativeTurns` allows follows from the invariants above. They
  were strengthened for it: where a dispatch gives up, the turn has no child and
  got no prompt (`ClaudePhase`, `ClaudeRejection`), and whatever run or verdict
  there is is of a child that got it (`AgyGave`, a layer over `AgyInv`). The crash
  is the end of at most one turn's work, because one child at most is up.
- **Codex turns** (`CodexInv`). Turns are released in their order, one at a time and
  each when no native turn is under way (`CodexOrder`): this is so because an attempt
  stays uncertain as long as its native turn may run, whatever happens to the child,
  the call or the service, and an uncertain attempt bars the next dispatch. What the
  run was told, the rows and the outcome agree with what the child did (`KnownTrue`).
  The rollout is written by turns that began, in their order, and its completions are
  of completed turns (`RolloutTrue`), so that a completion found behind a turn's own
  opening entries is that turn's: turns released later have no entries as long as it
  is open. That the first entry of a kind is what the scan returns is a fact about
  least elements, proved from the well-foundedness of strict inclusion.
- **Codex as `NativeTurns`** (`CodexSound`, beside `CodexInv`). A committed terminal is
  of a native turn that ended, a turn that is sent has a child, and no child is
  numbered above those launched so far; so the launch of a new child cannot revive
  the work on an old turn (`ServerKeeps`: only `Exit` ends a process, and no step of
  the manager changes which of the launched ones run). Most steps are quiet: they
  leave the native turn and its child, and answer at most (`CodexQuiet`,
  `CodexQuietly`). What is left is the request, which begins the work and needs
  `CodexOrder` for its being alone, the child's own steps, and the end of a process,
  which ends the work of the one turn that it can have.
- **Opencode turns** (`OcInv`, `OcSlot`). Of the calls of a turn one holds its
  reservation, and as long as it does the turn is not registered (`CallIs`); what the
  native session took up is registered, unknown, or about to be published by its
  holder (`OcTurns`), so that a retry that finds the turn not unknown may prompt. A
  tap is of its turn's one observer, a pump that ends it has sent the terminal, and
  what a pump has in hand is over (`PumpIs`). Whoever is between taking the slot and
  publishing owns it, and so does an active prompt; a turn that is over does not; and a
  rejected call that has yet to free the slot is alone: its turn was never taken up,
  and no other call of the turn holds its reservation (`OcReleases`). That last part
  is what a late duplicate call breaks. The first invariant needs no such hypothesis,
  so that what callers are told stays true even then.
- **Births**. Of an agy birth, an open episode has one caller and a conversation
  that is not bound or recorded has its mark (`BirthInv`). Of a codex birth, who
  runs, what thread it has, and what blocks the next one (`CodexStrong`): an
  uncertain thread its runner or the tombstone, a recorded one also the open
  episode, as long as no request has passed the check of it.
- **Workspace** (`WsInv`). A placeholder belongs to the one call that allocates;
  a published entry has a whole tree; and a call that was given a root, or checks
  one, has a published entry.

The theorems about a run's `MCSpec` speak of one part of a behaviour; the lemmas
under them (`ClaudeNext`, `AgyNext`, `BirthNext`, `CodexNext` of either module,
`OcNext`, `OcSlotNext`, `WsInvNext`) are about the components' own actions.

Only model-checked is liveness (`WorkersRetire`, `DrainEnds`,
`ConnectedGetsAttached`, `CallsReturn`, `ToldStreamsEnd`): fairness and ENABLED
are out of the prover's reach.

## 5. What is not modelled, and the plan

Left out for good, because there is no state or no interleaving to explore:
request decoding, error texts, authentication, redaction, file permissions,
attestation and profile encodings, execution policy checks, the command line
and client. Schema migrations are one exclusive transaction per version before
the service serves; the process lock is the operating system's. The probes at
start run external programs once. `Store.SetControllerConnection`,
`RecordTerminalOutcome`, `RecordDispatchObservation`, `SetNativeBinding` and
`ArchiveSession` have no caller in the service at this commit and are modelled
as the API they are, and so is `CloseWorkspace`; claude's absence verification
and codex's absence redispatch have no effective caller and are left out.

The adapters are not composed with `ServiceLifecycle`: the supervisor's model
accepts every answer of the contract, and the adapters' models start from what
the store guarantees (one released turn at a time, each dispatched once by its
supervisor), which `ServiceInv` and `ImplementsLifecycle` establish.

Every invariant, action property and refinement of the passing runs is a theorem;
liveness is not. What is left is to carry the abstract specification of an
adapter further. `OpencodeTurn` is no implementation of `NativeTurns` as that
stands: the adapter may be called again for a turn that it rejected
(`RejectEarly`), so that work can begin after the answer to another call of the
same turn, and the request that begins the work also gives the prompt. It needs an
abstract specification whose answers belong to calls, of which `NativeTurns` is
the case of one call per turn. The other step is `NativeTurns` composed with
`ServiceLifecycle`, whose model of an adapter accepts every answer of the
contract.
