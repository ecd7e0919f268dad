------------------------------ MODULE MCChildren ------------------------------
(***************************************************************************)
(* The adapters that run one child per turn, the births of native sessions *)
(* and the workspace, for model checking.  They share no state: a          *)
(* behaviour is one of one of them, and a variable that it does not have   *)
(* is 0.                                                                   *)
(***************************************************************************)
EXTENDS ClaudeTurn

CONSTANTS
  MaxTurn, InterruptSupported,                        \* AgyTurn
  Conversations, MaxBirthInstance,                    \* AgyCreation
  MaxEpisode, MaxCreation,                            \* AgyCreation, CodexCreation
  Births, Launches, MaxFault                          \* Workspace

ASSUME ChildrenAssumption ==
  /\ None \notin Nat \cup Conversations \cup {"cancelled", "ok", "error", "interrupted", "drift"}
  /\ MaxEpisode \in Nat /\ MaxCreation \in Nat /\ MaxTurn \in Nat

VARIABLES
  part,                                               \* whose behaviour this is
  row, worker, cancel, early,                         \* AgyTurn
  bound, tombstone, resolver,                         \* AgyCreation and CodexCreation
  episode, inFlight,                                  \* AgyCreation
  open, episodes, current, result, pending, thread,   \* CodexCreation
  mode, entry, tree, branch, call, faults             \* Workspace

Agy == INSTANCE AgyTurn
AgyBirth == INSTANCE AgyCreation WITH NativeIDs <- Conversations, MaxInstance <- MaxBirthInstance
CodexBirth == INSTANCE CodexCreation
Workspace == INSTANCE Workspace

claudeOnly == <<turn, attempt, launch, sent, native, materialized, creation, first, parser,
                reconcile, got, said>>
turnVars == <<slot, pc, run, child>>
agyVars == <<row, worker, cancel, early>>
birthVars == <<bound, tombstone, resolver>>
agyBirthVars == <<episode, inFlight>>
codexBirthVars == <<open, episodes, current, result, pending, thread>>
workspaceVars == <<mode, entry, tree, branch, call, faults>>

NoClaude ==
  /\ turn = 0 /\ attempt = 0 /\ launch = 0 /\ sent = 0 /\ native = 0 /\ materialized = 0
  /\ creation = 0 /\ first = 0 /\ parser = 0 /\ reconcile = 0 /\ got = 0 /\ said = 0
NoTurns == slot = 0 /\ pc = 0 /\ run = 0 /\ child = 0
NoAgy == row = 0 /\ worker = 0 /\ cancel = 0 /\ early = 0
NoBirth == bound = 0 /\ tombstone = 0 /\ resolver = 0
NoAgyBirth == episode = 0 /\ inFlight = 0
NoCodexBirth ==
  /\ open = 0 /\ episodes = 0 /\ current = 0 /\ result = 0 /\ pending = 0 /\ thread = 0
NoWorkspace == mode = 0 /\ entry = 0 /\ tree = 0 /\ branch = 0 /\ call = 0 /\ faults = 0

MCInit ==
  \/ /\ part = "claude" /\ Init
     /\ NoAgy /\ NoBirth /\ NoAgyBirth /\ NoCodexBirth /\ NoWorkspace
  \/ /\ part = "agy" /\ Agy!Init
     /\ NoClaude /\ NoBirth /\ NoAgyBirth /\ NoCodexBirth /\ NoWorkspace
     /\ caller = 0 /\ issued = 0
  \/ /\ part = "agy birth" /\ AgyBirth!Init
     /\ NoClaude /\ NoTurns /\ NoAgy /\ NoCodexBirth /\ NoWorkspace
  \/ /\ part = "codex birth" /\ CodexBirth!Init
     /\ NoClaude /\ NoTurns /\ NoAgy /\ NoAgyBirth /\ NoWorkspace /\ issued = 0
  \/ /\ part = "workspace" /\ Workspace!WsInit
     /\ NoClaude /\ NoTurns /\ NoAgy /\ NoBirth /\ NoAgyBirth /\ NoCodexBirth
     /\ caller = 0 /\ issued = 0 /\ instance = 0

\* Turns, callers and native ids are interchangeable: they are used in order.
ClaudeInOrder ==
  /\ \A t, u \in Turns : t < u /\ turn[u] # "queued" => turn[t] # "queued"
  /\ \A c, d \in Callers : c < d /\ caller[d].pc # "idle" => caller[c].pc # "idle"
  /\ \A n, o \in NativeIDs : n < o /\ o \in issued => n \in issued

MCNext ==
  \/ /\ part = "claude" /\ Next /\ ClaudeInOrder'
     /\ UNCHANGED <<agyVars, birthVars, agyBirthVars, codexBirthVars, workspaceVars, part>>
  \/ /\ part = "agy" /\ Agy!Next
     /\ UNCHANGED <<claudeOnly, birthVars, agyBirthVars, codexBirthVars, workspaceVars, part>>
     /\ UNCHANGED <<caller, issued>>
  \/ /\ part = "agy birth" /\ AgyBirth!Next
     /\ UNCHANGED <<claudeOnly, turnVars, agyVars, codexBirthVars, workspaceVars, part>>
  \/ /\ part = "codex birth" /\ CodexBirth!Next
     /\ UNCHANGED <<claudeOnly, turnVars, agyVars, agyBirthVars, workspaceVars, issued, part>>
  \/ /\ part = "workspace" /\ Workspace!WsNext
     /\ UNCHANGED <<claudeOnly, turnVars, agyVars, birthVars, agyBirthVars, codexBirthVars>>
     /\ UNCHANGED <<caller, issued, instance, part>>

MCSpec ==
  MCInit /\ [][MCNext]_<<vars, agyVars, birthVars, agyBirthVars, codexBirthVars, workspaceVars, part>>

-----------------------------------------------------------------------------

\* What the claude adapter says of a turn is so: a turn it rejected never reached a child, and
\* a verdict is that of a child that printed its result.
ClaudeVerdictsTrue == part = "claude" => TypeOK /\ RejectedNeverSent /\ VerdictHasResult

\* What the agy adapter says of a turn is so: a turn it rejected never reached a child, and a
\* verdict was verified against the conversation.
AgyVerdictsTrue == part = "agy" => Agy!RejectedNeverSent /\ Agy!VerdictIsVerified

\* A conversation has one child at a time, and every child is waited for a bounded time.
AgyConversationHeld == part = "agy" => Agy!OneChildPerConversation /\ Agy!RunIsBounded

\* Both adapters keep the promise of NativeTurns: one turn at a time is worked on, each once,
\* and an answer is final, given only when the work is over and true of the prompt, although
\* answers come from the run, a reconciliation or the next instance.  (A step that leaves what
\* the mapping reads is none of NativeTurns; TLC is spared the mapping of it.)
ClaudeImplementsTurns ==
  /\ part = "claude" => Native!Init
  /\ [][part = "claude" =>
          UNCHANGED <<turn, attempt, child, got>> \/ UNCHANGED Native!vars \/ Native!Next]_vars
AgyImplementsTurns ==
  /\ part = "agy" => Agy!Native!Init
  /\ [][part = "agy" =>
          UNCHANGED <<row, child>> \/ UNCHANGED Agy!Native!vars \/ Agy!Native!Next]_(Agy!vars)

\* Births, within one process and across restarts: concurrent requests for a claude session
\* agree on its identity; an agy conversation is bound, or on record as an orphan, or its
\* creation is marked, and one birth is under way at a time.  A codex session has one thread
\* at most that is live, bound, or uncertain and still blocking.  That excepts what the code
\* loses sight of: a thread whose process crashed before its outcome was on record, and one
\* whose tombstone was cleared by the resolution of an earlier episode.
BirthsAccounted ==
  /\ part = "claude" => SharedIdentity
  /\ part = "agy birth" => AgyBirth!ConversationAccounted /\ AgyBirth!OneBirthAtATime
  /\ part = "codex birth" => CodexBirth!OneNativeThread

\* A call that was given a workspace's root has a whole workspace for as long as the process
\* lives, and one call at a time allocates.
WorkspaceIsWhole == part = "workspace" => Workspace!RootIsWhole
=============================================================================
