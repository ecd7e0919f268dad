------------------------------- MODULE Workspace -------------------------------
(***************************************************************************)
(* The workspace of one session: its entry in the manager, what is on disk *)
(* and in the source repository, and the calls that want its root.         *)
(*                                                                         *)
(* A step is one critical section of the manager's lock, or one command on *)
(* the file system or the repository.  Identifier and symlink checks are   *)
(* left out: they refuse a call before it touches anything.                *)
(***************************************************************************)
EXTENDS Naturals

CONSTANTS
  Births,    \* births of a session: serialised by a lock of the service
  Launches,  \* launches of a child: not serialised
  MaxFault   \* failed commands and restarts

Calls == Births \cup Launches

VARIABLES
  mode,      \* none, readonly (of a repository), copied (readonly of a directory), isolated
  entry,     \* the manager's entry: absent, placeholder or published
  tree,      \* what the root needs on disk: absent, partial, written or whole
  branch,    \* the worktree's branch exists in the repository
  call,      \* call[c]: where a call is
  faults     \* faults so far

wsVars == <<mode, entry, tree, branch, call, faults>>

WsInit ==
  /\ mode \in {"none", "readonly", "copied", "isolated"}
  /\ entry = "absent" /\ tree = "absent" /\ branch = FALSE /\ faults = 0
  /\ call = [c \in Calls |-> "idle"]

To(c, l) == call' = [call EXCEPT ![c] = l]
Allocating(c) == call[c] \in {"populate", "seal", "publish", "fail"}
Started == {"get", "allocate", "populate", "seal", "publish", "fail", "check"}

\* A birth holds the service's birth lock from here to its answer.
Begin(c) ==
  /\ call[c] \in {"idle", "refused"}
  /\ c \in Births => \A d \in Births : call[d] \notin Started
  /\ To(c, "get")
  /\ UNCHANGED <<mode, entry, tree, branch, faults>>

\* A placeholder has empty paths, and is found like any other entry.
GetPaths(c) ==
  /\ call[c] = "get"
  /\ To(c, CASE entry = "absent" -> "allocate"
             [] entry = "placeholder" -> "empty"
             [] OTHER -> "check")
  /\ UNCHANGED <<mode, entry, tree, branch, faults>>

\* Slip: the deferred delete is armed before the duplicate is refused.
SlipAllocateWorkspace(c) ==
  /\ call[c] = "allocate"
  /\ IF entry = "absent" THEN To(c, "populate") /\ entry' = "placeholder"
     ELSE To(c, "refused") /\ entry' = "absent"
  /\ UNCHANGED <<mode, tree, branch, faults>>

\* AllocateWorkspace, up to its first unlock.
AllocateWorkspace(c) ==
  /\ call[c] = "allocate"
  /\ IF entry = "absent" THEN To(c, "populate") /\ entry' = "placeholder"
     ELSE To(c, "refused") /\ UNCHANGED entry
  /\ UNCHANGED <<mode, tree, branch, faults>>

\* Directories are made as needed; a clone and a worktree refuse a directory with something in
\* it, a worktree also an existing branch, and a copy the read-only files of an earlier one.
CanPopulate ==
  CASE mode = "none" -> TRUE
    [] mode = "readonly" -> tree = "absent"
    [] mode = "copied" -> tree # "whole"
    [] OTHER -> tree = "absent" /\ ~branch

Populate(c) ==
  /\ call[c] = "populate" /\ CanPopulate
  /\ tree' = IF mode \in {"none", "isolated"} THEN "whole" ELSE "written"
  /\ branch' = (branch \/ mode = "isolated")
  /\ To(c, IF mode \in {"none", "isolated"} THEN "publish" ELSE "seal")
  /\ UNCHANGED <<mode, entry, faults>>

\* A command that is refused, or fails and leaves what it wrote.
PopulateFails(c) ==
  /\ call[c] = "populate"
  /\ \/ ~CanPopulate /\ UNCHANGED <<tree, branch, faults>>
     \/ /\ CanPopulate /\ faults < MaxFault /\ faults' = faults + 1
        /\ tree' \in {tree, "partial"}
        /\ branch' \in {branch, mode = "isolated"}
  /\ To(c, "fail")
  /\ UNCHANGED <<mode, entry>>

\* makeReadOnly, and its failure half way.
Seal(c) ==
  /\ call[c] = "seal"
  /\ \/ tree' = "whole" /\ To(c, "publish") /\ UNCHANGED faults
     \/ faults < MaxFault /\ faults' = faults + 1 /\ To(c, "fail") /\ UNCHANGED tree
  /\ UNCHANGED <<mode, entry, branch>>

PublishPaths(c) ==
  /\ call[c] = "publish" /\ entry' = "published" /\ To(c, "check")
  /\ UNCHANGED <<mode, tree, branch, faults>>

\* The deferred delete of the placeholder.
Fail(c) ==
  /\ call[c] = "fail" /\ entry' = "absent" /\ To(c, "refused")
  /\ UNCHANGED <<mode, tree, branch, faults>>

\* A birth refuses a workspace without a root itself, the executor refuses the launch.
CheckRoot(c) ==
  /\ call[c] \in {"check", "empty"}
  /\ To(c, IF call[c] = "check" THEN "given" ELSE "refused")
  /\ UNCHANGED <<mode, entry, tree, branch, faults>>

\* CloseWorkspace: nothing in the service calls it yet; here only when no call is under way.
\* A branch the manager does not remember is not deleted.
CloseWorkspace ==
  /\ \A c \in Calls : call[c] \notin Started \cup {"empty"}
  /\ tree # "absent"
  /\ entry' = "absent" /\ tree' = "absent"
  /\ branch' = (branch /\ entry = "absent")
  /\ call' = [c \in Calls |-> "idle"]
  /\ UNCHANGED <<mode, faults>>

\* A restart forgets the entries and ends the calls; a command that was running leaves a part.
Restart ==
  /\ faults < MaxFault /\ faults' = faults + 1
  /\ entry' = "absent"
  /\ IF \E c \in Calls : call[c] = "populate" /\ CanPopulate
     THEN tree' \in {tree, "partial"} /\ branch' \in {branch, mode = "isolated"}
     ELSE UNCHANGED <<tree, branch>>
  /\ call' = [c \in Calls |-> "idle"]
  /\ UNCHANGED mode

Allocate(c) ==
  AllocateWorkspace(c) \/ Populate(c) \/ PopulateFails(c) \/ Seal(c) \/ PublishPaths(c) \/ Fail(c)

WsNext ==
  \/ \E c \in Calls : Begin(c) \/ GetPaths(c) \/ Allocate(c) \/ CheckRoot(c)
  \/ CloseWorkspace \/ Restart

WsSpec == WsInit /\ [][WsNext]_wsVars

-----------------------------------------------------------------------------

\* A call that was given a root has a whole workspace, for as long as the process lives: no
\* other call populates it, or starts over in it, once it was published; and one call at a time
\* allocates, although GetPaths and AllocateWorkspace are two critical sections.
RootIsWhole ==
  /\ (\E c \in Calls : call[c] = "given") => entry = "published" /\ tree = "whole"
  /\ \A c, d \in Calls : Allocating(c) /\ Allocating(d) => c = d
=============================================================================
