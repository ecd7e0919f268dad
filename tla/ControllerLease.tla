--------------------------- MODULE ControllerLease ---------------------------
(***************************************************************************)
(* A run's controller authority: its rows in `controller_leases`, the two  *)
(* authority columns of its row in `runs`, the journal of the operations   *)
(* on them, and the attachment the running service instance keeps in       *)
(* memory.                                                                 *)
(*                                                                         *)
(* A store operation is one immediate transaction and one action.  What an *)
(* HTTP handler does around it - its reads through the separate read pool, *)
(* the publication or the invalidation of the in-memory attachment - are   *)
(* steps of their own: a handler that has something left to do is a record *)
(* in `tasks`.  Refused calls change nothing and are not actions.          *)
(*                                                                         *)
(* Two names are given to random values.  The lease secret of generation g *)
(* is g; generation 0 is the bootstrap credential the run was created      *)
(* with.  The attachment id that a connect draws is the revision the same  *)
(* statement gives the row: <<g, r>> names one attachment episode.         *)
(***************************************************************************)
EXTENDS Naturals, FiniteSets

CONSTANTS
  OpIDs,       \* operation ids; a caller may present one again
  NoOp, NoEntry, NoLease, NoAttachment,
  Routes,      \* connect routes in use: a subset of {"run", "session"}
  MaxGen,      \* bound on generations
  MaxRev,      \* bound on attachment episodes of a generation
  MaxInstance, \* bound on service instances
  MaxTasks     \* bound on handlers in flight

Gens == 0 .. MaxGen
Revs == 0 .. MaxRev

ASSUME LeaseAssumption ==
  /\ MaxGen \in Nat
  /\ MaxRev \in Nat
  /\ MaxInstance \in Nat
  /\ NoOp \notin OpIDs
  /\ NoLease \notin Gens
  /\ NoAttachment \notin Gens \X Revs

VARIABLES
  status,      \* status[g]: the status column of generation g, or "none"
  grantedBy,   \* grantedBy[g]: the operation that installed g
  online,      \* online[g]: the connected column
  episode,     \* episode[g]: the attachment_id column; 0 for NULL
  rev,         \* rev[g]: the attachment_rev column
  owner,       \* owner[g]: the instance_id column
  runLease,    \* runs.controller_lease
  adopted,     \* runs.controller_adopted
  journal,     \* journal[o]: what operation o committed
  instance,    \* the service instance that is running
  attachment,  \* the coordinator's attachment record of the run
  tasks,       \* handlers in flight
  known,       \* the lease secrets some response has carried
  fresh        \* history: the episodes this instance established

rowVars == <<status, grantedBy, online, episode, rev, owner, runLease, adopted>>
memVars == <<instance, attachment, fresh>>
vars == <<rowVars, journal, memVars, tasks, known>>

Retired == {"superseded", "revoked"}

\* What the command fingerprint binds: the command, how it was authorized, the
\* generation it expects, and the operation or the attachment it is about.
Request(cmd, mode, g, src, att) ==
  [cmd |-> cmd, mode |-> mode, gen |-> g, src |-> src, att |-> att]

Requests ==
  [cmd : {"adopt", "handoff", "revoke", "recover", "connect", "disconnect"},
   mode : {"bootstrap", "recovery", "controller"},
   gen : Gens, src : OpIDs \cup {NoOp}, att : Revs]

\* What the journal keeps of an operation: its request, and the revision or the
\* episode its receipt names.
Entry == [req : Requests, rev : Revs]

ASSUME EntryAssumption == NoEntry \notin Entry

\* A handler of a handoff or a revocation ("retire", or "again" if it was replayed)
\* holds the generation whose secret its answer will carry; 0 if it carries none.
Tasks ==
  [kind : {"connect", "decision", "retire", "again", "disconnect"},
   stage : {"rows", "adopted", "publish", "unread", "check", "decide", "clear"},
   lease : Gens, gen : Gens, rev : Revs]

\* Every column, receipt and handler in flight has a value of its domain.
TypeOK ==
  /\ status \in [Gens -> {"none", "legacy", "active"} \cup Retired]
  /\ grantedBy \in [Gens -> OpIDs \cup {NoOp}]
  /\ online \in [Gens -> BOOLEAN]
  /\ episode \in [Gens -> Revs]
  /\ rev \in [Gens -> Revs]
  /\ owner \in [Gens -> Nat]
  /\ runLease \in Gens \cup {NoLease}
  /\ adopted \in BOOLEAN
  /\ journal \in [OpIDs -> Entry \cup {NoEntry}]
  /\ instance \in Nat
  /\ attachment \in (Gens \X Revs) \cup {NoAttachment}
  /\ tasks \subseteq Tasks
  /\ known \subseteq Gens
  /\ fresh \subseteq Gens \X Revs

\* A run as CreateRun leaves it: the bootstrap credential is on generation 0's
\* provenance row and on the run's row, and authorizes no controller command.
Init ==
  /\ status = [g \in Gens |-> IF g = 0 THEN "legacy" ELSE "none"]
  /\ grantedBy = [g \in Gens |-> NoOp]
  /\ online = [g \in Gens |-> FALSE]
  /\ episode = [g \in Gens |-> 0]
  /\ rev = [g \in Gens |-> 0]
  /\ owner = [g \in Gens |-> 0]
  /\ runLease = 0
  /\ adopted = FALSE
  /\ journal = [o \in OpIDs |-> NoEntry]
  /\ instance = 1
  /\ attachment = NoAttachment
  /\ tasks = {}
  /\ known = {0}
  /\ fresh = {}

-----------------------------------------------------------------------------
(* Credentials and the journal.                                            *)

\* classifyCredential, controller class: the presented secret is the one of the
\* adopted, active generation g and of the run's row.
Classifies(l, g) ==
  /\ l = g
  /\ status[g] = "active"
  /\ adopted
  /\ runLease = l

Unused(o) == journal[o] = NoEntry

Replays(o, req) == journal[o] # NoEntry /\ journal[o].req = req

RecordJournalEntry(o, req, r) ==
  journal' = [journal EXCEPT ![o] = [req |-> req, rev |-> r]]

Newest == CHOOSE g \in Gens :
            /\ status[g] # "none"
            /\ \A h \in Gens : status[h] # "none" => h <= g

NewestWith(S) == {g \in Gens : /\ status[g] \in S
                               /\ \A h \in Gens : status[h] \in S => h <= g}

Task(kind, stage, l, g, r) ==
  [kind |-> kind, stage |-> stage, lease |-> l, gen |-> g, rev |-> r]

Spawn(t) ==
  /\ Cardinality(tasks \cup {t}) <= MaxTasks
  /\ tasks' = tasks \cup {t}

-----------------------------------------------------------------------------
(* Grant administration.                                                   *)

\* A response carries the secret, and may be lost on its way.
Tell(g) == known' \in {known, known \cup {g}}

\* Slip: whatever generation is on record.
SlipDisclosable(g) == status[g] # "none"

\* Replays and recoveries disclose a secret only while its generation is active.
Disclosable(g) == status[g] = "active"

\* The secret that the answer to an operation on generation g carries.  (The
\* bootstrap credential, 0, is told to nobody new.)
Carried(g) == IF Disclosable(g) THEN g ELSE 0

\* resolveGrantReplay: the committed receipt again, of the generation it issued.
ResolveGrantReplay(o, req, g) ==
  /\ Replays(o, req)
  /\ grantedBy[g] = o
  /\ UNCHANGED <<rowVars, journal>>

\* Slip: counts the generations in force, although rows of retired ones stay.
SlipNextGen == Cardinality({g \in Gens : status[g] \in {"legacy", "active"}})

NextGen == Newest + 1

\* installGrant: the next generation becomes active and is not connected; the
\* provenance row is retired, and with it the rows the caller retires.
InstallGrant(o, req, retiring) ==
  /\ NextGen \in Gens
  /\ status' = [g \in Gens |->
       CASE g = NextGen -> "active"
         [] g # NextGen /\ (status[g] \in retiring \/ (g = 0 /\ status[g] = "legacy")) -> "superseded"
         [] OTHER -> status[g]]
  /\ grantedBy' = [grantedBy EXCEPT ![NextGen] = o]
  /\ online' = [g \in Gens |-> online[g] /\ g # NextGen /\ status[g] \notin retiring]
  /\ episode' = [g \in Gens |->
       IF g = NextGen \/ status[g] \in retiring THEN 0 ELSE episode[g]]
  /\ rev' = [rev EXCEPT ![NextGen] = 0]
  /\ owner' = [owner EXCEPT ![NextGen] = 0]
  /\ runLease' = NextGen
  /\ adopted' = TRUE
  /\ RecordJournalEntry(o, req, 0)

\* AdoptController, with the bootstrap credential or as operator recovery of the
\* newest generation that is provenance or revoked.
AdoptController(o, mode, e, l) ==
  LET req == Request("adopt", mode, e, NoOp, 0) IN
  /\ \/ \E g \in Gens : ResolveGrantReplay(o, req, g) /\ Tell(Carried(g))
     \/ /\ Unused(o)
        /\ ~adopted
        /\ \/ mode = "recovery" /\ e \in NewestWith({"legacy", "revoked"})
           \/ mode = "bootstrap" /\ e = 0 /\ l = runLease
        /\ InstallGrant(o, req, {})
        /\ Tell(NextGen)
  /\ UNCHANGED <<memVars, tasks>>

\* HandoffController.  The handler, replayed or not, is left to invalidate the
\* attachment and then to answer with the secret that the transaction returned.
HandoffController(o, e, l) ==
  LET req == Request("handoff", "controller", e, NoOp, 0) IN
  /\ e > 0
  /\ \/ \E g \in Gens :
          /\ ResolveGrantReplay(o, req, g)
          /\ Spawn(Task("again", "clear", 0, Carried(g), 0))
     \/ /\ Unused(o)
        /\ Classifies(l, e)
        /\ InstallGrant(o, req, {"active"})
        /\ Spawn(Task("retire", "clear", 0, NextGen, 0))
  /\ UNCHANGED <<memVars, known>>

StaysAdopted(g) == adopted /\ g = 0

\* RevokeController, by the controller itself (classified before any replay) or
\* as operator recovery of the newest grant in force.
RevokeController(o, mode, e, l) ==
  LET req == Request("revoke", mode, e, NoOp, 0) IN
  /\ mode = "controller" => Classifies(l, e)
  /\ \/ /\ Replays(o, req)
        /\ Spawn(Task("again", "clear", 0, 0, 0))
        /\ UNCHANGED <<rowVars, journal>>
     \/ /\ Unused(o)
        /\ mode = "recovery" => e \in NewestWith({"legacy", "active"})
        /\ status' = [status EXCEPT ![e] = "revoked"]
        /\ online' = [online EXCEPT ![e] = FALSE]
        /\ episode' = [episode EXCEPT ![e] = 0]
        /\ runLease' = NoLease
        /\ adopted' = StaysAdopted(e)
        /\ RecordJournalEntry(o, req, 0)
        /\ Spawn(Task("retire", "clear", 0, 0, 0))
        /\ UNCHANGED <<grantedBy, rev, owner>>
  /\ UNCHANGED <<memVars, known>>

\* RecoverControllerCredential: the operator reads the secret that operation src
\* issued, again and again as long as its generation is active.
RecoverControllerCredential(o, src, e) ==
  LET req == Request("recover", "recovery", e, src, 0) IN
  /\ \/ Replays(o, req) /\ UNCHANGED journal
     \/ Unused(o) /\ RecordJournalEntry(o, req, 0)
  /\ journal[src] # NoEntry /\ journal[src].req.cmd \in {"adopt", "handoff"}
  /\ e > 0 /\ grantedBy[e] = src
  /\ Disclosable(e)
  /\ Tell(e)
  /\ UNCHANGED <<rowVars, memVars, tasks>>

-----------------------------------------------------------------------------
(* Attachment.                                                             *)

\* ConnectRunController and what the route's handler is left to do with the
\* receipt: handleRunControllerConnect inspects the durable record before it
\* publishes, handleControllerConnect (the session route) publishes at once.
ConnectRunController(o, route, g, l) ==
  LET req == Request("connect", "controller", g, NoOp, 0)
      Continue(r) == Spawn(Task("connect", IF route = "run" THEN "rows" ELSE "publish", 0, g, r))
  IN
  /\ g > 0
  /\ Classifies(l, g)
  /\ \/ /\ Replays(o, req)
        /\ Continue(journal[o].rev)
        /\ UNCHANGED <<rowVars, journal, fresh>>
     \/ /\ Unused(o)
        /\ rev[g] < MaxRev
        /\ rev' = [rev EXCEPT ![g] = @ + 1]
        /\ episode' = [episode EXCEPT ![g] = rev[g] + 1]
        /\ owner' = [owner EXCEPT ![g] = instance]
        /\ online' = [online EXCEPT ![g] = TRUE]
        /\ RecordJournalEntry(o, req, rev[g] + 1)
        /\ fresh' = fresh \cup {<<g, rev[g] + 1>>}
        /\ Continue(rev[g] + 1)
        /\ UNCHANGED <<status, grantedBy, runLease, adopted>>
  /\ UNCHANGED <<instance, attachment, known>>

\* A disconnect ends the episode it names, if that is the current one.
Ends(g, att) == online[g] /\ episode[g] = att

\* DisconnectRunController; att = 0 stands for an attachment id that names no
\* episode of generation g.  The receipt says which episode it ended, if any.
DisconnectRunController(o, g, l, att) ==
  LET req == Request("disconnect", "controller", g, NoOp, att)
      Continue(ended) == IF ended = 0 THEN UNCHANGED tasks
                                      ELSE Spawn(Task("disconnect", "clear", 0, g, ended))
  IN
  /\ g > 0
  /\ Classifies(l, g)
  /\ \/ /\ Replays(o, req)
        /\ Continue(journal[o].rev)
        /\ UNCHANGED <<rowVars, journal>>
     \/ /\ Unused(o)
        /\ IF Ends(g, att)
           THEN /\ online' = [online EXCEPT ![g] = FALSE]
                /\ episode' = [episode EXCEPT ![g] = 0]
                /\ RecordJournalEntry(o, req, att)
                /\ Continue(att)
                /\ UNCHANGED <<status, grantedBy, rev, owner, runLease, adopted>>
           ELSE /\ RecordJournalEntry(o, req, 0)
                /\ Continue(0)
                /\ UNCHANGED rowVars
  /\ UNCHANGED <<memVars, known>>

\* Slip: orders by revision alone, although every generation counts its own.
SlipOutranks(e) ==
  /\ attachment # NoAttachment
  /\ \/ attachment[2] > e[2]
     \/ attachment[2] = e[2] /\ attachment # e

\* Slip: the first publication wins.
SlipOutranksFirst(e) == attachment # NoAttachment

\* MarkControllerAttached keeps the published episode if it is a later one:
\* generations order first, revisions within a generation.  (Two ids with one
\* generation and one revision, which the code also guards against, are one id.)
Outranks(e) ==
  /\ attachment # NoAttachment
  /\ \/ attachment[1] > e[1]
     \/ attachment[1] = e[1] /\ attachment[2] > e[2]

\* requireConnectedController, first step: the presented secret is classified.
BeginDecision(l) ==
  /\ Classifies(l, l)
  /\ Spawn(Task("decision", "rows", l, 0, 0))
  /\ UNCHANGED <<rowVars, journal, memVars, known>>

\* GetControllerRecord reports the row of an active grant, if there is one.
ActiveGens == {g \in Gens : status[g] = "active"}

\* Slip: an episode of an earlier instance will do.
SlipOwnEpisode(t, g) == g = t.gen /\ episode[g] = t.rev

\* What handleRunControllerConnect requires of the record before it publishes.
OwnEpisode(t, g) == g = t.gen /\ episode[g] = t.rev /\ owner[g] = instance

\* GetControllerRecord, first statement: the lease rows.  A connect goes on if
\* the record is its own episode; a decision remembers the record.
ReadRows(t) ==
  /\ t.stage = "rows"
  /\ \/ \E g \in ActiveGens :
          /\ online[g]
          /\ t.kind = "connect" => OwnEpisode(t, g)
          /\ tasks' = (tasks \ {t}) \cup {[t EXCEPT !.stage = "adopted", !.gen = g, !.rev = episode[g]]}
     \/ /\ \A g \in ActiveGens : ~(online[g] /\ (t.kind = "connect" => OwnEpisode(t, g)))
        /\ tasks' = tasks \ {t}
  /\ UNCHANGED <<attachment, known>>

\* GetControllerRecord, second statement: the run's adoption flag.
ReadAdopted(t) ==
  /\ t.stage = "adopted"
  /\ tasks' = (tasks \ {t}) \cup
       (IF adopted
        THEN {[t EXCEPT !.stage = IF t.kind = "connect" THEN "publish" ELSE "check"]}
        ELSE {})
  /\ UNCHANGED <<attachment, known>>

\* Either statement fails, or the request's context has ended: a decision is
\* refused, and a connect answers with its receipt although it publishes nothing.
ReadFails(t) ==
  /\ t.stage \in {"rows", "adopted"}
  /\ tasks' = (tasks \ {t}) \cup
       (IF t.kind = "connect" THEN {[t EXCEPT !.stage = "unread"]} ELSE {})
  /\ UNCHANGED <<attachment, known>>

AnswerUnread(t) ==
  /\ t.stage = "unread"
  /\ tasks' = tasks \ {t}
  /\ UNCHANGED <<attachment, known>>

\* MarkControllerAttached.
Publish(t) ==
  /\ t.stage = "publish"
  /\ tasks' = tasks \ {t}
  /\ UNCHANGED known
  /\ attachment' = IF Outranks(<<t.gen, t.rev>>) THEN attachment ELSE <<t.gen, t.rev>>

\* ControllerAttachedEpisode: the exact durable identity is the published one.
AttachedEpisode(t) == attachment = <<t.gen, t.rev>>

CheckAttached(t) ==
  /\ t.stage = "check"
  /\ tasks' = (tasks \ {t}) \cup
       (IF AttachedEpisode(t) THEN {[t EXCEPT !.stage = "decide"]} ELSE {})
  /\ UNCHANGED <<attachment, known>>

\* The decision's own transaction classifies the secret again and requires the
\* active grant to be connected.
Admissible(t) == Classifies(t.lease, t.lease) /\ online[t.lease]

Decide(t) ==
  /\ t.stage = "decide"
  /\ Admissible(t)
  /\ tasks' = tasks \ {t}
  /\ UNCHANGED <<attachment, known>>

RefuseDecision(t) ==
  /\ t.stage = "decide"
  /\ ~Admissible(t)
  /\ tasks' = tasks \ {t}
  /\ UNCHANGED <<attachment, known>>

\* InvalidateControllerAttachment after a handoff or a revocation, and then the
\* answer; InvalidateControllerAttachmentIf, of the exact episode, after a disconnect.
Invalidate(t) ==
  /\ t.stage = "clear"
  /\ tasks' = tasks \ {t}
  /\ \/ /\ t.kind # "disconnect"
        /\ attachment' = NoAttachment
        /\ Tell(t.gen)
     \/ /\ t.kind = "disconnect"
        /\ attachment' = IF attachment = <<t.gen, t.rev>> THEN NoAttachment ELSE attachment
        /\ UNCHANGED known

\* One step of the handler t.
HandlerStep(t) ==
  /\ \/ ReadRows(t) \/ ReadAdopted(t) \/ ReadFails(t) \/ AnswerUnread(t) \/ Publish(t)
     \/ CheckAttached(t) \/ Decide(t) \/ RefuseDecision(t) \/ Invalidate(t)
  /\ UNCHANGED <<rowVars, journal, instance, fresh>>

\* The service crashes or stops, and the next instance starts on the same file.
\* Everything in memory is gone; a persisted connection is left as it was.
Restart ==
  /\ instance < MaxInstance
  /\ instance' = instance + 1
  /\ attachment' = NoAttachment
  /\ tasks' = {}
  /\ fresh' = {}
  /\ UNCHANGED <<rowVars, journal, known>>

-----------------------------------------------------------------------------
OperatorCommand(o) ==
  \/ \E e \in Gens, mode \in {"bootstrap", "recovery"}, l \in known :
       AdoptController(o, mode, e, l)
  \/ \E e \in Gens : RevokeController(o, "recovery", e, 0)
  \/ \E src \in OpIDs, e \in Gens : RecoverControllerCredential(o, src, e)

ControllerCommand(o) ==
  \E l \in known, g \in Gens :
    \/ HandoffController(o, g, l)
    \/ RevokeController(o, "controller", g, l)
    \/ \E route \in Routes : ConnectRunController(o, route, g, l)
    \/ \E att \in Revs : DisconnectRunController(o, g, l, att)

Next ==
  \/ \E o \in OpIDs : OperatorCommand(o) \/ ControllerCommand(o)
  \/ \E l \in known : BeginDecision(l)
  \/ \E t \in tasks : HandlerStep(t)
  \/ Restart

Spec == Init /\ [][Next]_vars

-----------------------------------------------------------------------------
(* Safety.                                                                 *)

\* The rows and the run agree on who is in force: generations are installed
\* without gaps, only the newest can be active, the adoption flag and the run's
\* lease column say exactly which one is, only an active grant is connected, and
\* an active grant's secret can still be recovered through its issuance.
GrantInv ==
  /\ \E n \in Gens : \A g \in Gens : status[g] # "none" <=> g <= n
  /\ \A g, h \in Gens : status[g] = "active" /\ status[h] # "none" => h <= g
  /\ \A g \in Gens : status[g] = "legacy" => g = 0 /\ \A h \in Gens : h > 0 => status[h] = "none"
  /\ adopted <=> \E g \in Gens : status[g] = "active"
  /\ \A g \in Gens :
       /\ status[g] \in {"active", "legacy"} <=> runLease = g
       /\ online[g] => status[g] = "active" /\ episode[g] = rev[g] /\ rev[g] > 0
       /\ ~online[g] => episode[g] = 0
       /\ g > 0 /\ status[g] # "none" =>
            /\ grantedBy[g] \in OpIDs
            /\ journal[grantedBy[g]] # NoEntry
            /\ journal[grantedBy[g]].req.cmd \in {"adopt", "handoff"}

\* Where an attachment, or a handler about to publish or to use one, comes from:
\* from an episode that the running instance established itself.
FreshInv ==
  /\ \A g \in Gens : owner[g] <= instance
  /\ \A g \in Gens : online[g] /\ owner[g] = instance => <<g, episode[g]>> \in fresh
  /\ attachment # NoAttachment => attachment \in fresh
  /\ \A t \in tasks :
       /\ t.kind = "connect" => t.stage \in {"rows", "adopted", "publish", "unread"}
       /\ t.kind = "decision" =>
            /\ t.stage \in {"rows", "adopted", "check", "decide"}
            /\ status[t.lease] \in {"active"} \cup Retired
            /\ t.stage # "rows" => t.gen = t.lease \/ status[t.lease] \in Retired
       /\ t.kind \in {"retire", "again", "disconnect"} => t.stage = "clear"
       /\ t.kind = "connect" /\ t.stage \in {"adopted", "publish"} => <<t.gen, t.rev>> \in fresh
       /\ t.stage = "decide" => <<t.gen, t.rev>> \in fresh

\* The invariants of the lease, together.
LeaseInv == TypeOK /\ GrantInv /\ FreshInv

\* The secrets that answers have carried, or will carry unless they get lost.
Disclosed == known \cup {t.gen : t \in {u \in tasks : u.kind \in {"retire", "again"}}}

\* A generation that was superseded or revoked is so for good: no adoption,
\* handoff, connect or replay brings it back in force or connects it, and no
\* transaction returns its secret, although a lost response is answered again
\* while the grant is active.
RetiredForGood ==
  [][/\ \A g \in Gens :
          status[g] \in Retired =>
            /\ status'[g] = status[g]
            /\ ~online'[g]
            /\ runLease' # g
     /\ \A g \in Disclosed' \ Disclosed : status'[g] = "active"]_vars

\* A persisted connection, and the replayed connect of an earlier instance,
\* authorize nothing: a decision is made only by a controller that connected
\* while this instance was running.
DecisionsFresh ==
  [][\A t \in tasks : Decide(t) => \E r \in Revs : <<t.lease, r>> \in fresh]_vars

\* The episode that generation g is connected with.
CurrentEpisode(g, r) == status[g] = "active" /\ online[g] /\ episode[g] = r

\* Publications arrive in any order, of any generation, and the current episode
\* is never kept out by one of them: generations are compared before revisions,
\* which restart with every generation.
CurrentIsPublished ==
  [][\A t \in tasks :
       Publish(t) /\ CurrentEpisode(t.gen, t.rev) => attachment' = <<t.gen, t.rev>>]_vars

\* A handoff that is presented again, when its first handler is done, does not end
\* the attachment of the very successor it installed: the in-memory record is
\* "published or cleared only when the corresponding authoritative transition still
\* matches" (AC-004 design, section 7).
RetriesClearNothing ==
  [][\A t \in tasks, r \in Revs :
       /\ t.kind = "again" /\ Invalidate(t)
       /\ \A u \in tasks : u.kind # "retire"
       => ~(attachment = <<t.gen, r>> /\ CurrentEpisode(t.gen, r))]_vars

-----------------------------------------------------------------------------
(* The abstract grant that the rest of the store runs on.                  *)

Grant == INSTANCE RunGrant WITH
  gen <- Newest,
  active <- \E g \in Gens : status[g] = "active",
  connected <- \E g \in Gens : online[g],
  legacy <- status[0] = "legacy"

\* The rows, credentials, replays and recoveries implement the grant of
\* RunGrant: its generation only grows, and one step installs, retires, connects
\* or disconnects it.
ImplementsGrant == Grant!GrantSpec

-----------------------------------------------------------------------------
(* Liveness.                                                               *)

\* A handler that has started runs to its end unless the process dies.
ConnectStep(stage, g, r) ==
  LET t == Task("connect", stage, 0, g, r) IN t \in tasks /\ HandlerStep(t)

ConnectFairness ==
  \A stage \in {"rows", "adopted", "publish"}, g \in Gens \ {0}, r \in Revs \ {0} :
    WF_vars(ConnectStep(stage, g, r))

FairSpec == Spec /\ ConnectFairness

\* A connect whose episode is still the current one of this instance gets
\* attached: no earlier generation, and no late publication, keeps the controller
\* out.  Only a read of its own record that fails does: then the handler answers
\* unattached, and the connect has to be presented again.
ConnectedGetsAttached ==
  \A g \in Gens, r \in Revs :
    (/\ \E t \in tasks : t.kind = "connect" /\ t.stage # "unread" /\ t.gen = g /\ t.rev = r
     /\ CurrentEpisode(g, r)
     /\ owner[g] = instance)
    ~> (\/ attachment = <<g, r>>
        \/ ~CurrentEpisode(g, r)
        \/ owner[g] # instance
        \/ Task("connect", "unread", 0, g, r) \in tasks)
=============================================================================
