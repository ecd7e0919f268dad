------------------------------- MODULE Artifacts -------------------------------
(***************************************************************************)
(* Artifact revisions and sealed proposal sets of one run: the content-    *)
(* addressed blobs on disk, the rows that name them, publication by the    *)
(* operator, ingestion of what an execution produced, sealing by the       *)
(* controller, and the two read paths.                                     *)
(*                                                                         *)
(* A content stands for its digest.  A write transaction is one step; what *)
(* PublishArtifact does on the read pool and on the disk before it opens   *)
(* its transaction are steps of their own.  A revision is a position in    *)
(* the artifact's sequence, since max(revision) + 1 leaves no gaps.        *)
(***************************************************************************)
EXTENDS Naturals, Sequences, FiniteSets, FiniteSetsExt

CONSTANTS
  Ids,            \* artifact ids: a worker's are the names it chose
  Contents,       \* sanitized contents
  Executions,     \* references of executions (session, turn, attempt) that were released
  SessionOf,      \* the session of an execution
  ContributorOf,  \* the contributor of a session
  Publishers,     \* concurrent PublishArtifact calls
  ArtOps,         \* operation ids
  MaxRevision,    \* bound on an artifact's revisions
  NoExecution     \* the author of a published revision

ASSUME ArtifactsAssumption == NoExecution \notin Executions

VARIABLES
  blobs,      \* the contents installed on disk
  rows,       \* artifact_revisions, per artifact
  sets,       \* sealed proposal sets: sets of members
  artJournal, \* artJournal[o]: what operation o committed
  archived,   \* archived sessions
  call        \* call[p]: a publication under way

artVars == <<blobs, rows, sets, artJournal, archived, call>>

NoEntry == [cmd |-> "none"]
NoCall == [pc |-> "idle"]
Sessions == {SessionOf[e] : e \in Executions}

ArtInit ==
  /\ blobs = {}
  /\ rows = [i \in Ids |-> <<>>]
  /\ sets = {}
  /\ artJournal = [o \in ArtOps |-> NoEntry]
  /\ archived = {}
  /\ call = [p \in Publishers |-> NoCall]

CallAt(p, l) == call[p].pc = l
Finish(p) == call' = [call EXCEPT ![p] = NoCall]
Move(p, l) == call' = [call EXCEPT ![p].pc = l]

\* PublishArtifact on the read pool: the credential is classified, once (a handoff before the
\* commit changes nothing that is looked at again), and an operation on record is answered or
\* conflicts.
PublishArtifact(p, o, i, c) ==
  /\ CallAt(p, "idle") /\ artJournal[o].cmd # "publish"
  /\ call' = [call EXCEPT ![p] = [pc |-> "blob", op |-> o, id |-> i, content |-> c]]
  /\ UNCHANGED <<blobs, rows, sets, artJournal, archived>>

\* writeCASBlob: staged, synced, and linked without replacing.  It may fail: on the way, or
\* because the file that is there does not have its digest, which is not repaired.
Installed(c) == blobs' = blobs \cup {c}

WriteBlob(p) ==
  /\ CallAt(p, "blob")
  /\ \/ Installed(call[p].content) /\ Move(p, "commit")
     \/ UNCHANGED blobs /\ Finish(p)
  /\ UNCHANGED <<rows, sets, artJournal, archived>>

Row(c, e) == [content |-> c, author |-> e, released |-> FALSE, set |-> {}]
Insert(i, c, e) == Len(rows[i]) < MaxRevision /\ rows' = [rows EXCEPT ![i] = Append(@, Row(c, e))]

\* The journal is read again inside the transaction.
Recorded(p) == artJournal[call[p].op] # NoEntry

CommitPublish(p) ==
  /\ CallAt(p, "commit")
  /\ \/ /\ ~Recorded(p)
        /\ Insert(call[p].id, call[p].content, NoExecution)
        /\ artJournal' = [artJournal EXCEPT ![call[p].op] =
                            [cmd |-> "publish", id |-> call[p].id, content |-> call[p].content,
                             revision |-> Len(rows[call[p].id]) + 1]]
     \/ UNCHANGED <<rows, artJournal>>   \* a replay, a conflict, or a failed commit
  /\ Finish(p)
  /\ UNCHANGED <<blobs, sets, archived>>

Publishing(p) ==
  \/ \E o \in ArtOps, i \in Ids, c \in Contents : PublishArtifact(p, o, i, c)
  \/ WriteBlob(p) \/ CommitPublish(p)

\* Slip: the row is inserted whether or not the blob was installed.
SlipRecordObservedArtifact(e, i, c) ==
  /\ SessionOf[e] \notin archived
  /\ \A k \in DOMAIN rows[i] : rows[i][k].author # e
  /\ Insert(i, c, e)
  /\ \/ Installed(c)
     \/ UNCHANGED blobs
  /\ UNCHANGED <<sets, artJournal, archived, call>>

\* RecordObservedArtifact: the execution reference is the authority; an execution records a
\* name once.  The blob is installed inside the transaction, which may still fail.
RecordObservedArtifact(e, i, c) ==
  /\ SessionOf[e] \notin archived
  /\ \A k \in DOMAIN rows[i] : rows[i][k].author # e
  /\ Installed(c)
  /\ \/ Insert(i, c, e)
     \/ UNCHANGED rows
  /\ UNCHANGED <<sets, artJournal, archived, call>>

Member(i, k) == [id |-> i, revision |-> k, content |-> rows[i][k].content, author |-> rows[i][k].author]
Revisions == UNION {{Member(i, k) : k \in DOMAIN rows[i]} : i \in Ids}
Contributor(x) == ContributorOf[SessionOf[x.author]]

\* A set has authored members, one per contributor.
Sealable(ms) ==
  /\ ms # {}
  /\ \A x \in ms : x.author # NoExecution
  /\ \A x, y \in ms : x # y => Contributor(x) # Contributor(y)

\* ReleaseArtifacts by the current controller.  Sealing the same members under another
\* operation violates the set's key; an operation on record is answered.
ReleaseArtifacts(o, ms) ==
  /\ Sealable(ms) /\ ms \notin sets /\ artJournal[o] = NoEntry
  /\ sets' = sets \cup {ms}
  /\ rows' = [i \in Ids |-> [k \in DOMAIN rows[i] |->
                IF Member(i, k) \in ms
                THEN [rows[i][k] EXCEPT !.released = TRUE, !.set = ms]
                ELSE rows[i][k]]]
  /\ artJournal' = [artJournal EXCEPT ![o] = [cmd |-> "release", set |-> ms]]
  /\ UNCHANGED <<blobs, archived, call>>

\* The session store's part: a session is archived.  A crash ends the calls; what is on disk
\* and committed stays.
ArchiveSession(s) ==
  /\ s \notin archived /\ archived' = archived \cup {s}
  /\ UNCHANGED <<blobs, rows, sets, artJournal, call>>

CrashCalls ==
  /\ call # [p \in Publishers |-> NoCall]
  /\ call' = [p \in Publishers |-> NoCall]
  /\ UNCHANGED <<blobs, rows, sets, artJournal, archived>>

ArtNext ==
  \/ \E p \in Publishers : Publishing(p)
  \/ \E e \in Executions, i \in Ids, c \in Contents : RecordObservedArtifact(e, i, c)
  \/ \E o \in ArtOps, ms \in SUBSET Revisions : ReleaseArtifacts(o, ms)
  \/ \E s \in Sessions : ArchiveSession(s)
  \/ CrashCalls

ArtSpec == ArtInit /\ [][ArtNext]_artVars

\* Slip: membership is read from the revision's own column, which the last sealing wrote.
SlipReadReleased(ms, i) ==
  {k \in DOMAIN rows[i] : rows[i][k].released /\ rows[i][k].set = ms}

\* ReadReleasedArtifact: the revisions of an artifact that a reviewer finds in a set; the newest
\* one is returned, if its file has the digest.
ReadReleased(ms, i) ==
  {k \in DOMAIN rows[i] : rows[i][k].released /\ \E x \in ms : x.id = i /\ x.revision = k}

ReadReleasedArtifact(ms, i) == Max(ReadReleased(ms, i))

-----------------------------------------------------------------------------

\* Whatever crashes or fails, and in whatever order files and rows are written: a revision on
\* record has its file, and a sealed set is made of one revision per contributor, each on record
\* as it was sealed.
RecordsHold ==
  /\ \A x \in Revisions : x.content \in blobs
  /\ \A ms \in sets :
       /\ ms \subseteq Revisions
       /\ \A x, y \in ms : x # y => Contributor(x) # Contributor(y)

\* Retries of one publication, concurrent ones included, make one revision, and the receipt
\* names it.
OneRevisionPerOp ==
  /\ \A o \in ArtOps : artJournal[o].cmd = "publish" =>
       LET j == artJournal[o] IN Member(j.id, j.revision).content = j.content
  /\ Cardinality({x \in Revisions : x.author = NoExecution})
       = Cardinality({o \in ArtOps : artJournal[o].cmd = "publish"})

\* What a reviewer reads through a sealed set stays what it was, whatever is recorded and sealed
\* afterwards.
SealedReadsAreStable ==
  [][\A ms \in sets, i \in Ids : ReadReleased(ms, i)' = ReadReleased(ms, i)]_artVars

=============================================================================
