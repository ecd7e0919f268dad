----------------------------- MODULE AgyCreation -----------------------------
(***************************************************************************)
(* The birth of an agy session.  A child started without a prompt creates  *)
(* the native conversation, so a conversation may exist before Council     *)
(* knows its id.  The service opens a durable episode, the in-flight       *)
(* marker, before the child starts and closes it in the transaction that   *)
(* binds the session; whatever else happens leaves the episode open until  *)
(* a controller resolves it, and an open episode blocks the next birth.    *)
(*                                                                         *)
(* One Council session.  Every store call may fail, authority may be lost  *)
(* at the bind, and the service may crash between any two steps.  The      *)
(* history counts a conversation from the start of its child, whether or   *)
(* not the child got as far as creating it.                                *)
(***************************************************************************)
EXTENDS Naturals

CONSTANTS
  Callers,      \* concurrent create requests
  NativeIDs,    \* the conversations a behaviour can create
  None,
  MaxEpisode,   \* bound on creation episodes
  MaxInstance   \* bound on service instances

VARIABLES
  bound,      \* native id of the session's binding, or None
  episode,    \* episode[e]: its disposition, whether it is annotated, its orphan
  inFlight,   \* s.agyInFlight: the episode of the live creation, or None
  tombstone,  \* a.uncertain holds the session
  caller,     \* caller[c]: program counter, episode and native id of a request
  resolver,   \* a resolution is committed and its tombstone not yet cleared
  issued,     \* history: issued[n] is the episode n was created under, or 0
  instance

vars == <<bound, episode, inFlight, tombstone, caller, resolver, issued, instance>>

Episodes == 1 .. MaxEpisode
NoEpisode == [state |-> "none", annotated |-> FALSE, orphan |-> None]
Idle == [pc |-> "idle", ep |-> 0, id |-> None]

Init ==
  /\ bound = None
  /\ episode = [e \in Episodes |-> NoEpisode]
  /\ inFlight = None
  /\ tombstone = FALSE
  /\ caller = [c \in Callers |-> Idle]
  /\ resolver = FALSE
  /\ issued = [n \in NativeIDs |-> 0]
  /\ instance = 1

-----------------------------------------------------------------------------
(* The episodes of the store.                                              *)

OpenEpisodes == {e \in Episodes : episode[e].state = "open"}
Unannotated(e) == episode[e].state = "open" /\ ~episode[e].annotated
Fresh(e) == episode[e].state = "none" /\ \A f \in Episodes : f < e => episode[f].state # "none"

\* insertAgyUncertaintyEpisodeTx
InsertEpisode(e, annotated, orphan) ==
  /\ Fresh(e)
  /\ episode' = [episode EXCEPT ![e] = [state |-> "open", annotated |-> annotated, orphan |-> orphan]]

\* annotateOpenAgyEpisodeTx: the outcome, and the first orphan id; another id is
\* refused.
AnnotateOpen(e, orphan) ==
  /\ episode[e].state = "open"
  /\ orphan # None => episode[e].orphan \in {None, orphan}
  /\ episode' = [episode EXCEPT ![e].annotated = TRUE,
                                ![e].orphan = IF orphan = None THEN @ ELSE orphan]

\* RecordAgyCreationUncertain: the open episode is annotated, or a new one opened.
RecordCreationUncertain(orphan) ==
  \/ \E e \in OpenEpisodes : AnnotateOpen(e, orphan)
  \/ OpenEpisodes = {} /\ \E e \in Episodes : InsertEpisode(e, TRUE, orphan)

CloseInFlight(e, disposition) ==
  /\ Unannotated(e)
  /\ episode' = [episode EXCEPT ![e].state = disposition]

-----------------------------------------------------------------------------
(* CreateAgySession in the service, createBinding in the adapter.          *)

Goto(c, l) == caller' = [caller EXCEPT ![c].pc = l]

\* Under agyBirthMu: no live creation, and in one transaction no open episode and
\* no binding; the marker is open and the creation live.
BeginCreationInFlight(c) ==
  /\ caller[c].pc = "idle"
  /\ inFlight = None
  /\ OpenEpisodes = {}
  /\ bound = None
  /\ \E e \in Episodes :
       /\ InsertEpisode(e, FALSE, None)
       /\ inFlight' = e
       /\ caller' = [caller EXCEPT ![c] = [pc |-> "create", ep |-> e, id |-> None]]
  /\ UNCHANGED <<bound, tombstone, resolver, issued, instance>>

\* ownsCreationEpisode: the caller's own marker, still unannotated.
OwnsEpisode(c) == OpenEpisodes \subseteq {caller[c].ep} /\ Unannotated(caller[c].ep)

\* The tombstone and every episode but the caller's own block the birth; a refusal
\* or a failed start proves that there is no child.
CreateBinding(c) ==
  /\ caller[c].pc = "create"
  /\ \/ /\ tombstone \/ ~OwnsEpisode(c)
        /\ Goto(c, "uncertain")
        /\ UNCHANGED issued
     \/ Goto(c, "rejected") /\ UNCHANGED issued
     \/ /\ ~tombstone /\ OwnsEpisode(c)
        /\ \E n \in {m \in NativeIDs : issued[m] = 0} :
             /\ issued' = [issued EXCEPT ![n] = caller[c].ep]
             /\ caller' = [caller EXCEPT ![c].pc = "init", ![c].id = n]
  /\ UNCHANGED <<bound, episode, inFlight, tombstone, resolver, instance>>

\* The init is lost with the id, names a malformed id, differs from the frozen
\* profile, or is the one expected.
AwaitInit(c) ==
  /\ caller[c].pc = "init"
  /\ \/ caller' = [caller EXCEPT ![c].pc = "uncertain", ![c].id = None]
     \/ Goto(c, "uncertain") \/ Goto(c, "drift") \/ Goto(c, "close")
  /\ UNCHANGED <<bound, episode, inFlight, tombstone, resolver, issued, instance>>

\* recordCreationOrphan, before the child is killed.
RecordCreationOrphan(c) ==
  /\ caller[c].pc = "drift"
  /\ \/ RecordCreationUncertain(caller[c].id) /\ Goto(c, "drifted")
     \/ Goto(c, "uncertain") /\ UNCHANGED episode
  /\ UNCHANGED <<bound, inFlight, tombstone, resolver, issued, instance>>

\* Stdin closes without a message.  A clean exit is a birth; an event after init
\* records the orphan, and every other end is uncertain.
CloseAndExit(c) ==
  /\ caller[c].pc = "close"
  /\ \/ Goto(c, "bind") /\ UNCHANGED episode
     \/ /\ Goto(c, "uncertain")
        /\ RecordCreationUncertain(caller[c].id) \/ UNCHANGED episode
  /\ UNCHANGED <<bound, inFlight, tombstone, resolver, issued, instance>>

\* CreateSession tombstones an uncertain session before it returns.
Tombstone(c) ==
  /\ caller[c].pc = "uncertain"
  /\ tombstone' = TRUE
  /\ Goto(c, "annotate")
  /\ UNCHANGED <<bound, episode, inFlight, resolver, issued, instance>>

\* The marker gains the outcome and the id, if there is one; it stays open.
SetUncertaintyOrphan(c) ==
  /\ caller[c].pc \in {"annotate", "drifted"}
  /\ Goto(c, "return")
  /\ AnnotateOpen(caller[c].ep, caller[c].id) \/ UNCHANGED episode
  /\ UNCHANGED <<bound, inFlight, tombstone, resolver, issued, instance>>

CloseNotCreated(c) ==
  /\ caller[c].pc = "rejected"
  /\ Goto(c, "return")
  /\ CloseInFlight(caller[c].ep, "not_created") \/ UNCHANGED episode
  /\ UNCHANGED <<bound, inFlight, tombstone, resolver, issued, instance>>

\* BindAgySessionClosingEpisode: the binding and the end of the marker are one
\* transaction, refused without authority; a commit may succeed and report an error.
BindClosingEpisode(c) ==
  /\ caller[c].pc = "bind"
  /\ \/ /\ bound = None
        /\ OwnsEpisode(c)
        /\ bound' = caller[c].id
        /\ episode' = [episode EXCEPT ![caller[c].ep].state = "bound"]
        /\ Goto(c, "return") \/ Goto(c, "orphan")
     \/ Goto(c, "orphan") /\ UNCHANGED <<bound, episode>>
  /\ UNCHANGED <<inFlight, tombstone, resolver, issued, instance>>

\* recordAgyBindingOrphan: unless the session is bound to this very conversation,
\* which then needs no record, it becomes the orphan of its marker, of whatever
\* episode is open, or of a new one.
RecordBindingOrphan(c) ==
  /\ caller[c].pc = "orphan"
  /\ Goto(c, "return")
  /\ \/ bound # caller[c].id /\ AnnotateOpen(caller[c].ep, caller[c].id)
     \/ bound # caller[c].id /\ RecordCreationUncertain(caller[c].id)
     \/ UNCHANGED episode
  /\ UNCHANGED <<bound, inFlight, tombstone, resolver, issued, instance>>

\* The deferred end of the live creation.
Return(c) ==
  /\ caller[c].pc = "return"
  /\ inFlight' = IF inFlight = caller[c].ep THEN None ELSE inFlight
  /\ caller' = [caller EXCEPT ![c] = Idle]
  /\ UNCHANGED <<bound, episode, tombstone, resolver, issued, instance>>

-----------------------------------------------------------------------------
(* Resolution and restart.                                                 *)

\* A controller resolves one open episode, under agyBirthMu, unless it is the
\* marker of a creation this process is running.
ResolveUncertainty(e) ==
  /\ episode[e].state = "open"
  /\ inFlight # e
  /\ ~resolver
  /\ episode' = [episode EXCEPT ![e].state = "resolved"]
  /\ resolver' = TRUE
  /\ UNCHANGED <<bound, inFlight, tombstone, caller, issued, instance>>

ClearTombstone ==
  /\ resolver
  /\ resolver' = FALSE
  /\ tombstone' = FALSE
  /\ UNCHANGED <<bound, episode, inFlight, caller, issued, instance>>

Crash ==
  /\ instance < MaxInstance
  /\ instance' = instance + 1
  /\ inFlight' = None
  /\ tombstone' = FALSE
  /\ resolver' = FALSE
  /\ caller' = [c \in Callers |-> Idle]
  /\ UNCHANGED <<bound, episode, issued>>

CallerStep(c) ==
  \/ BeginCreationInFlight(c) \/ CreateBinding(c) \/ AwaitInit(c) \/ RecordCreationOrphan(c)
  \/ CloseAndExit(c) \/ Tombstone(c) \/ SetUncertaintyOrphan(c) \/ CloseNotCreated(c)
  \/ BindClosingEpisode(c) \/ RecordBindingOrphan(c) \/ Return(c)

Next ==
  \/ \E c \in Callers : CallerStep(c)
  \/ \E e \in Episodes : ResolveUncertainty(e)
  \/ ClearTombstone
  \/ Crash

Spec == Init /\ [][Next]_vars

-----------------------------------------------------------------------------
(* Properties.                                                             *)

\* No conversation is lost: it is bound, or it is the orphan of some episode, or
\* the episode it was created under is open or was resolved by a controller; no
\* crash, failed write or refused bind ends an episode behind its back
\* (CreateAgySession, recordAgyBindingOrphan).
ConversationAccounted ==
  \A n \in NativeIDs : issued[n] # 0 =>
    \/ bound = n
    \/ \E e \in Episodes : episode[e].orphan = n
    \/ episode[issued[n]].state \in {"open", "resolved"}

\* Births do not overlap: one open episode at most, none once the session is bound,
\* and the live creation is the one that owns it (BeginAgyCreationInFlight,
\* ownsCreationEpisode, bindAgySession).
OneBirthAtATime ==
  /\ \A e, f \in OpenEpisodes : e = f
  /\ bound # None => OpenEpisodes = {}
  /\ \A c \in Callers : caller[c].pc \in {"init", "drift", "close", "bind"} =>
       /\ inFlight = caller[c].ep
       /\ OpenEpisodes = {caller[c].ep}
=============================================================================
