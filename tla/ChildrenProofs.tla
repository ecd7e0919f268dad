---------------------------- MODULE ChildrenProofs ----------------------------
(***************************************************************************)
(* What holds of the workspace, of the births of native sessions and of    *)
(* the adapters that run one child per turn, for any number of calls,      *)
(* callers, turns and instances.                                           *)
(***************************************************************************)
EXTENDS MCChildren, TLAPS

mcVars == <<vars, agyVars, birthVars, agyBirthVars, codexBirthVars, workspaceVars, part>>

-----------------------------------------------------------------------------
(* The workspace.                                                          *)

CallStates ==
  {"idle", "get", "allocate", "populate", "seal", "publish", "fail", "check", "empty", "refused", "given"}

\* The placeholder belongs to the one call that allocates; what is published is whole, and a
\* call that has a root, or is about to look at one, has a published one.
WsInv ==
  /\ call \in [Workspace!Calls -> CallStates]
  /\ entry \in {"absent", "placeholder", "published"}
  /\ \A c, d \in Workspace!Calls : Workspace!Allocating(c) /\ Workspace!Allocating(d) => c = d
  /\ \A c \in Workspace!Calls :
       /\ Workspace!Allocating(c) => entry = "placeholder"
       /\ call[c] \in {"check", "given"} => entry = "published"
       /\ call[c] = "publish" => tree = "whole"
  /\ entry = "published" => tree = "whole"

\* It holds of a new workspace.
LEMMA WsInvInit == ASSUME Workspace!WsInit PROVE WsInv
  BY DEF Workspace!WsInit, WsInv, CallStates, Workspace!Allocating

\* A call's step.
LEMMA WsInvCall ==
  ASSUME WsInv, NEW c \in Workspace!Calls,
         Workspace!Begin(c) \/ Workspace!GetPaths(c) \/ Workspace!Allocate(c) \/ Workspace!CheckRoot(c)
  PROVE  WsInv'
  <1> USE DEF WsInv, CallStates, Workspace!Allocating, Workspace!To
  <1>1. CASE Workspace!Begin(c)
    BY <1>1 DEF Workspace!Begin
  <1>2. CASE Workspace!GetPaths(c)
    <2>1. /\ call[c] = "get" /\ UNCHANGED <<entry, tree>>
          /\ \/ Workspace!To(c, "allocate") \/ Workspace!To(c, "empty")
             \/ entry # "absent" /\ entry # "placeholder" /\ Workspace!To(c, "check")
      BY <1>2, Zenon DEF Workspace!GetPaths
    <2>2. entry \in {"absent", "placeholder", "published"}
      BY DEF WsInv
    <2> QED BY <2>1, <2>2
  <1>3. CASE Workspace!AllocateWorkspace(c)
    BY <1>3 DEF Workspace!AllocateWorkspace
  <1>4. CASE Workspace!Populate(c)
    BY <1>4 DEF Workspace!Populate
  <1>5. CASE Workspace!PopulateFails(c)
    BY <1>5 DEF Workspace!PopulateFails
  <1>6. CASE Workspace!Seal(c)
    BY <1>6 DEF Workspace!Seal
  <1>7. CASE Workspace!PublishPaths(c)
    BY <1>7 DEF Workspace!PublishPaths
  <1>8. CASE Workspace!Fail(c)
    BY <1>8 DEF Workspace!Fail
  <1>9. CASE Workspace!CheckRoot(c)
    BY <1>9 DEF Workspace!CheckRoot
  <1> QED BY <1>1, <1>2, <1>3, <1>4, <1>5, <1>6, <1>7, <1>8, <1>9 DEF Workspace!Allocate

\* Every step.
LEMMA WsInvNext == ASSUME WsInv, Workspace!WsNext PROVE WsInv'
  <1>1. CASE Workspace!CloseWorkspace \/ Workspace!Restart
    <2>1. call' = [c \in Workspace!Calls |-> "idle"] /\ entry' = "absent"
      BY <1>1 DEF Workspace!CloseWorkspace, Workspace!Restart
    <2> QED BY <2>1 DEF WsInv, CallStates, Workspace!Allocating
  <1> QED BY <1>1, WsInvCall DEF Workspace!WsNext

\* A call that was given a root has a whole workspace as long as the process lives, and one
\* call at a time allocates, for any number of births, launches and faults.
THEOREM WorkspaceAlwaysWhole == MCSpec => []WorkspaceIsWhole
  <1> DEFINE I == part = "workspace" => WsInv
  <1>1. MCInit => I
    BY WsInvInit DEF MCInit
  <1>2. I /\ [MCNext]_mcVars => I'
    <2> SUFFICES ASSUME I, [MCNext]_mcVars, part' = "workspace" PROVE WsInv'
      OBVIOUS
    <2>1. CASE part = "workspace" /\ Workspace!WsNext
      BY <2>1, WsInvNext
    <2>2. CASE part = "workspace" /\ UNCHANGED mcVars
      BY <2>2 DEF WsInv, Workspace!Allocating, mcVars, workspaceVars
    <2> QED BY <2>1, <2>2 DEF MCNext, mcVars
  <1>3. I => WorkspaceIsWhole
    BY DEF WorkspaceIsWhole, Workspace!RootIsWhole, WsInv
  <1> HIDE DEF I
  <1> QED BY <1>1, <1>2, <1>3, PTL DEF MCSpec, mcVars

-----------------------------------------------------------------------------
(* The birth of an agy conversation.                                       *)

BirthStates == {"none", "open", "bound", "not_created", "resolved"}
BirthPcs ==
  {"idle", "create", "init", "drift", "close", "uncertain", "annotate", "drifted", "rejected", "bind",
   "orphan", "return"}

BirthTyped ==
  /\ bound \in Conversations \cup {None}
  /\ episode \in [AgyBirth!Episodes ->
                    [state : BirthStates, annotated : BOOLEAN, orphan : Conversations \cup {None}]]
  /\ inFlight \in AgyBirth!Episodes \cup {None}
  /\ caller \in [Callers -> [pc : BirthPcs, ep : AgyBirth!Episodes \cup {0}, id : Conversations \cup {None}]]
  /\ issued \in [Conversations -> AgyBirth!Episodes \cup {0}]

\* One request at a time gets past the marker, and it is the live creation; its episode is open
\* until it binds or gives up.
OneCreation ==
  /\ \A c \in Callers : caller[c].pc # "idle" => caller[c].ep \in AgyBirth!Episodes /\ inFlight = caller[c].ep
  /\ \A c, d \in Callers : caller[c].pc # "idle" /\ caller[d].pc # "idle" => c = d
  /\ \A c \in Callers : caller[c].pc \notin {"idle", "return", "orphan"} =>
       episode[caller[c].ep].state = "open"
  /\ \A c \in Callers : caller[c].pc = "orphan" =>
       bound = caller[c].id \/ episode[caller[c].ep].state = "open"

\* One episode is open, none once the session is bound.
OneOpen ==
  /\ \A e, f \in AgyBirth!Episodes : episode[e].state = "open" /\ episode[f].state = "open" => e = f
  /\ bound # None => \A e \in AgyBirth!Episodes : episode[e].state # "open"

\* An episode is the birth of one conversation, and of none before its child has started.
OnePerEpisode ==
  /\ \A n \in Conversations : issued[n] # 0 => episode[issued[n]].state # "none"
  /\ \A e \in AgyBirth!Episodes : episode[e].state = "none" => episode[e].orphan = None
  /\ \A c \in Callers : caller[c].pc \in {"create", "rejected"} =>
       \A n \in Conversations : issued[n] # caller[c].ep
  /\ \A c \in Callers : caller[c].pc \in {"init", "drift", "close", "bind"} =>
       /\ caller[c].id # None
       /\ \A n \in Conversations : issued[n] = caller[c].ep => n = caller[c].id

\* What the run checks, of every conversation.
Accounted ==
  \A n \in Conversations : issued[n] # 0 =>
    \/ bound = n
    \/ \E e \in AgyBirth!Episodes : episode[e].orphan = n
    \/ episode[issued[n]].state \in {"open", "resolved"}

BirthInv == BirthTyped /\ OneCreation /\ OneOpen /\ OnePerEpisode /\ Accounted

EpisodeRow == [state : BirthStates, annotated : BOOLEAN, orphan : Conversations \cup {None}]
CallerRow == [pc : BirthPcs, ep : AgyBirth!Episodes \cup {0}, id : Conversations \cup {None}]

\* A caller moves on.
LEMMA BirthGoto ==
  ASSUME BirthTyped, NEW c \in Callers, NEW l \in BirthPcs, AgyBirth!Goto(c, l)
  PROVE  /\ caller' \in [Callers -> CallerRow]
         /\ caller'[c].pc = l /\ caller'[c].ep = caller[c].ep /\ caller'[c].id = caller[c].id
         /\ \A d \in Callers \ {c} : caller'[d] = caller[d]
  <1>1. caller[c] \in CallerRow /\ caller \in [Callers -> CallerRow]
    BY DEF BirthTyped, CallerRow
  <1>2. LET r == [caller[c] EXCEPT !.pc = l]
        IN  r \in CallerRow /\ r.pc = l /\ r.ep = caller[c].ep /\ r.id = caller[c].id
    BY <1>1 DEF CallerRow
  <1>3. caller' = [caller EXCEPT ![c] = [caller[c] EXCEPT !.pc = l]]
    BY DEF AgyBirth!Goto
  <1> QED BY <1>1, <1>2, <1>3

\* An annotation changes no state and takes no orphan away.
Annotates ==
  /\ episode' \in [AgyBirth!Episodes -> EpisodeRow]
  /\ \A e \in AgyBirth!Episodes :
       /\ episode'[e].state = episode[e].state
       /\ episode[e].orphan # None => episode'[e].orphan = episode[e].orphan
       /\ episode[e].state # "open" => episode'[e] = episode[e]

\* annotateOpenAgyEpisodeTx.
LEMMA AnnotateOpenIs ==
  ASSUME BirthTyped, NEW e \in AgyBirth!Episodes, NEW o \in Conversations \cup {None},
         AgyBirth!AnnotateOpen(e, o)
  PROVE  Annotates
  <1> DEFINE r == [episode[e] EXCEPT !.annotated = TRUE,
                                     !.orphan = IF o = None THEN episode[e].orphan ELSE o]
  <1>1. episode[e] \in EpisodeRow /\ episode \in [AgyBirth!Episodes -> EpisodeRow]
    BY DEF BirthTyped, EpisodeRow
  <1>2. /\ r \in EpisodeRow /\ r.state = episode[e].state
        /\ r.orphan = IF o = None THEN episode[e].orphan ELSE o
    BY <1>1 DEF EpisodeRow
  <1>3. episode' = [episode EXCEPT ![e] = r]
    BY DEF AgyBirth!AnnotateOpen
  <1>4. episode[e].state = "open" /\ (o # None => episode[e].orphan \in {None, o})
    BY DEF AgyBirth!AnnotateOpen
  <1> HIDE DEF r
  <1> QED BY <1>1, <1>2, <1>3, <1>4 DEF Annotates

\* While an episode is open, RecordAgyCreationUncertain annotates it.
LEMMA RecordUncertainIs ==
  ASSUME BirthTyped, NEW e \in AgyBirth!Episodes, episode[e].state = "open",
         NEW o \in Conversations \cup {None}, AgyBirth!RecordCreationUncertain(o)
  PROVE  Annotates
  BY AnnotateOpenIs DEF AgyBirth!RecordCreationUncertain, AgyBirth!OpenEpisodes

\* An episode ends, or is resolved.
Closes(e, s) ==
  /\ episode' \in [AgyBirth!Episodes -> EpisodeRow]
  /\ episode'[e].state = s /\ episode'[e].orphan = episode[e].orphan
  /\ \A f \in AgyBirth!Episodes \ {e} : episode'[f] = episode[f]

\* A change of an episode's state alone.
LEMMA ClosesIs ==
  ASSUME BirthTyped, NEW e \in AgyBirth!Episodes, NEW s \in BirthStates,
         episode' = [episode EXCEPT ![e].state = s]
  PROVE  Closes(e, s)
  <1> DEFINE r == [episode[e] EXCEPT !.state = s]
  <1>1. episode[e] \in EpisodeRow /\ episode \in [AgyBirth!Episodes -> EpisodeRow]
    BY DEF BirthTyped, EpisodeRow
  <1>2. r \in EpisodeRow /\ r.state = s /\ r.orphan = episode[e].orphan
    BY <1>1 DEF EpisodeRow
  <1>3. episode' = [episode EXCEPT ![e] = r]
    OBVIOUS
  <1> HIDE DEF r
  <1> QED BY <1>1, <1>2, <1>3 DEF Closes

\* A caller moves on and its episode, if anything, is annotated; nothing else changes.
LEMMA BirthMoves ==
  ASSUME BirthInv, NEW c \in Callers, NEW l \in BirthPcs \ {"idle", "create", "init", "bind", "orphan"},
         caller[c].pc # "idle", AgyBirth!Goto(c, l),
         Annotates \/ UNCHANGED episode, UNCHANGED <<bound, inFlight, issued>>,
         l # "return" => caller[c].pc \notin {"orphan", "return"},
         l = "rejected" => caller[c].pc = "create",
         l \in {"drift", "close"} => caller[c].pc = "init"
  PROVE  BirthInv'
  <1>1. /\ caller' \in [Callers -> CallerRow]
        /\ caller'[c].pc = l /\ caller'[c].ep = caller[c].ep /\ caller'[c].id = caller[c].id
        /\ \A d \in Callers \ {c} : caller'[d] = caller[d]
    BY BirthGoto DEF BirthInv
  <1>2. /\ episode' \in [AgyBirth!Episodes -> EpisodeRow]
        /\ \A e \in AgyBirth!Episodes :
             /\ episode'[e].state = episode[e].state
             /\ episode[e].orphan # None => episode'[e].orphan = episode[e].orphan
             /\ episode[e].state = "none" => episode'[e].orphan = episode[e].orphan
    BY DEF Annotates, BirthInv, BirthTyped, EpisodeRow
  <1>3. BirthTyped'
    BY <1>1, <1>2 DEF BirthInv, BirthTyped, CallerRow, EpisodeRow
  <1>4. \A d \in Callers : caller[d].pc = "idle" \/ d = c
    BY DEF BirthInv, OneCreation
  <1>5. caller[c].ep \in AgyBirth!Episodes
    BY DEF BirthInv, OneCreation
  <1>6. OneCreation'
    BY <1>1, <1>2, <1>4, <1>5 DEF BirthInv, OneCreation
  <1>7. OneOpen'
    BY <1>2 DEF BirthInv, OneOpen
  <1>8. OnePerEpisode'
    <2>1. \A n \in Conversations : issued[n] # 0 => issued[n] \in AgyBirth!Episodes
      BY DEF BirthInv, BirthTyped
    <2> QED BY <1>1, <1>2, <1>4, <1>5, <2>1 DEF BirthInv, OnePerEpisode
  <1>9. Accounted'
    <2> SUFFICES ASSUME NEW n \in Conversations, issued[n] # 0
                 PROVE  \/ bound = n
                        \/ \E e \in AgyBirth!Episodes : episode'[e].orphan = n
                        \/ episode'[issued[n]].state \in {"open", "resolved"}
      BY DEF Accounted
    <2>1. issued[n] \in AgyBirth!Episodes /\ n # None
      BY ChildrenAssumption DEF BirthInv, BirthTyped
    <2> QED BY <1>2, <2>1 DEF BirthInv, Accounted
  <1> QED BY <1>3, <1>6, <1>7, <1>8, <1>9 DEF BirthInv

\* What binds the proofs below: episodes are numbers from 1, and None is none of them.
LEMMA EpisodeNames ==
  /\ None \notin AgyBirth!Episodes /\ 0 \notin AgyBirth!Episodes /\ None \notin Conversations
  /\ AgyBirth!Episodes \subseteq Nat
  BY ChildrenAssumption DEF AgyBirth!Episodes

\* A new marker.
LEMMA BeginBirth ==
  ASSUME BirthInv, NEW c \in Callers, AgyBirth!BeginCreationInFlight(c)
  PROVE  BirthInv'
  <1>1. PICK e \in AgyBirth!Episodes :
          /\ AgyBirth!InsertEpisode(e, FALSE, None) /\ inFlight' = e
          /\ caller' = [caller EXCEPT ![c] = [pc |-> "create", ep |-> e, id |-> None]]
    BY DEF AgyBirth!BeginCreationInFlight
  <1>2. /\ inFlight = None /\ bound = None /\ UNCHANGED <<bound, issued>>
        /\ \A f \in AgyBirth!Episodes : episode[f].state # "open"
    BY DEF AgyBirth!BeginCreationInFlight, AgyBirth!OpenEpisodes
  <1>3. /\ episode[e].state = "none"
        /\ episode' = [episode EXCEPT ![e] = [state |-> "open", annotated |-> FALSE, orphan |-> None]]
    BY <1>1 DEF AgyBirth!InsertEpisode, AgyBirth!Fresh
  <1>4. /\ episode' \in [AgyBirth!Episodes -> EpisodeRow]
        /\ episode'[e].state = "open" /\ episode'[e].orphan = None
        /\ \A f \in AgyBirth!Episodes \ {e} : episode'[f] = episode[f]
    BY <1>3 DEF BirthInv, BirthTyped, EpisodeRow, BirthStates
  <1>5. /\ caller' \in [Callers -> CallerRow]
        /\ caller'[c].pc = "create" /\ caller'[c].ep = e /\ caller'[c].id = None
        /\ \A d \in Callers \ {c} : caller'[d] = caller[d]
    BY <1>1 DEF BirthInv, BirthTyped, CallerRow, BirthPcs
  <1>6. \A d \in Callers : caller[d].pc = "idle"
    BY <1>2, EpisodeNames DEF BirthInv, OneCreation
  <1>7. BirthTyped'
    BY <1>1, <1>2, <1>4, <1>5 DEF BirthInv, BirthTyped, EpisodeRow, CallerRow
  <1>8. OneCreation'
    BY <1>1, <1>4, <1>5, <1>6 DEF OneCreation
  <1>9. OneOpen'
    BY <1>2, <1>4 DEF OneOpen
  <1>10. \A n \in Conversations : issued[n] # e /\ (issued[n] # 0 => issued[n] \in AgyBirth!Episodes)
    BY <1>3, EpisodeNames DEF BirthInv, BirthTyped, OnePerEpisode
  <1>11. OnePerEpisode'
    BY <1>2, <1>4, <1>5, <1>6, <1>10 DEF BirthInv, OnePerEpisode
  <1>12. Accounted'
    <2> SUFFICES ASSUME NEW n \in Conversations, issued[n] # 0
                 PROVE  \/ bound = n
                        \/ \E f \in AgyBirth!Episodes : episode'[f].orphan = n
                        \/ episode'[issued[n]].state \in {"open", "resolved"}
      BY <1>2 DEF Accounted
    <2>1. n # None /\ episode[e].orphan = None
      BY <1>3, EpisodeNames DEF BirthInv, OnePerEpisode
    <2> QED BY <1>4, <1>10, <2>1 DEF BirthInv, Accounted
  <1> QED BY <1>7, <1>8, <1>9, <1>11, <1>12 DEF BirthInv

\* A child is started under the marker.
LEMMA StartBirth ==
  ASSUME BirthInv, NEW c \in Callers, caller[c].pc = "create", NEW n \in Conversations, issued[n] = 0,
         issued' = [issued EXCEPT ![n] = caller[c].ep],
         caller' = [caller EXCEPT ![c].pc = "init", ![c].id = n],
         UNCHANGED <<bound, episode, inFlight>>
  PROVE  BirthInv'
  <1>1. /\ caller' \in [Callers -> CallerRow]
        /\ caller'[c].pc = "init" /\ caller'[c].ep = caller[c].ep /\ caller'[c].id = n
        /\ \A d \in Callers \ {c} : caller'[d] = caller[d]
    <2>1. LET r == [caller[c] EXCEPT !.pc = "init", !.id = n]
          IN  r \in CallerRow /\ r.pc = "init" /\ r.ep = caller[c].ep /\ r.id = n
      BY DEF BirthInv, BirthTyped, CallerRow, BirthPcs
    <2>2. caller' = [caller EXCEPT ![c] = [caller[c] EXCEPT !.pc = "init", !.id = n]]
      OBVIOUS
    <2>3. caller \in [Callers -> CallerRow]
      BY DEF BirthInv, BirthTyped, CallerRow
    <2> QED BY <2>1, <2>2, <2>3
  <1>2. caller[c].ep \in AgyBirth!Episodes /\ episode[caller[c].ep].state = "open"
    BY DEF BirthInv, OneCreation
  <1>3. \A d \in Callers : caller[d].pc = "idle" \/ d = c
    BY DEF BirthInv, OneCreation
  <1>4. BirthTyped'
    BY <1>1, <1>2 DEF BirthInv, BirthTyped, CallerRow
  <1>5. OneCreation'
    BY <1>1, <1>2, <1>3 DEF BirthInv, OneCreation
  <1>6. OneOpen'
    BY DEF BirthInv, OneOpen
  <1>7. \A m \in Conversations : issued'[m] = IF m = n THEN caller[c].ep ELSE issued[m]
    BY DEF BirthInv, BirthTyped
  <1>8. \A m \in Conversations : issued[m] # caller[c].ep
    BY DEF BirthInv, OnePerEpisode
  <1>9. OnePerEpisode'
    BY <1>1, <1>2, <1>3, <1>7, <1>8, EpisodeNames DEF BirthInv, OnePerEpisode
  <1>10. Accounted'
    BY <1>2, <1>7 DEF BirthInv, Accounted
  <1> QED BY <1>4, <1>5, <1>6, <1>9, <1>10 DEF BirthInv

\* The id is lost with the init.
LEMMA LoseInit ==
  ASSUME BirthInv, NEW c \in Callers, caller[c].pc = "init",
         caller' = [caller EXCEPT ![c].pc = "uncertain", ![c].id = None],
         UNCHANGED <<bound, episode, inFlight, issued>>
  PROVE  BirthInv'
  <1>1. /\ caller' \in [Callers -> CallerRow]
        /\ caller'[c].pc = "uncertain" /\ caller'[c].ep = caller[c].ep /\ caller'[c].id = None
        /\ \A d \in Callers \ {c} : caller'[d] = caller[d]
    <2>1. LET r == [caller[c] EXCEPT !.pc = "uncertain", !.id = None]
          IN  r \in CallerRow /\ r.pc = "uncertain" /\ r.ep = caller[c].ep /\ r.id = None
      BY DEF BirthInv, BirthTyped, CallerRow, BirthPcs
    <2>2. caller' = [caller EXCEPT ![c] = [caller[c] EXCEPT !.pc = "uncertain", !.id = None]]
      OBVIOUS
    <2>3. caller \in [Callers -> CallerRow]
      BY DEF BirthInv, BirthTyped, CallerRow
    <2> QED BY <2>1, <2>2, <2>3
  <1>2. \A d \in Callers : caller[d].pc = "idle" \/ d = c
    BY DEF BirthInv, OneCreation
  <1>3. BirthTyped'
    BY <1>1 DEF BirthInv, BirthTyped, CallerRow
  <1>4. OneCreation'
    BY <1>1, <1>2 DEF BirthInv, OneCreation
  <1>5. OneOpen' /\ Accounted'
    BY DEF BirthInv, OneOpen, Accounted
  <1>6. OnePerEpisode'
    BY <1>1, <1>2 DEF BirthInv, OnePerEpisode
  <1> QED BY <1>3, <1>4, <1>5, <1>6 DEF BirthInv

\* A clean exit, or a bind that failed: the conversation is still the marker's.
LEMMA ReachBind ==
  ASSUME BirthInv, NEW c \in Callers, NEW l \in {"bind", "orphan"}, AgyBirth!Goto(c, l),
         caller[c].pc = IF l = "bind" THEN "close" ELSE "bind",
         UNCHANGED <<bound, episode, inFlight, issued>>
  PROVE  BirthInv'
  <1>1. /\ caller' \in [Callers -> CallerRow]
        /\ caller'[c].pc = l /\ caller'[c].ep = caller[c].ep /\ caller'[c].id = caller[c].id
        /\ \A d \in Callers \ {c} : caller'[d] = caller[d]
    BY BirthGoto DEF BirthInv, BirthPcs
  <1>2. \A d \in Callers : caller[d].pc = "idle" \/ d = c
    BY DEF BirthInv, OneCreation
  <1>3. BirthTyped'
    BY <1>1 DEF BirthInv, BirthTyped, CallerRow
  <1>4. OneCreation'
    BY <1>1, <1>2 DEF BirthInv, OneCreation
  <1>5. OneOpen' /\ Accounted'
    BY DEF BirthInv, OneOpen, Accounted
  <1>6. OnePerEpisode'
    BY <1>1, <1>2 DEF BirthInv, OnePerEpisode
  <1> QED BY <1>3, <1>4, <1>5, <1>6 DEF BirthInv

\* The binding and the end of the marker are one transaction.
LEMMA BindBirth ==
  ASSUME BirthInv, NEW c \in Callers, caller[c].pc = "bind", bound' = caller[c].id,
         episode' = [episode EXCEPT ![caller[c].ep].state = "bound"],
         NEW l \in {"return", "orphan"}, AgyBirth!Goto(c, l), UNCHANGED <<inFlight, issued>>
  PROVE  BirthInv'
  <1>1. /\ caller' \in [Callers -> CallerRow]
        /\ caller'[c].pc = l /\ caller'[c].ep = caller[c].ep /\ caller'[c].id = caller[c].id
        /\ \A d \in Callers \ {c} : caller'[d] = caller[d]
    BY BirthGoto DEF BirthInv, BirthPcs
  <1>2. \A d \in Callers : caller[d].pc = "idle" \/ d = c
    BY DEF BirthInv, OneCreation
  <1>3. PICK e \in AgyBirth!Episodes : e = caller[c].ep /\ episode[e].state = "open"
    BY DEF BirthInv, OneCreation
  <1>4. Closes(e, "bound")
    BY <1>3, ClosesIs DEF BirthInv, BirthStates
  <1>5. /\ episode' \in [AgyBirth!Episodes -> EpisodeRow]
        /\ episode'[e].state = "bound" /\ episode'[e].orphan = episode[e].orphan
        /\ \A f \in AgyBirth!Episodes \ {e} : episode'[f] = episode[f]
    BY <1>4 DEF Closes
  <1>6. caller[c].id \in Conversations /\ bound = None
    BY <1>3 DEF BirthInv, BirthTyped, OnePerEpisode, OneOpen
  <1>7. BirthTyped'
    BY <1>1, <1>5, <1>6 DEF BirthInv, BirthTyped, CallerRow, EpisodeRow
  <1>8. OneCreation'
    BY <1>1, <1>2 DEF BirthInv, OneCreation
  <1>9. OneOpen'
    BY <1>3, <1>5 DEF BirthInv, OneOpen
  <1>10. \A n \in Conversations : issued[n] # 0 => issued[n] \in AgyBirth!Episodes
    BY DEF BirthInv, BirthTyped
  <1>11. OnePerEpisode'
    BY <1>1, <1>2, <1>3, <1>5, <1>10 DEF BirthInv, OnePerEpisode
  <1>12. Accounted'
    <2> SUFFICES ASSUME NEW n \in Conversations, issued[n] # 0
                 PROVE  \/ caller[c].id = n
                        \/ \E f \in AgyBirth!Episodes : episode'[f].orphan = n
                        \/ episode'[issued[n]].state \in {"open", "resolved"}
      BY DEF Accounted
    <2>1. issued[n] = e => n = caller[c].id
      BY <1>3 DEF BirthInv, OnePerEpisode
    <2>2. n # None
      BY EpisodeNames
    <2>3. \A f \in AgyBirth!Episodes : episode'[f].orphan = episode[f].orphan
      BY <1>5
    <2> QED BY <1>5, <1>6, <1>10, <2>1, <2>2, <2>3 DEF BirthInv, Accounted
  <1> QED BY <1>7, <1>8, <1>9, <1>11, <1>12 DEF BirthInv

\* An episode under which nothing was created is closed, or one is resolved.
LEMMA EndEpisode ==
  ASSUME BirthInv, NEW e \in AgyBirth!Episodes, NEW s \in {"not_created", "resolved"},
         episode[e].state = "open",
         episode' = [episode EXCEPT ![e].state = s], UNCHANGED <<bound, inFlight, issued>>,
         s = "not_created" => \A n \in Conversations : issued[n] # e,
         \/ UNCHANGED caller /\ inFlight # e
         \/ \E c \in Callers : caller[c].pc # "idle" /\ AgyBirth!Goto(c, "return")
  PROVE  BirthInv'
  <1>1. Closes(e, s)
    BY ClosesIs DEF BirthInv, BirthStates
  <1>2. /\ episode' \in [AgyBirth!Episodes -> EpisodeRow]
        /\ episode'[e].state = s /\ episode'[e].orphan = episode[e].orphan
        /\ \A f \in AgyBirth!Episodes \ {e} : episode'[f] = episode[f]
    BY <1>1 DEF Closes
  <1>3. \A n \in Conversations : issued[n] # 0 => issued[n] \in AgyBirth!Episodes
    BY DEF BirthInv, BirthTyped
  <1>4. OneOpen'
    BY <1>2 DEF BirthInv, OneOpen
  <1>5. Accounted'
    <2> SUFFICES ASSUME NEW n \in Conversations, issued[n] # 0
                 PROVE  \/ bound = n
                        \/ \E f \in AgyBirth!Episodes : episode'[f].orphan = n
                        \/ episode'[issued[n]].state \in {"open", "resolved"}
      BY DEF Accounted
    <2>1. \A f \in AgyBirth!Episodes : episode'[f].orphan = episode[f].orphan
      BY <1>2
    <2> QED BY <1>2, <1>3, <2>1 DEF BirthInv, Accounted
  <1>6. ASSUME UNCHANGED caller, inFlight # e PROVE BirthInv'
    <2>1. BirthTyped'
      BY <1>2, <1>6 DEF BirthInv, BirthTyped, EpisodeRow
    <2>2. OneCreation'
      BY <1>2, <1>6 DEF BirthInv, OneCreation
    <2>3. OnePerEpisode'
      BY <1>2, <1>3, <1>6 DEF BirthInv, OnePerEpisode
    <2> QED BY <1>4, <1>5, <2>1, <2>2, <2>3 DEF BirthInv
  <1>7. ASSUME NEW c \in Callers, caller[c].pc # "idle", AgyBirth!Goto(c, "return") PROVE BirthInv'
    <2>1. /\ caller' \in [Callers -> CallerRow]
          /\ caller'[c].pc = "return" /\ caller'[c].ep = caller[c].ep /\ caller'[c].id = caller[c].id
          /\ \A d \in Callers \ {c} : caller'[d] = caller[d]
      BY <1>7, BirthGoto DEF BirthInv, BirthPcs
    <2>2. \A d \in Callers : caller[d].pc = "idle" \/ d = c
      BY <1>7 DEF BirthInv, OneCreation
    <2>3. BirthTyped'
      BY <1>2, <2>1 DEF BirthInv, BirthTyped, CallerRow, EpisodeRow
    <2>4. OneCreation'
      BY <1>7, <2>1, <2>2 DEF BirthInv, OneCreation
    <2>5. OnePerEpisode'
      BY <1>2, <1>3, <2>1, <2>2 DEF BirthInv, OnePerEpisode
    <2> QED BY <1>4, <1>5, <2>3, <2>4, <2>5 DEF BirthInv
  <1> QED BY <1>6, <1>7

\* The callers' steps.
LEMMA BirthCaller ==
  ASSUME BirthInv, NEW c \in Callers, AgyBirth!CallerStep(c)
  PROVE  BirthInv'
  <1> DEFINE B == BirthPcs \ {"idle", "create", "init", "bind", "orphan"}
  <1>1. /\ "uncertain" \in B /\ "rejected" \in B /\ "drift" \in B /\ "close" \in B /\ "drifted" \in B
        /\ "annotate" \in B /\ "return" \in B
    BY DEF BirthPcs
  <1>2. caller[c].id \in Conversations \cup {None}
    BY DEF BirthInv, BirthTyped
  <1>3. caller[c].pc \notin {"idle", "return", "orphan"} =>
          caller[c].ep \in AgyBirth!Episodes /\ episode[caller[c].ep].state = "open"
    BY DEF BirthInv, OneCreation
  <1>4. caller[c].pc # "idle" => caller[c].ep \in AgyBirth!Episodes
    BY DEF BirthInv, OneCreation
  <1>5. CASE AgyBirth!BeginCreationInFlight(c)
    BY <1>5, BeginBirth
  <1>6. CASE AgyBirth!CreateBinding(c)
    BY <1>1, <1>6, StartBirth, BirthMoves DEF AgyBirth!CreateBinding
  <1>7. CASE AgyBirth!AwaitInit(c)
    BY <1>1, <1>7, LoseInit, BirthMoves, ReachBind DEF AgyBirth!AwaitInit
  <1>8. CASE AgyBirth!RecordCreationOrphan(c)
    BY <1>1, <1>2, <1>3, <1>8, BirthMoves, RecordUncertainIs DEF AgyBirth!RecordCreationOrphan, BirthInv
  <1>9. CASE AgyBirth!CloseAndExit(c)
    <2>1. CASE AgyBirth!Goto(c, "bind") /\ UNCHANGED episode
      BY <1>9, <2>1, ReachBind DEF AgyBirth!CloseAndExit
    <2>2. CASE /\ AgyBirth!Goto(c, "uncertain")
               /\ AgyBirth!RecordCreationUncertain(caller[c].id) \/ UNCHANGED episode
      BY <1>1, <1>2, <1>3, <1>9, <2>2, BirthMoves, RecordUncertainIs DEF AgyBirth!CloseAndExit, BirthInv
    <2> QED BY <1>9, <2>1, <2>2 DEF AgyBirth!CloseAndExit
  <1>10. CASE AgyBirth!Tombstone(c)
    BY <1>1, <1>10, BirthMoves DEF AgyBirth!Tombstone
  <1>11. CASE AgyBirth!SetUncertaintyOrphan(c)
    BY <1>1, <1>2, <1>4, <1>11, BirthMoves, AnnotateOpenIs DEF AgyBirth!SetUncertaintyOrphan, BirthInv
  <1>12. CASE AgyBirth!CloseNotCreated(c)
    <2>1. CASE UNCHANGED episode
      BY <1>1, <1>12, <2>1, BirthMoves DEF AgyBirth!CloseNotCreated
    <2>2. CASE AgyBirth!CloseInFlight(caller[c].ep, "not_created")
      <3>1. \A n \in Conversations : issued[n] # caller[c].ep
        BY <1>12 DEF AgyBirth!CloseNotCreated, BirthInv, OnePerEpisode
      <3> QED BY <1>3, <1>12, <2>2, <3>1, EndEpisode
              DEF AgyBirth!CloseNotCreated, AgyBirth!CloseInFlight, AgyBirth!Unannotated
    <2> QED BY <1>12, <2>1, <2>2 DEF AgyBirth!CloseNotCreated
  <1>13. CASE AgyBirth!BindClosingEpisode(c)
    BY <1>13, BindBirth, ReachBind DEF AgyBirth!BindClosingEpisode
  <1>14. CASE AgyBirth!RecordBindingOrphan(c)
    <2>1. Annotates \/ UNCHANGED episode
      <3>1. CASE bound # caller[c].id
        <4>1. caller[c].ep \in AgyBirth!Episodes /\ episode[caller[c].ep].state = "open"
          BY <1>4, <1>14, <3>1 DEF AgyBirth!RecordBindingOrphan, BirthInv, OneCreation
        <4>2. CASE AgyBirth!AnnotateOpen(caller[c].ep, caller[c].id)
          BY <1>2, <4>1, <4>2, AnnotateOpenIs DEF BirthInv
        <4>3. CASE AgyBirth!RecordCreationUncertain(caller[c].id)
          BY <1>2, <4>1, <4>3, RecordUncertainIs DEF BirthInv
        <4> QED BY <1>14, <4>2, <4>3 DEF AgyBirth!RecordBindingOrphan
      <3> QED BY <1>14, <3>1 DEF AgyBirth!RecordBindingOrphan
    <2> QED BY <1>1, <1>14, <2>1, BirthMoves DEF AgyBirth!RecordBindingOrphan
  <1>15. CASE AgyBirth!Return(c)
    <2>1. /\ caller' \in [Callers -> CallerRow] /\ caller'[c].pc = "idle"
          /\ \A d \in Callers \ {c} : caller'[d] = caller[d]
          /\ UNCHANGED <<bound, episode, issued>>
      BY <1>15 DEF AgyBirth!Return, AgyBirth!Idle, BirthInv, BirthTyped, CallerRow, BirthPcs
    <2>2. \A d \in Callers : caller'[d].pc = "idle"
      BY <1>15, <2>1 DEF AgyBirth!Return, BirthInv, OneCreation
    <2>3. inFlight' \in AgyBirth!Episodes \cup {None}
      BY <1>15 DEF AgyBirth!Return, BirthInv, BirthTyped
    <2>4. BirthTyped'
      BY <2>1, <2>3 DEF BirthInv, BirthTyped, CallerRow
    <2> QED BY <2>1, <2>2, <2>4 DEF BirthInv, OneCreation, OneOpen, OnePerEpisode, Accounted
  <1> QED
    BY <1>5, <1>6, <1>7, <1>8, <1>9, <1>10, <1>11, <1>12, <1>13, <1>14, <1>15 DEF AgyBirth!CallerStep

\* Every step of a birth.
LEMMA BirthNext == ASSUME BirthInv, AgyBirth!Next PROVE BirthInv'
  <1>1. ASSUME NEW e \in AgyBirth!Episodes, AgyBirth!ResolveUncertainty(e) PROVE BirthInv'
    BY <1>1, EndEpisode DEF AgyBirth!ResolveUncertainty
  <1>2. CASE AgyBirth!ClearTombstone
    BY <1>2 DEF AgyBirth!ClearTombstone, BirthInv, BirthTyped, OneCreation, OneOpen, OnePerEpisode, Accounted
  <1>3. CASE AgyBirth!Crash
    <2>1. /\ caller' \in [Callers -> CallerRow] /\ \A d \in Callers : caller'[d].pc = "idle"
          /\ UNCHANGED <<bound, episode, issued>> /\ inFlight' = None
      BY <1>3 DEF AgyBirth!Crash, AgyBirth!Idle, CallerRow, BirthPcs
    <2>2. BirthTyped'
      BY <2>1 DEF BirthInv, BirthTyped, CallerRow
    <2> QED BY <2>1, <2>2 DEF BirthInv, OneCreation, OneOpen, OnePerEpisode, Accounted
  <1> QED BY <1>1, <1>2, <1>3, BirthCaller DEF AgyBirth!Next

\* It holds before the first birth.
LEMMA BirthInit == ASSUME AgyBirth!Init PROVE BirthInv
  <1>1. BirthTyped
    BY DEF AgyBirth!Init, BirthTyped, AgyBirth!NoEpisode, AgyBirth!Idle, BirthStates, BirthPcs
  <1>2. OneCreation /\ OneOpen /\ OnePerEpisode /\ Accounted
    BY DEF AgyBirth!Init, AgyBirth!NoEpisode, AgyBirth!Idle, OneCreation, OneOpen, OnePerEpisode, Accounted
  <1> QED BY <1>1, <1>2 DEF BirthInv

\* What the run checks of a birth.
LEMMA BirthInvImplies ==
  ASSUME BirthInv
  PROVE  AgyBirth!ConversationAccounted /\ AgyBirth!OneBirthAtATime
  <1>1. AgyBirth!ConversationAccounted
    BY DEF BirthInv, Accounted, AgyBirth!ConversationAccounted
  <1>2. \A e, f \in AgyBirth!OpenEpisodes : e = f
    BY DEF BirthInv, OneOpen, AgyBirth!OpenEpisodes
  <1>3. bound # None => AgyBirth!OpenEpisodes = {}
    BY DEF BirthInv, OneOpen, AgyBirth!OpenEpisodes
  <1>4. ASSUME NEW c \in Callers, caller[c].pc \in {"init", "drift", "close", "bind"}
        PROVE  inFlight = caller[c].ep /\ AgyBirth!OpenEpisodes = {caller[c].ep}
    <2>1. /\ caller[c].ep \in AgyBirth!Episodes /\ inFlight = caller[c].ep
          /\ episode[caller[c].ep].state = "open"
      BY <1>4 DEF BirthInv, OneCreation
    <2> QED BY <1>2, <2>1 DEF AgyBirth!OpenEpisodes
  <1> QED BY <1>1, <1>2, <1>3, <1>4 DEF AgyBirth!OneBirthAtATime

-----------------------------------------------------------------------------
(* The birth of a codex thread.                                            *)

CodexPcs ==
  {"idle", "adapter", "join", "create", "start", "confirm", "ok", "rejected", "uncertain", "entomb",
   "retire", "record", "bind"}
CodexRow == [pc : CodexPcs, call : CodexBirth!Creations \cup {0}]

CodexTyped ==
  /\ bound \in CodexBirth!Creations \cup {0}
  /\ current \in CodexBirth!Creations \cup {0}
  /\ caller \in [Callers -> CodexRow]
  /\ result \in [CodexBirth!Creations -> {"none", "running", "ok", "rejected", "uncertain", "gone"}]
  /\ thread \in [CodexBirth!Creations ->
                  {"none", "live", "bound", "uncertain", "recorded", "resolved", "forgotten", "exposed"}]

\* A caller between its thread/start and what it publishes, and one that runs a creation at all.
Unpublished(c) == caller[c].pc \in {"create", "start", "confirm", "ok", "rejected", "uncertain"}
Runs(c) == Unpublished(c) \/ caller[c].pc \in {"entomb", "retire"}

\* One caller runs a creation, the one on record; the tombstone does not stand before it is set
\* for that creation, and what was published stays.
OneRunner ==
  /\ \A c \in Callers : Runs(c) => caller[c].call = current /\ current # 0
  /\ \A c, d \in Callers : Runs(c) /\ Runs(d) => c = d
  /\ \A c \in Callers : Unpublished(c) => result[current] = "running"
  /\ \A c \in Callers : Unpublished(c) \/ caller[c].pc = "entomb" => ~tombstone
  /\ \A c \in Callers : caller[c].pc = "entomb" => result[current] = "uncertain"
  /\ \A c \in Callers : caller[c].pc = "retire" => result[current] \in {"uncertain", "rejected"}
  /\ \A c \in Callers : caller[c].pc = "bind" => caller[c].call # 0 /\ result[caller[c].call] = "ok"
  /\ \A c \in Callers : caller[c].pc = "join" => caller[c].call # 0

\* How far a runner is says what there is of its thread.
RunnerThread ==
  /\ \A k \in CodexBirth!Creations : result[k] = "none" => thread[k] = "none"
  /\ \A c \in Callers :
       /\ caller[c].pc \in {"create", "rejected"} => thread[current] = "none"
       /\ caller[c].pc = "start" => bound = 0 /\ thread[current] \in {"none", "live"}
       /\ caller[c].pc = "confirm" => bound = 0 /\ thread[current] = "live"
       /\ caller[c].pc = "uncertain" => thread[current] # "live"

\* Whose each thread is: a live one is that of the creation on record, the bound one the
\* session's; an uncertain one blocks the next creation through its runner or the tombstone, and
\* a recorded one also through the open episode, when no request has passed that check.
NobodyCreates == \A c \in Callers : caller[c].pc # "adapter" /\ ~Unpublished(c)

Blocked(k) ==
  \/ tombstone
  \/ \E c \in Callers : caller[c].pc \in {"uncertain", "entomb"} /\ caller[c].call = k
  \/ thread[k] = "recorded" /\ NobodyCreates

ThreadsHeld ==
  /\ \A k \in CodexBirth!Creations : thread[k] = "live" => k = current /\ result[k] \in {"running", "ok"}
  /\ \A k \in CodexBirth!Creations : thread[k] = "bound" => bound = k
  /\ \A k \in CodexBirth!Creations : thread[k] \in {"uncertain", "recorded"} => Blocked(k)
  /\ \A k \in CodexBirth!Creations : thread[k] = "recorded" => open

\* What the run checks.
OneThread ==
  \A j, k \in CodexBirth!Creations :
    {thread[j], thread[k]} \subseteq {"live", "uncertain", "recorded", "bound"} => j = k

CodexStrong == OneRunner /\ RunnerThread /\ ThreadsHeld /\ OneThread
CodexInv == CodexTyped /\ CodexStrong

\* Creations are numbered from 1.
LEMMA CreationNames == 0 \notin CodexBirth!Creations
  BY ChildrenAssumption DEF CodexBirth!Creations

\* Caller c is now at l for creation k, and nobody else moved.
At(c, l, k) ==
  /\ caller' \in [Callers -> CodexRow]
  /\ caller'[c].pc = l /\ caller'[c].call = k
  /\ \A d \in Callers \ {c} : caller'[d] = caller[d]

\* The moves of a caller.
LEMMA CodexMoves ==
  ASSUME CodexTyped, NEW c \in Callers
  PROVE  /\ \A l \in CodexPcs : CodexBirth!Goto(c, l) => At(c, l, caller[c].call)
         /\ CodexBirth!Return(c) => At(c, "idle", 0)
         /\ \A l \in CodexPcs, k \in CodexBirth!Creations :
              caller' = [caller EXCEPT ![c] = [pc |-> l, call |-> k]] => At(c, l, k)
  <1>1. caller[c] \in CodexRow /\ caller \in [Callers -> CodexRow]
    BY DEF CodexTyped
  <1>2. ASSUME NEW l \in CodexPcs, CodexBirth!Goto(c, l) PROVE At(c, l, caller[c].call)
    <2>1. LET r == [caller[c] EXCEPT !.pc = l]
          IN  r \in CodexRow /\ r.pc = l /\ r.call = caller[c].call
      BY <1>1 DEF CodexRow
    <2>2. caller' = [caller EXCEPT ![c] = [caller[c] EXCEPT !.pc = l]]
      BY <1>2 DEF CodexBirth!Goto
    <2> QED BY <1>1, <2>1, <2>2 DEF At
  <1>3. ASSUME CodexBirth!Return(c) PROVE At(c, "idle", 0)
    BY <1>1, <1>3 DEF CodexBirth!Return, CodexBirth!IdleCaller, At, CodexRow, CodexPcs
  <1>4. ASSUME NEW l \in CodexPcs, NEW k \in CodexBirth!Creations,
               caller' = [caller EXCEPT ![c] = [pc |-> l, call |-> k]]
        PROVE  At(c, l, k)
    BY <1>1, <1>4 DEF At, CodexRow
  <1> QED BY <1>2, <1>3, <1>4

\* A caller that moves within its phase, or to one with less to show, disturbs nothing.
LEMMA CodexSteps ==
  ASSUME CodexTyped, CodexStrong, NEW c \in Callers, NEW l \in CodexPcs, NEW k, At(c, l, k),
         UNCHANGED <<bound, open, tombstone, current, result, thread>>,
         l = "join" => k # 0,
         l = "bind" => k \in CodexBirth!Creations /\ result[k] = "ok",
         l \in {"idle", "adapter", "join", "record", "bind"} => ~Runs(c),
         l \in {"ok", "rejected", "start", "confirm"} => Unpublished(c) /\ k = caller[c].call,
         l \notin {"create", "uncertain", "entomb", "retire"},
         l = "rejected" => thread[current] = "none",
         l = "start" => bound = 0 /\ thread[current] = "none",
         l = "confirm" => bound = 0 /\ thread[current] = "live",
         caller[c].pc \notin {"uncertain", "entomb"},
         l = "adapter" => ~open
  PROVE  CodexStrong'
  <1>1. OneRunner'
    BY CreationNames DEF CodexStrong, OneRunner, At, Runs, Unpublished
  <1>2. RunnerThread'
    BY DEF CodexStrong, OneRunner, RunnerThread, At, Runs, Unpublished
  <1>3. ThreadsHeld'
    <2>1. \A j \in CodexBirth!Creations : thread[j] \in {"uncertain", "recorded"} => Blocked(j)'
      <3> SUFFICES ASSUME NEW j \in CodexBirth!Creations, thread[j] \in {"uncertain", "recorded"}
                   PROVE  Blocked(j)'
        OBVIOUS
      <3>1. Blocked(j) /\ (thread[j] = "recorded" => open)
        BY DEF CodexStrong, ThreadsHeld
      <3>2. CASE tombstone
        BY <3>2 DEF Blocked
      <3>3. CASE \E d \in Callers : caller[d].pc \in {"uncertain", "entomb"} /\ caller[d].call = j
        BY <3>3 DEF Blocked, At
      <3>4. CASE thread[j] = "recorded" /\ NobodyCreates
        <4>1. NobodyCreates'
          BY <3>1, <3>4 DEF NobodyCreates, At, Unpublished
        <4> QED BY <3>4, <4>1 DEF Blocked
      <3> QED BY <3>1, <3>2, <3>3, <3>4, Zenon DEF Blocked
    <2> QED BY <2>1 DEF CodexStrong, ThreadsHeld
  <1>4. OneThread'
    BY DEF CodexStrong, OneThread
  <1> QED BY <1>1, <1>2, <1>3, <1>4 DEF CodexStrong

\* A caller that finds no tombstone and no creation runs one.
LEMMA CodexRuns ==
  ASSUME CodexTyped, CodexStrong, NEW c \in Callers, NEW k \in CodexBirth!Creations, At(c, "create", k),
         ~tombstone, current = 0, current' = k, caller[c].pc = "adapter", result[k] = "none",
         result' = [result EXCEPT ![k] = "running"],
         UNCHANGED <<bound, open, tombstone, thread>>
  PROVE  CodexStrong'
  <1>1. \A d \in Callers : ~Runs(d)
    BY DEF CodexStrong, OneRunner
  <1>2. result'[k] = "running" /\ \A j \in CodexBirth!Creations \ {k} : result'[j] = result[j]
    BY DEF CodexTyped
  <1>3. \A d \in Callers : caller[d].call = 0 \/ caller[d].call \in CodexBirth!Creations
    BY DEF CodexTyped, CodexRow
  <1>4. OneRunner'
    BY <1>1, <1>2, <1>3, CreationNames DEF CodexStrong, OneRunner, At, Runs, Unpublished
  <1>5. RunnerThread'
    BY <1>1, <1>2 DEF CodexStrong, RunnerThread, At, Runs, Unpublished
  <1>6. \A j \in CodexBirth!Creations : thread[j] \notin {"live", "uncertain", "recorded"}
    BY <1>1, CreationNames DEF CodexStrong, ThreadsHeld, Blocked, NobodyCreates, Runs, Unpublished
  <1>7. ThreadsHeld'
    BY <1>6 DEF CodexStrong, ThreadsHeld
  <1>8. OneThread'
    BY DEF CodexStrong, OneThread
  <1> QED BY <1>4, <1>5, <1>7, <1>8 DEF CodexStrong

\* While a creation runs towards its thread the session has no other.
LEMMA NoOtherThread ==
  ASSUME CodexTyped, CodexStrong, NEW c \in Callers, caller[c].pc \in {"start", "confirm"}
  PROVE  /\ \A j \in CodexBirth!Creations \ {current} : thread[j] \notin {"live", "uncertain", "recorded", "bound"}
         /\ current \in CodexBirth!Creations /\ caller[c].call = current /\ ~tombstone
         /\ thread[current] \in {"none", "live"} /\ bound = 0 /\ result[current] = "running"
  <1>1. Runs(c) /\ Unpublished(c)
    BY DEF Runs, Unpublished
  <1>2. /\ current \in CodexBirth!Creations /\ caller[c].call = current /\ ~tombstone
        /\ result[current] = "running"
    BY <1>1 DEF CodexTyped, CodexStrong, OneRunner
  <1>4. bound = 0 /\ thread[current] \in {"none", "live"}
    BY DEF CodexStrong, RunnerThread
  <1>5. ASSUME NEW j \in CodexBirth!Creations, j # current
        PROVE  thread[j] \notin {"live", "uncertain", "recorded", "bound"}
    <2>1. thread[j] \notin {"live", "bound"}
      BY <1>4, <1>5, CreationNames DEF CodexStrong, ThreadsHeld
    <2>2. ASSUME thread[j] \in {"uncertain", "recorded"} PROVE FALSE
      <3>1. Blocked(j)
        BY <2>2 DEF CodexStrong, ThreadsHeld
      <3>2. PICK d \in Callers : caller[d].pc \in {"uncertain", "entomb"} /\ caller[d].call = j
        BY <1>1, <1>2, <3>1 DEF Blocked, NobodyCreates
      <3> QED BY <1>1, <1>2, <1>5, <3>2 DEF CodexStrong, OneRunner, Runs, Unpublished
    <2> QED BY <2>1, <2>2
  <1> QED BY <1>2, <1>4, <1>5

\* The thread comes into being, or its creation becomes uncertain.
LEMMA CodexThread ==
  ASSUME CodexTyped, CodexStrong, NEW c \in Callers, caller[c].pc \in {"start", "confirm"},
         NEW s, thread' = [thread EXCEPT ![caller[c].call] = s],
         \/ s = "live" /\ caller[c].pc = "start" /\ UNCHANGED caller
         \/ s = "uncertain" /\ At(c, "uncertain", caller[c].call),
         UNCHANGED <<bound, open, tombstone, current, result>>
  PROVE  CodexStrong'
  <1>1. /\ \A j \in CodexBirth!Creations \ {current} : thread[j] \notin {"live", "uncertain", "recorded", "bound"}
        /\ current \in CodexBirth!Creations /\ caller[c].call = current /\ ~tombstone
        /\ thread[current] \in {"none", "live"} /\ bound = 0 /\ result[current] = "running"
    BY NoOtherThread
  <1>2. thread'[current] = s /\ \A j \in CodexBirth!Creations \ {current} : thread'[j] = thread[j]
    BY <1>1 DEF CodexTyped
  <1>3. OneRunner'
    BY DEF CodexStrong, OneRunner, At, Runs, Unpublished
  <1>4. \A d \in Callers : Runs(d) => d = c
    BY DEF CodexStrong, OneRunner, Runs, Unpublished
  <1>5. RunnerThread'
    BY <1>1, <1>2, <1>4 DEF CodexStrong, RunnerThread, At, Runs, Unpublished
  <1>6. ThreadsHeld'
    <2>1. \A j \in CodexBirth!Creations : thread'[j] = "live" => j = current' /\ result'[j] \in {"running", "ok"}
      BY <1>1, <1>2
    <2>2. \A j \in CodexBirth!Creations : thread'[j] = "bound" => bound' = j
      BY <1>1, <1>2
    <2>3. \A j \in CodexBirth!Creations : thread'[j] \in {"uncertain", "recorded"} => Blocked(j)'
      BY <1>1, <1>2 DEF Blocked, At
    <2>4. \A j \in CodexBirth!Creations : thread'[j] # "recorded"
      BY <1>1, <1>2
    <2> QED BY <2>1, <2>2, <2>3, <2>4 DEF ThreadsHeld
  <1>8. OneThread'
    BY <1>1, <1>2 DEF OneThread
  <1> QED BY <1>3, <1>5, <1>6, <1>8 DEF CodexStrong

\* The outcome is published.
LEMMA CodexPublish ==
  ASSUME CodexTyped, CodexStrong, NEW c \in Callers, CodexBirth!Publish(c)
  PROVE  CodexStrong'
  <1>1. Runs(c) /\ Unpublished(c)
    BY DEF CodexBirth!Publish, Runs, Unpublished
  <1>2. PICK k \in CodexBirth!Creations : k = current /\ k = caller[c].call
    BY <1>1 DEF CodexTyped, CodexStrong, OneRunner
  <1>3. /\ result[k] = "running" /\ UNCHANGED <<bound, open, tombstone, current, thread>>
        /\ result'[k] = caller[c].pc /\ \A j \in CodexBirth!Creations \ {k} : result'[j] = result[j]
    BY <1>1, <1>2
       DEF CodexBirth!Publish, CodexBirth!Call, CodexTyped, CodexStrong, OneRunner, CodexBirth!storeVars
  <1>4. \A d \in Callers \ {c} : ~Runs(d)
    BY <1>1 DEF CodexStrong, OneRunner
  <1>5. PICK l \in {"bind", "retire", "entomb"} :
          /\ CodexBirth!Goto(c, l)
          /\ l = "bind" => caller[c].pc = "ok"
          /\ l = "retire" => caller[c].pc = "rejected"
          /\ l = "entomb" => caller[c].pc = "uncertain"
    <2>1. CASE caller[c].pc = "ok"
      BY <2>1 DEF CodexBirth!Publish
    <2>2. CASE caller[c].pc = "rejected"
      BY <2>2 DEF CodexBirth!Publish
    <2>3. CASE caller[c].pc = "uncertain"
      BY <2>3 DEF CodexBirth!Publish
    <2> QED BY <2>1, <2>2, <2>3 DEF CodexBirth!Publish
  <1>6. At(c, l, k)
    BY <1>2, <1>5, CodexMoves DEF CodexPcs
  <1>7. OneRunner'
    <2>1. \A d \in Callers : caller[d].call \in CodexBirth!Creations \cup {0}
      BY DEF CodexTyped, CodexRow
    <2>2. \A d \in Callers : ~Unpublished(d)' /\ (Runs(d)' => d = c)
      BY <1>4, <1>5, <1>6 DEF At, Runs, Unpublished
    <2>3. Runs(c)' => caller'[c].call = current' /\ current' # 0
      BY <1>2, <1>3, <1>6, CreationNames DEF At
    <2>4. caller'[c].pc = "entomb" => ~tombstone' /\ result'[current'] = "uncertain"
      BY <1>1, <1>2, <1>3, <1>5, <1>6 DEF At, CodexStrong, OneRunner
    <2>5. caller'[c].pc = "retire" => result'[current'] = "rejected"
      BY <1>2, <1>3, <1>5, <1>6 DEF At
    <2>6. caller'[c].pc # "join" /\ (caller'[c].pc = "bind" => k # 0 /\ caller'[c].call = k /\ result'[k] = "ok")
      BY <1>2, <1>3, <1>5, <1>6, CreationNames DEF At
    <2>7. ASSUME NEW d \in Callers, d # c
          PROVE  /\ caller'[d].pc = "join" => caller'[d].call # 0
                 /\ caller'[d].pc = "bind" => caller'[d].call # 0 /\ result'[caller'[d].call] = "ok"
      BY <1>3, <1>6, <2>1, <2>7 DEF At, CodexStrong, OneRunner
    <2> QED BY <2>2, <2>3, <2>4, <2>5, <2>6, <2>7 DEF OneRunner, Runs
  <1>8. RunnerThread'
    BY <1>1, <1>3, <1>4, <1>5, <1>6 DEF CodexStrong, RunnerThread, At, Runs, Unpublished
  <1>9. ThreadsHeld'
    <2>1. ASSUME NEW j \in CodexBirth!Creations, thread[j] = "live"
          PROVE  j = current /\ result'[j] \in {"running", "ok"}
      <3>1. j = k
        BY <1>2, <2>1 DEF CodexStrong, ThreadsHeld
      <3>2. caller[c].pc \notin {"rejected", "uncertain"}
        BY <1>2, <2>1, <3>1 DEF CodexStrong, RunnerThread
      <3> QED BY <1>2, <1>3, <3>1, <3>2 DEF CodexBirth!Publish
    <2>2. ASSUME NEW j \in CodexBirth!Creations, thread[j] \in {"uncertain", "recorded"}, ~tombstone
          PROVE  \E d \in Callers : caller'[d].pc \in {"uncertain", "entomb"} /\ caller'[d].call = j
      <3>1. PICK d \in Callers : caller[d].pc \in {"uncertain", "entomb"} /\ caller[d].call = j
        BY <1>1, <2>2 DEF CodexStrong, ThreadsHeld, Blocked, NobodyCreates
      <3> QED BY <1>4, <1>5, <1>6, <1>2, <3>1 DEF At, Runs, Unpublished, CodexBirth!Publish
    <2>3. \A j \in CodexBirth!Creations : thread[j] \in {"uncertain", "recorded"} => Blocked(j)'
      BY <1>3, <2>2, Zenon DEF Blocked
    <2> QED BY <1>3, <2>1, <2>3 DEF CodexStrong, ThreadsHeld
  <1>10. OneThread'
    BY <1>3 DEF CodexStrong, OneThread
  <1> QED BY <1>7, <1>8, <1>9, <1>10 DEF CodexStrong

\* The tombstone is set, or the creation leaves the record.
LEMMA CodexRetire ==
  ASSUME CodexTyped, CodexStrong, NEW c \in Callers,
         CodexBirth!Entomb(c) \/ CodexBirth!Retire(c)
  PROVE  CodexStrong'
  <1>1. Runs(c) /\ caller[c].pc \in {"entomb", "retire"}
    BY DEF CodexBirth!Entomb, CodexBirth!Retire, Runs
  <1>2. PICK k \in CodexBirth!Creations : k = current /\ k = caller[c].call
    BY <1>1 DEF CodexTyped, CodexStrong, OneRunner
  <1>3. \A d \in Callers \ {c} : ~Runs(d)
    BY <1>1 DEF CodexStrong, OneRunner
  <1>4. result[k] \in {"uncertain", "rejected"} /\ thread[k] # "live"
    BY <1>1, <1>2 DEF CodexStrong, OneRunner, ThreadsHeld
  <1>5. CASE CodexBirth!Entomb(c)
    <2>1. tombstone' = TRUE /\ UNCHANGED <<bound, open, current, result, thread>>
      BY <1>5 DEF CodexBirth!Entomb, CodexBirth!storeVars
    <2>2. At(c, "retire", k)
      BY <1>2, <1>5, CodexMoves DEF CodexBirth!Entomb, CodexPcs
    <2>3. OneRunner'
      <3>1. \A d \in Callers : ~Unpublished(d)' /\ caller'[d].pc # "entomb" /\ (Runs(d)' => d = c)
        BY <1>3, <2>2 DEF At, Runs, Unpublished
      <3> QED BY <1>2, <1>4, <2>1, <2>2, <3>1, CreationNames DEF CodexStrong, OneRunner, At
    <2>4. RunnerThread'
      BY <1>3, <2>1, <2>2 DEF CodexStrong, RunnerThread, At, Runs, Unpublished
    <2>5. ThreadsHeld' /\ OneThread'
      BY <2>1 DEF CodexStrong, ThreadsHeld, Blocked, OneThread
    <2> QED BY <2>3, <2>4, <2>5 DEF CodexStrong
  <1>6. CASE CodexBirth!Retire(c)
    <2>1. current' = 0 /\ UNCHANGED <<bound, open, tombstone, result, thread>>
      BY <1>2, <1>6 DEF CodexBirth!Retire, CodexBirth!Call, CodexBirth!storeVars
    <2>2. PICK l \in {"record", "idle"}, m \in CodexBirth!Creations \cup {0} :
            At(c, l, m)
      BY <1>2, <1>6, CodexMoves DEF CodexBirth!Retire, CodexPcs
    <2>3. \A j \in CodexBirth!Creations : thread[j] # "live"
      BY <1>2, <1>4 DEF CodexStrong, ThreadsHeld
    <2>4. OneRunner'
      BY <1>3, <2>1, <2>2 DEF CodexStrong, OneRunner, At, Runs, Unpublished
    <2>5. RunnerThread'
      BY <1>3, <2>1, <2>2 DEF CodexStrong, RunnerThread, At, Runs, Unpublished
    <2>6. \A j \in CodexBirth!Creations :
            thread[j] \in {"uncertain", "recorded"} => tombstone \/ (thread[j] = "recorded" /\ NobodyCreates)
      <3>1. Runs(c)
        BY <1>6 DEF CodexBirth!Retire, Runs
      <3>2. \A d \in Callers : caller[d].pc \notin {"uncertain", "entomb"}
        BY <3>1, <1>6 DEF CodexStrong, OneRunner, Runs, Unpublished, CodexBirth!Retire
      <3>3. ASSUME NEW j \in CodexBirth!Creations, thread[j] \in {"uncertain", "recorded"}
            PROVE  tombstone \/ (thread[j] = "recorded" /\ NobodyCreates)
        <4>1. Blocked(j)
          BY <3>3, Zenon DEF CodexStrong, ThreadsHeld
        <4> QED BY <3>2, <4>1 DEF Blocked
      <3> QED BY <3>3
    <2>7. NobodyCreates => NobodyCreates'
      BY <2>2 DEF NobodyCreates, At, Unpublished
    <2>8. ThreadsHeld'
      BY <2>1, <2>3, <2>6, <2>7, Zenon DEF CodexStrong, ThreadsHeld, Blocked
    <2>9. OneThread'
      BY <2>1 DEF CodexStrong, OneThread
    <2> QED BY <2>4, <2>5, <2>8, <2>9 DEF CodexStrong
  <1> QED BY <1>5, <1>6

\* The session is bound to the thread of a creation that succeeded.
LEMMA CodexBinds ==
  ASSUME CodexTyped, CodexStrong, NEW c \in Callers, CodexBirth!BindCodexSession(c),
         thread[caller[c].call] = "live", bound = 0, bound' = caller[c].call,
         thread' = [thread EXCEPT ![caller[c].call] = "bound"]
  PROVE  CodexStrong'
  <1>1. /\ UNCHANGED <<open, tombstone, current, result>>
        /\ At(c, "idle", 0) /\ caller[c].pc = "bind"
    BY CodexMoves DEF CodexBirth!BindCodexSession, CodexBirth!adapterVars
  <1>2. PICK k \in CodexBirth!Creations : k = caller[c].call /\ result[k] = "ok"
    BY <1>1 DEF CodexTyped, CodexRow, CodexStrong, OneRunner
  <1>3. k = current /\ \A d \in Callers : ~Unpublished(d)
    BY <1>2 DEF CodexStrong, OneRunner, ThreadsHeld
  <1>4. thread'[k] = "bound" /\ \A j \in CodexBirth!Creations \ {k} : thread'[j] = thread[j]
    BY <1>2 DEF CodexTyped
  <1>5. \A j \in CodexBirth!Creations \ {k} : thread[j] \notin {"live", "uncertain", "recorded", "bound"}
    BY <1>2 DEF CodexStrong, OneThread
  <1>6. OneRunner'
    BY <1>1 DEF CodexStrong, OneRunner, At, Runs, Unpublished
  <1>7. RunnerThread'
    BY <1>1, <1>2, <1>3, <1>4 DEF CodexStrong, RunnerThread, At, Unpublished
  <1>8. ThreadsHeld'
    BY <1>1, <1>2, <1>4, <1>5 DEF ThreadsHeld
  <1>9. OneThread'
    BY <1>4, <1>5 DEF OneThread
  <1> QED BY <1>6, <1>7, <1>8, <1>9 DEF CodexStrong

\* An outcome that is published as uncertain enters the open episode.
LEMMA CodexRecords ==
  ASSUME CodexTyped, CodexStrong, NEW c \in Callers, caller[c].pc = "record", At(c, "idle", 0), open',
         UNCHANGED <<bound, tombstone, current, result>>,
         \A k \in CodexBirth!Creations :
           thread'[k] = IF thread[k] = "uncertain" /\ result[k] = "uncertain" THEN "recorded" ELSE thread[k]
  PROVE  CodexStrong'
  <1>1. OneRunner'
    BY DEF CodexStrong, OneRunner, At, Runs, Unpublished
  <1>2. \A k \in CodexBirth!Creations : thread'[k] = thread[k] \/ (thread[k] = "uncertain" /\ thread'[k] = "recorded")
    OBVIOUS
  <1>3. RunnerThread'
    <2>1. \A d \in Callers : Runs(d) => current \in CodexBirth!Creations
      BY DEF CodexTyped, CodexStrong, OneRunner
    <2> QED BY <1>2, <2>1 DEF CodexStrong, RunnerThread, At, Runs, Unpublished
  <1>4. \A k \in CodexBirth!Creations : thread'[k] \in {"uncertain", "recorded"} => Blocked(k)'
    <2> SUFFICES ASSUME NEW k \in CodexBirth!Creations, thread'[k] \in {"uncertain", "recorded"}
                 PROVE  Blocked(k)'
      OBVIOUS
    <2>1. Blocked(k)
      BY <1>2 DEF CodexStrong, ThreadsHeld
    <2>2. CASE tombstone
      BY <2>2 DEF Blocked
    <2>3. CASE \E d \in Callers : caller[d].pc \in {"uncertain", "entomb"} /\ caller[d].call = k
      BY <2>3 DEF Blocked, At
    <2>4. CASE thread[k] = "recorded" /\ NobodyCreates
      <3>1. NobodyCreates'
        BY <2>4 DEF NobodyCreates, At, Unpublished
      <3> QED BY <2>4, <3>1 DEF Blocked
    <2> QED BY <2>1, <2>2, <2>3, <2>4, Zenon DEF Blocked
  <1>5. ThreadsHeld'
    BY <1>2, <1>4 DEF CodexStrong, ThreadsHeld
  <1>6. OneThread'
    BY <1>2 DEF CodexStrong, OneThread
  <1> QED BY <1>1, <1>3, <1>5, <1>6 DEF CodexStrong

\* The callers' steps.
LEMMA CodexCaller ==
  ASSUME CodexTyped, CodexStrong, NEW c \in Callers, CodexBirth!Requesting(c)
  PROVE  CodexStrong'
  <1> USE DEF CodexBirth!storeVars, CodexBirth!adapterVars
  <1>2. Runs(c) => caller[c].call = current /\ current \in CodexBirth!Creations
    BY DEF CodexTyped, CodexStrong, OneRunner
  <1>3. /\ \A l \in CodexPcs : CodexBirth!Goto(c, l) => At(c, l, caller[c].call)
        /\ CodexBirth!Return(c) => At(c, "idle", 0)
        /\ \A l \in CodexPcs, k \in CodexBirth!Creations :
             caller' = [caller EXCEPT ![c] = [pc |-> l, call |-> k]] => At(c, l, k)
    BY CodexMoves
  <1>4. /\ "adapter" \in CodexPcs /\ "join" \in CodexPcs /\ "create" \in CodexPcs /\ "start" \in CodexPcs
        /\ "confirm" \in CodexPcs /\ "ok" \in CodexPcs /\ "rejected" \in CodexPcs /\ "record" \in CodexPcs
        /\ "uncertain" \in CodexPcs /\ "bind" \in CodexPcs /\ "idle" \in CodexPcs
    BY DEF CodexPcs
  <1>5. CASE CodexBirth!CreateCodexSession(c)
    <2>1. UNCHANGED <<bound, open, tombstone, current, result, thread>> /\ ~open
      BY <1>5 DEF CodexBirth!CreateCodexSession
    <2>2. caller[c].pc = "idle" /\ At(c, "adapter", caller[c].call)
      BY <1>3, <1>4, <1>5 DEF CodexBirth!CreateCodexSession
    <2> QED BY <1>4, <2>1, <2>2, CodexSteps DEF Runs, Unpublished
  <1>6. CASE CodexBirth!CreateSession(c)
    <2>1. caller[c].pc = "adapter" /\ UNCHANGED <<bound, open, tombstone, thread>>
      BY <1>6 DEF CodexBirth!CreateSession
    <2>2. CASE CodexBirth!Goto(c, "record") /\ UNCHANGED <<current, result>>
      BY <1>3, <1>4, <2>1, <2>2, CodexSteps DEF Runs, Unpublished
    <2>3. CASE /\ current # 0 /\ UNCHANGED <<current, result>>
               /\ caller' = [caller EXCEPT ![c] = [pc |-> "join", call |-> current]]
      <3>1. current \in CodexBirth!Creations
        BY <2>3 DEF CodexTyped
      <3> QED BY <1>3, <1>4, <2>1, <2>3, <3>1, CodexSteps DEF Runs, Unpublished
    <2>4. CASE /\ ~tombstone /\ current = 0
               /\ \E k \in CodexBirth!Creations :
                    /\ result[k] = "none" /\ current' = k
                    /\ result' = [result EXCEPT ![k] = "running"]
                    /\ caller' = [caller EXCEPT ![c] = [pc |-> "create", call |-> k]]
      BY <1>3, <1>4, <2>1, <2>4, CodexRuns
    <2> QED BY <1>6, <2>2, <2>3, <2>4 DEF CodexBirth!CreateSession
  <1>7. CASE CodexBirth!CreateBinding(c)
    <2>1. /\ caller[c].pc = "create" /\ UNCHANGED <<bound, open, tombstone, current, result, thread>>
          /\ thread[current] = "none"
      BY <1>7 DEF CodexBirth!CreateBinding, CodexStrong, RunnerThread
    <2>2. \/ CodexBirth!Goto(c, "ok") \/ CodexBirth!Goto(c, "rejected")
          \/ bound = 0 /\ CodexBirth!Goto(c, "start")
      BY <1>7 DEF CodexBirth!CreateBinding
    <2> QED BY <1>3, <1>4, <2>1, <2>2, CodexSteps DEF Runs, Unpublished
  <1>8. CASE CodexBirth!ThreadStartRefused(c)
    <2>1. /\ caller[c].pc = "start" /\ UNCHANGED <<bound, open, tombstone, current, result, thread>>
          /\ thread[caller[c].call] = "none" /\ CodexBirth!Goto(c, "rejected")
      BY <1>8 DEF CodexBirth!ThreadStartRefused, CodexBirth!Call
    <2> QED BY <1>2, <1>3, <1>4, <2>1, CodexSteps DEF Runs, Unpublished
  <1>9. CASE CodexBirth!NativeStarts(c)
    BY <1>9, CodexThread DEF CodexBirth!NativeStarts, CodexBirth!Call
  <1>10. CASE CodexBirth!ThreadStarted(c)
    BY <1>10
       DEF CodexBirth!ThreadStarted, CodexStrong, OneRunner, RunnerThread, ThreadsHeld, Blocked,
           NobodyCreates, OneThread, Runs, Unpublished
  <1>11. CASE CodexBirth!Response(c)
    <2>1. /\ caller[c].pc = "start" /\ UNCHANGED <<bound, open, tombstone, current, result, thread>>
          /\ thread[caller[c].call] = "live" /\ CodexBirth!Goto(c, "confirm")
      BY <1>11 DEF CodexBirth!Response, CodexBirth!Call
    <2>2. bound = 0
      BY <2>1 DEF CodexStrong, RunnerThread
    <2> QED BY <1>2, <1>3, <1>4, <2>1, <2>2, CodexSteps DEF Runs, Unpublished
  <1>12. CASE CodexBirth!ResponseLost(c)
    BY <1>3, <1>4, <1>12, CodexThread DEF CodexBirth!ResponseLost, CodexBirth!Uncertain, CodexBirth!Call
  <1>13. CASE CodexBirth!CompleteCreation(c)
    <2>1. CASE CodexBirth!Uncertain(c)
      BY <1>3, <1>4, <1>13, <2>1, CodexThread
         DEF CodexBirth!CompleteCreation, CodexBirth!Uncertain, CodexBirth!Call
    <2>2. CASE CodexBirth!Goto(c, "ok") /\ UNCHANGED thread
      <3>1. caller[c].pc = "confirm" /\ UNCHANGED <<bound, open, tombstone, current, result, thread>>
        BY <1>13, <2>2 DEF CodexBirth!CompleteCreation
      <3> QED BY <1>3, <1>4, <2>2, <3>1, CodexSteps DEF Runs, Unpublished
    <2> QED BY <1>13, <2>1, <2>2 DEF CodexBirth!CompleteCreation
  <1>14. CASE CodexBirth!Publish(c)
    BY <1>14, CodexPublish
  <1>15. CASE CodexBirth!Entomb(c) \/ CodexBirth!Retire(c)
    BY <1>15, CodexRetire
  <1>16. CASE CodexBirth!Join(c)
    <2>1. caller[c].pc = "join" /\ UNCHANGED <<bound, open, tombstone, current, result, thread>>
      BY <1>16 DEF CodexBirth!Join
    <2>2. caller[c].call \in CodexBirth!Creations
      BY <2>1 DEF CodexTyped, CodexRow, CodexStrong, OneRunner
    <2>3. \/ result[caller[c].call] = "ok" /\ CodexBirth!Goto(c, "bind")
          \/ CodexBirth!Goto(c, "record") \/ CodexBirth!Return(c)
      BY <1>16 DEF CodexBirth!Join, CodexBirth!Call
    <2> QED BY <1>3, <1>4, <2>1, <2>2, <2>3, CodexSteps DEF Runs, Unpublished
  <1>17. CASE CodexBirth!RecordUncertain(c)
    <2>1. /\ caller[c].pc = "record" /\ UNCHANGED <<bound, tombstone, current, result>>
          /\ CodexBirth!Return(c)
      BY <1>17 DEF CodexBirth!RecordUncertain
    <2>2. CASE UNCHANGED <<open, thread>>
      BY <1>3, <1>4, <2>1, <2>2, CodexSteps DEF Runs, Unpublished
    <2>3. CASE ~UNCHANGED <<open, thread>>
      <3>1. /\ open'
            /\ thread' = [k \in CodexBirth!Creations |->
                            IF thread[k] = "uncertain" /\ result[k] = "uncertain" THEN "recorded"
                            ELSE thread[k]]
        BY <1>17, <2>3, Zenon DEF CodexBirth!RecordUncertain
      <3>2. \A k \in CodexBirth!Creations :
              thread'[k] = IF thread[k] = "uncertain" /\ result[k] = "uncertain" THEN "recorded" ELSE thread[k]
        BY <3>1
      <3> QED BY <1>3, <2>1, <3>1, <3>2, CodexRecords
    <2> QED BY <2>2, <2>3
  <1>18. CASE CodexBirth!BindCodexSession(c)
    <2>1. CASE UNCHANGED <<bound, thread>>
      <3>1. /\ caller[c].pc = "bind" /\ UNCHANGED <<bound, open, tombstone, current, result, thread>>
            /\ CodexBirth!Return(c)
        BY <1>18, <2>1 DEF CodexBirth!BindCodexSession
      <3> QED BY <1>3, <1>4, <3>1, CodexSteps DEF Runs, Unpublished
    <2>2. CASE /\ bound = 0 /\ thread[CodexBirth!Call(c)] = "live" /\ bound' = CodexBirth!Call(c)
               /\ thread' = [thread EXCEPT ![CodexBirth!Call(c)] = "bound"]
      BY <1>18, <2>2, CodexBinds DEF CodexBirth!Call
    <2> QED BY <1>18, <2>1, <2>2 DEF CodexBirth!BindCodexSession
  <1> QED
    BY <1>5, <1>6, <1>7, <1>8, <1>9, <1>10, <1>11, <1>12, <1>13, <1>14, <1>15, <1>16, <1>17, <1>18
       DEF CodexBirth!Requesting

\* The controller's steps and a crash.
LEMMA CodexOthers ==
  ASSUME CodexTyped, CodexStrong,
         CodexBirth!Resolve \/ CodexBirth!ReplayResolve \/ CodexBirth!ClearTombstone \/ CodexBirth!Crash
  PROVE  CodexStrong'
  <1> USE DEF CodexBirth!storeVars, CodexBirth!adapterVars
  <1>1. \A d \in Callers : Runs(d) => current \in CodexBirth!Creations
    BY DEF CodexTyped, CodexStrong, OneRunner
  <1>2. CASE CodexBirth!Resolve
    <2>1. /\ UNCHANGED <<bound, tombstone, current, result, caller>>
          /\ \A k \in CodexBirth!Creations :
               thread'[k] = IF thread[k] = "recorded" THEN "resolved" ELSE thread[k]
      BY <1>2, Zenon DEF CodexBirth!Resolve
    <2>2. OneRunner' /\ RunnerThread'
      BY <1>1, <2>1 DEF CodexStrong, OneRunner, RunnerThread, Runs, Unpublished
    <2>3. \A k \in CodexBirth!Creations : thread'[k] = "uncertain" => Blocked(k)'
      BY <2>1 DEF CodexStrong, ThreadsHeld, Blocked
    <2>4. ThreadsHeld' /\ OneThread'
      BY <2>1, <2>3 DEF CodexStrong, ThreadsHeld, OneThread
    <2> QED BY <2>2, <2>4 DEF CodexStrong
  <1>3. CASE CodexBirth!ReplayResolve
    <2>1. UNCHANGED <<bound, open, tombstone, current, result, thread, caller>>
      BY <1>3 DEF CodexBirth!ReplayResolve
    <2>2. OneRunner' /\ RunnerThread' /\ OneThread'
      BY <2>1 DEF CodexStrong, OneRunner, RunnerThread, Runs, Unpublished, OneThread
    <2>3. ThreadsHeld'
      BY <2>1, Zenon DEF CodexStrong, ThreadsHeld, Blocked, NobodyCreates, Unpublished
    <2> QED BY <2>2, <2>3 DEF CodexStrong
  <1>4. CASE CodexBirth!ClearTombstone
    <2>1. UNCHANGED <<bound, open, current, result, caller>> /\ ~tombstone'
      BY <1>4 DEF CodexBirth!ClearTombstone
    <2>2. \A k \in CodexBirth!Creations :
            thread'[k] = IF /\ tombstone
                            /\ \/ thread[k] = "uncertain"
                               \/ thread[k] = "recorded" /\ \E c \in Callers : caller[c].pc = "adapter"
                         THEN "exposed" ELSE thread[k]
      BY <1>4, Zenon DEF CodexBirth!ClearTombstone
    <2>3. OneRunner' /\ RunnerThread'
      BY <1>1, <2>1, <2>2 DEF CodexStrong, OneRunner, RunnerThread, Runs, Unpublished
    <2>4. ASSUME NEW k \in CodexBirth!Creations, thread'[k] \in {"uncertain", "recorded"} PROVE Blocked(k)'
      <3>1. thread'[k] = thread[k] /\ Blocked(k)
        BY <2>2, <2>4 DEF CodexStrong, ThreadsHeld
      <3>2. CASE tombstone
        <4>1. thread[k] = "recorded" /\ \A c \in Callers : caller[c].pc # "adapter"
          BY <2>2, <2>4, <3>2
        <4>2. \A c \in Callers : ~Unpublished(c)
          BY <3>2 DEF CodexStrong, OneRunner
        <4>3. NobodyCreates'
          BY <2>1, <4>1, <4>2 DEF NobodyCreates, Unpublished
        <4> QED BY <3>1, <4>1, <4>3 DEF Blocked
      <3>3. CASE ~tombstone
        BY <2>1, <3>1, <3>3 DEF Blocked, NobodyCreates, Unpublished
      <3> QED BY <3>2, <3>3
    <2>5. ThreadsHeld' /\ OneThread'
      BY <2>1, <2>2, <2>4 DEF CodexStrong, ThreadsHeld, OneThread
    <2> QED BY <2>3, <2>5 DEF CodexStrong
  <1>5. CASE CodexBirth!Crash
    <2>1. /\ \A c \in Callers : caller'[c].pc = "idle"
          /\ UNCHANGED <<bound, open>> /\ current' = 0
          /\ \A k \in CodexBirth!Creations : result'[k] = IF result[k] = "none" THEN "none" ELSE "gone"
      BY <1>5 DEF CodexBirth!Crash, CodexBirth!IdleCaller
    <2>2. \A k \in CodexBirth!Creations :
            thread'[k] = IF thread[k] \in {"live", "uncertain"} THEN "forgotten" ELSE thread[k]
      BY <1>5, Zenon DEF CodexBirth!Crash
    <2>3. OneRunner' /\ RunnerThread'
      BY <2>1, <2>2 DEF CodexStrong, OneRunner, RunnerThread, Runs, Unpublished
    <2>4. NobodyCreates'
      BY <2>1 DEF NobodyCreates, Unpublished
    <2>5. ThreadsHeld' /\ OneThread'
      BY <2>1, <2>2, <2>4 DEF CodexStrong, ThreadsHeld, Blocked, OneThread
    <2> QED BY <2>3, <2>5 DEF CodexStrong
  <1> QED BY <1>2, <1>3, <1>4, <1>5

\* The rows keep their types.
LEMMA CodexTypedNext == ASSUME CodexTyped, CodexBirth!Next PROVE CodexTyped'
  <1> USE DEF CodexTyped, CodexBirth!storeVars, CodexBirth!adapterVars
  <1>1. ASSUME NEW c \in Callers, CodexBirth!Requesting(c) PROVE CodexTyped'
    <2>1. /\ \A l \in CodexPcs : CodexBirth!Goto(c, l) => caller' \in [Callers -> CodexRow]
          /\ CodexBirth!Return(c) => caller' \in [Callers -> CodexRow]
          /\ \A l \in CodexPcs, k \in CodexBirth!Creations :
               caller' = [caller EXCEPT ![c] = [pc |-> l, call |-> k]] => caller' \in [Callers -> CodexRow]
      BY CodexMoves DEF At
    <2>2. /\ "adapter" \in CodexPcs /\ "join" \in CodexPcs /\ "create" \in CodexPcs /\ "start" \in CodexPcs
          /\ "confirm" \in CodexPcs /\ "ok" \in CodexPcs /\ "rejected" \in CodexPcs /\ "record" \in CodexPcs
          /\ "uncertain" \in CodexPcs /\ "bind" \in CodexPcs /\ "idle" \in CodexPcs /\ "retire" \in CodexPcs
          /\ "entomb" \in CodexPcs
      BY DEF CodexPcs
    <2>3. caller[c].call \in CodexBirth!Creations \cup {0}
      BY DEF CodexRow
    <2>4. CASE CodexBirth!CreateCodexSession(c) \/ CodexBirth!ThreadStartRefused(c) \/ CodexBirth!Response(c)
      BY <2>1, <2>2, <2>4
         DEF CodexBirth!CreateCodexSession, CodexBirth!ThreadStartRefused, CodexBirth!Response
    <2>5. CASE CodexBirth!CreateSession(c)
      BY <2>1, <2>2, <2>5 DEF CodexBirth!CreateSession
    <2>6. CASE CodexBirth!CreateBinding(c)
      BY <2>1, <2>2, <2>6 DEF CodexBirth!CreateBinding
    <2>7. CASE CodexBirth!NativeStarts(c) \/ CodexBirth!ThreadStarted(c)
      BY <2>7 DEF CodexBirth!NativeStarts, CodexBirth!ThreadStarted
    <2>8. CASE CodexBirth!ResponseLost(c)
      BY <2>1, <2>2, <2>8 DEF CodexBirth!ResponseLost, CodexBirth!Uncertain
    <2>9. CASE CodexBirth!CompleteCreation(c)
      BY <2>1, <2>2, <2>9 DEF CodexBirth!CompleteCreation, CodexBirth!Uncertain
    <2>10. CASE CodexBirth!Publish(c)
      <3>1. caller' \in [Callers -> CodexRow]
        <4>1. PICK l : CodexBirth!Goto(c, l) /\ l = (CASE caller[c].pc = "ok" -> "bind"
                         [] caller[c].pc = "rejected" -> "retire" [] OTHER -> "entomb")
          BY <2>10 DEF CodexBirth!Publish
        <4>2. l \in {"bind", "retire", "entomb"}
          BY <4>1
        <4> QED BY <2>1, <2>2, <4>1, <4>2
      <3> QED BY <2>10, <3>1 DEF CodexBirth!Publish
    <2>11. CASE CodexBirth!Entomb(c)
      BY <2>1, <2>2, <2>11 DEF CodexBirth!Entomb
    <2>12. CASE CodexBirth!Retire(c)
      BY <2>1, <2>2, <2>12 DEF CodexBirth!Retire
    <2>13. CASE CodexBirth!Join(c)
      BY <2>1, <2>2, <2>13 DEF CodexBirth!Join
    <2>14. CASE CodexBirth!RecordUncertain(c)
      BY <2>1, <2>14 DEF CodexBirth!RecordUncertain
    <2>15. CASE CodexBirth!BindCodexSession(c)
      BY <2>1, <2>3, <2>15 DEF CodexBirth!BindCodexSession, CodexBirth!Call
    <2> QED
      BY <1>1, <2>4, <2>5, <2>6, <2>7, <2>8, <2>9, <2>10, <2>11, <2>12, <2>13, <2>14, <2>15
         DEF CodexBirth!Requesting
  <1>2. CASE CodexBirth!Resolve \/ CodexBirth!ReplayResolve \/ CodexBirth!ClearTombstone
    BY <1>2 DEF CodexBirth!Resolve, CodexBirth!ReplayResolve, CodexBirth!ClearTombstone
  <1>3. CASE CodexBirth!Crash
    BY <1>3 DEF CodexBirth!Crash, CodexBirth!IdleCaller, CodexRow, CodexPcs
  <1> QED BY <1>1, <1>2, <1>3 DEF CodexBirth!Next

\* Every step of a birth.
LEMMA CodexNext == ASSUME CodexInv, CodexBirth!Next PROVE CodexInv'
  <1>1. CodexTyped'
    BY CodexTypedNext DEF CodexInv
  <1>2. CodexStrong'
    BY CodexCaller, CodexOthers DEF CodexBirth!Next, CodexInv
  <1> QED BY <1>1, <1>2 DEF CodexInv

\* It holds before the first birth.
LEMMA CodexInit == ASSUME CodexBirth!Init PROVE CodexInv
  <1>1. CodexTyped
    BY DEF CodexBirth!Init, CodexTyped, CodexBirth!IdleCaller, CodexRow, CodexPcs
  <1>2. OneRunner /\ RunnerThread
    BY DEF CodexBirth!Init, CodexBirth!IdleCaller, OneRunner, RunnerThread, Runs, Unpublished
  <1>3. ThreadsHeld /\ OneThread
    BY DEF CodexBirth!Init, ThreadsHeld, OneThread
  <1> QED BY <1>1, <1>2, <1>3 DEF CodexInv, CodexStrong

BirthParts ==
  /\ part = "agy birth" => AgyBirth!ConversationAccounted /\ AgyBirth!OneBirthAtATime
  /\ part = "codex birth" => CodexBirth!OneNativeThread

\* The births of agy and codex, in every behaviour of theirs.
LEMMA BirthPartsHold == MCSpec => []BirthParts
  <1> DEFINE I == (part = "agy birth" => BirthInv) /\ (part = "codex birth" => CodexInv)
  <1>1. MCInit => I
    BY BirthInit, CodexInit DEF MCInit
  <1>2. I /\ [MCNext]_mcVars => I'
    <2> SUFFICES ASSUME I, [MCNext]_mcVars PROVE I'
      OBVIOUS
    <2>1. CASE part = "agy birth" /\ AgyBirth!Next /\ UNCHANGED part
      BY <2>1, BirthNext
    <2>2. CASE part = "codex birth" /\ CodexBirth!Next /\ UNCHANGED part
      BY <2>2, CodexNext
    <2>3. CASE part \notin {"agy birth", "codex birth"} /\ UNCHANGED part
      BY <2>3
    <2>4. CASE UNCHANGED mcVars
      <3>1. UNCHANGED <<part, bound, episode, inFlight, caller, issued, tombstone, current, result,
                        thread, open>>
        BY <2>4 DEF mcVars, vars, createVars, birthVars, agyBirthVars, codexBirthVars
      <3>2. BirthInv => BirthInv'
        BY <3>1 DEF BirthInv, BirthTyped, OneCreation, OneOpen, OnePerEpisode, Accounted
      <3>3. CodexTyped => CodexTyped'
        BY <3>1 DEF CodexTyped
      <3>4. CodexStrong => CodexStrong'
        <4>1. OneRunner => OneRunner'
          BY <3>1 DEF OneRunner, Runs, Unpublished
        <4>2. RunnerThread => RunnerThread'
          BY <3>1 DEF RunnerThread
        <4>3. ThreadsHeld => ThreadsHeld'
          BY <3>1, Zenon DEF ThreadsHeld, Blocked, NobodyCreates, Unpublished
        <4>4. OneThread => OneThread'
          BY <3>1 DEF OneThread
        <4> QED BY <4>1, <4>2, <4>3, <4>4 DEF CodexStrong
      <3>5. CodexInv => CodexInv'
        BY <3>1, <3>3, <3>4, Zenon DEF CodexInv
      <3> QED BY <3>1, <3>2, <3>5
    <2> QED BY <2>1, <2>2, <2>3, <2>4 DEF MCNext
  <1>3. I => BirthParts
    BY BirthInvImplies DEF BirthParts, CodexInv, CodexStrong, OneThread, CodexBirth!OneNativeThread
  <1> HIDE DEF I
  <1> QED BY <1>1, <1>2, <1>3, PTL DEF MCSpec, mcVars

-----------------------------------------------------------------------------
(* The turns of a claude session.                                          *)

\* The program counters of a dispatch that has no child yet, and of one that holds the slot.
Childless == {"none", "binding", "slot", "check", "source", "insert", "reserve", "start", "start_failed"}
Writing == {"started", "write", "close", "terminate"}
Holding == {"check", "source", "insert", "reserve", "start", "start_failed"} \cup Writing

\* How far a turn's dispatch and its run are says what there is of its child.
ClaudePhase(t) ==
  /\ turn[t] = "queued" => pc[t] = "none"
  /\ pc[t] \in Childless \cup {"reject"} => child[t] = "none" /\ ~got[t]
  /\ pc[t] \in Childless \cup Writing => run[t] = "none"
  /\ pc[t] = "close" => got[t]
  /\ run[t] = "none" => said[t] = {}
  /\ run[t] \in {"parse", "reaped", "verdict"} => got[t]
  /\ run[t] \in {"reaped", "verdict", "materialize", "release"} => child[t] = "gone"

\* An attempt is uncertain from its insertion to its verdict, as long as its child is up in any
\* case; a verdict ends the run.
ClaudeAttempt(t) ==
  /\ pc[t] \in {"reserve", "start", "start_failed"} => attempt[t] = "uncertain"
  /\ child[t] = "up" => attempt[t] = "uncertain"
  /\ attempt[t] \in Resolved => run[t] \in {"materialize", "release", "over"}
  /\ reconcile[t] \in Resolved => attempt[t] = reconcile[t]

\* What may be said to be rejected or missing never had a child, and will not have one.
ClaudeRejection(t) ==
  \/ launch[t] = "start_failed" \/ attempt[t] = "missing" \/ reconcile[t] = "missing"
  \/ turn[t] \in {"rejected", "missing"}
  => child[t] = "none" /\ ~got[t] /\ pc[t] \in {"reject", "gone"}

\* What ParseStream knows is what the child said.
Knows(p, s) ==
  ~p.poisoned =>
    /\ p.init => "init" \in s
    /\ "drift" \notin s
    /\ p.verdict = None => s \cap {"result", "error"} = {}
    /\ p.verdict = "completed" => "result" \in s /\ "error" \notin s
    /\ p.verdict = "failed" => "error" \in s /\ "result" \notin s

ClaudeParser(t) == run[t] \in {"parse", "reaped", "verdict"} => Knows(parser[t], said[t])

\* What the run checks of a verdict.
ClaudeVerdict(t) ==
  /\ attempt[t] = "completed" =>
       got[t] /\ {"init", "result"} \subseteq said[t] /\ said[t] \cap {"error", "drift"} = {}
  /\ attempt[t] = "failed" =>
       got[t] /\ {"init", "error"} \subseteq said[t] /\ said[t] \cap {"result", "drift"} = {}
  /\ turn[t] \in Resolved => turn[t] = attempt[t]

ClaudeRow(t) ==
  ClaudePhase(t) /\ ClaudeAttempt(t) /\ ClaudeRejection(t) /\ ClaudeParser(t) /\ ClaudeVerdict(t)

\* A dispatch past its check owns the slot, and nobody else's attempt is uncertain.
ClaudeSlot ==
  \A t \in Turns :
    /\ pc[t] \in Holding => slot = t
    /\ pc[t] \in {"source", "insert", "reserve", "start"} =>
         \A u \in Turns \ {t} : attempt[u] # "uncertain"

\* A request that has an identity has that of the creation on record; one that runs or fails
\* is the creation on record.
ClaudeCreations ==
  /\ \A c \in Callers : caller[c].id # None => creation # None /\ caller[creation].id = caller[c].id
  /\ \A c \in Callers : caller[c].pc \in {"create", "failing"} => creation = c
  /\ \A c \in Callers : caller[c].pc \in {"create", "failing"} => caller[c].id = None

ClaudeInv ==
  TypeOK /\ (\A t \in Turns : ClaudeRow(t)) /\ ClaudeSlot /\ OneChildPerSession /\ ClaudeCreations

\* Only turn t's rows, program counters and child have changed.
OnlyTurn(t) ==
  \A u \in Turns \ {t} :
    /\ turn'[u] = turn[u] /\ attempt'[u] = attempt[u] /\ launch'[u] = launch[u] /\ pc'[u] = pc[u]
    /\ run'[u] = run[u] /\ parser'[u] = parser[u] /\ reconcile'[u] = reconcile[u]
    /\ child'[u] = child[u] /\ got'[u] = got[u] /\ said'[u] = said[u]

\* What a turn's step must show of the slot.
SlotStep(t) ==
  /\ slot' \in {slot, t} \/ (slot = t /\ slot' = None)
  /\ slot' = t => slot \in {None, t}
  /\ pc'[t] \in Holding => slot' = t
  /\ pc'[t] \in {"source", "insert", "reserve", "start"} =>
       \A u \in Turns \ {t} : attempt[u] # "uncertain"
  /\ attempt'[t] = "uncertain" => attempt[t] = "uncertain" \/ slot = t
  /\ child'[t] = "up" => child[t] = "up" \/ \A u \in Turns \ {t} : attempt[u] # "uncertain"

\* A step of one turn.
LEMMA ClaudeStep ==
  ASSUME TypeOK, \A t \in Turns : ClaudeRow(t), ClaudeSlot, OneChildPerSession,
         NEW t \in Turns, OnlyTurn(t), SlotStep(t), ClaudeRow(t)'
  PROVE  (\A u \in Turns : ClaudeRow(u)') /\ ClaudeSlot' /\ OneChildPerSession'
  <1>1. ASSUME NEW u \in Turns, u # t PROVE ClaudeRow(u)'
    <2>1. /\ turn'[u] = turn[u] /\ attempt'[u] = attempt[u] /\ launch'[u] = launch[u] /\ pc'[u] = pc[u]
          /\ run'[u] = run[u] /\ parser'[u] = parser[u] /\ reconcile'[u] = reconcile[u]
          /\ child'[u] = child[u] /\ got'[u] = got[u] /\ said'[u] = said[u]
      BY <1>1 DEF OnlyTurn
    <2>2. ClaudeRow(u)
      OBVIOUS
    <2>3. ClaudePhase(u)' /\ ClaudeAttempt(u)'
      BY <2>1, <2>2 DEF ClaudeRow, ClaudePhase, ClaudeAttempt
    <2>4. ClaudeRejection(u)'
      BY <2>1, <2>2 DEF ClaudeRow, ClaudeRejection
    <2>5. ClaudeParser(u)'
      BY <2>1, <2>2 DEF ClaudeRow, ClaudeParser, Knows
    <2>6. ClaudeVerdict(u)'
      BY <2>1, <2>2 DEF ClaudeRow, ClaudeVerdict
    <2> QED BY <2>3, <2>4, <2>5, <2>6 DEF ClaudeRow
  <1>2. ClaudeSlot'
    <2>1. ASSUME NEW u \in Turns, pc'[u] \in Holding PROVE slot' = u
      <3>1. CASE u = t
        BY <2>1, <3>1 DEF SlotStep
      <3>2. CASE u # t
        <4>1. slot = u /\ u # None
          BY <2>1, <3>2, ClaudeAssumption DEF OnlyTurn, ClaudeSlot
        <4> QED BY <3>2, <4>1 DEF SlotStep
      <3> QED BY <3>1, <3>2
    <2>2. ASSUME NEW u \in Turns, pc'[u] \in {"source", "insert", "reserve", "start"},
                 NEW v \in Turns \ {u}
          PROVE  attempt'[v] # "uncertain"
      <3>1. CASE u = t
        BY <2>2, <3>1 DEF SlotStep, OnlyTurn
      <3>2. CASE u # t
        <4>1. slot = u /\ attempt[v] # "uncertain"
          BY <2>2, <3>2 DEF OnlyTurn, ClaudeSlot, Holding
        <4> QED BY <2>2, <3>2, <4>1 DEF SlotStep, OnlyTurn
      <3> QED BY <3>1, <3>2
    <2> QED BY <2>1, <2>2 DEF ClaudeSlot
  <1>3. OneChildPerSession'
    <2>1. \A u \in Turns : child[u] = "up" => attempt[u] = "uncertain"
      BY DEF ClaudeRow, ClaudeAttempt
    <2> QED BY <2>1 DEF OneChildPerSession, OnlyTurn, SlotStep
  <1> QED BY <1>1, <1>2, <1>3

\* A dispatch that only moves on.
LEMMA ClaudeGoto ==
  ASSUME TypeOK, NEW t \in Turns, ClaudeRow(t), NEW l, Goto(t, l), pc[t] # "none",
         UNCHANGED <<turn, attempt, launch, run, parser, reconcile, child, got, said>>,
         l \in Childless \cup {"reject"} => pc[t] \in Childless,
         l \in Writing => pc[t] \in Childless \cup Writing,
         l = "close" => got[t],
         l \in {"reserve", "start", "start_failed"} => attempt[t] = "uncertain",
         pc[t] \in {"reject", "gone"} => l \in {"reject", "gone"}
  PROVE  OnlyTurn(t) /\ ClaudeRow(t)' /\ pc'[t] = l
  <1>1. OnlyTurn(t) /\ pc'[t] = l
    BY DEF TypeOK, OnlyTurn, Goto
  <1>2. ClaudePhase(t)'
    BY <1>1 DEF ClaudeRow, ClaudePhase
  <1>3. ClaudeAttempt(t)' /\ ClaudeRejection(t)'
    BY <1>1 DEF ClaudeRow, ClaudeAttempt, ClaudeRejection
  <1>4. ClaudeParser(t)' /\ ClaudeVerdict(t)'
    BY DEF ClaudeRow, ClaudeParser, ClaudeVerdict
  <1> QED BY <1>1, <1>2, <1>3, <1>4 DEF ClaudeRow

\* A rejection frees the slot it owns.
LEMMA ClaudeReject ==
  ASSUME TypeOK, NEW t \in Turns, ClaudeRow(t), Reject(t), pc[t] \in Childless \ {"none"},
         UNCHANGED <<turn, attempt, launch, run, parser, reconcile, child, got, said>>
  PROVE  OnlyTurn(t) /\ SlotStep(t) /\ ClaudeRow(t)'
  <1>1. OnlyTurn(t) /\ ClaudeRow(t)' /\ pc'[t] = "reject"
    BY ClaudeGoto DEF Reject, Childless, Writing
  <1>2. SlotStep(t)
    BY <1>1, ClaudeAssumption DEF SlotStep, Reject, ReleaseSlot, Holding, Writing
  <1> QED BY <1>1, <1>2

\* Dispatch, up to the child.
LEMMA ClaudeDispatch ==
  ASSUME TypeOK, \A t \in Turns : ClaudeRow(t), ClaudeSlot, NEW t \in Turns,
         \/ Release(t) \/ ReadBinding(t) \/ AcquireSlot(t) \/ CheckUnresolved(t) \/ ClaudeTurnLaunch(t)
         \/ InsertAttempt(t) \/ ReserveLaunch(t)
  PROVE  OnlyTurn(t) /\ SlotStep(t) /\ ClaudeRow(t)'
  <1> USE DEF Dispatching, rowVars, runVars, childVars
  <1>1. ClaudeRow(t)
    OBVIOUS
  <1>2. /\ pc[t] \in Holding => slot = t
        /\ pc[t] \in {"source", "insert", "reserve", "start"} =>
             \A u \in Turns \ {t} : attempt[u] # "uncertain"
    BY DEF ClaudeSlot
  <1>3. CASE Release(t)
    <2>1. /\ turn[t] = "queued" /\ turn' = [turn EXCEPT ![t] = "running"]
          /\ pc' = [pc EXCEPT ![t] = "binding"]
          /\ UNCHANGED <<attempt, launch, slot, run, parser, reconcile, child, got, said>>
      BY <1>3 DEF Release, Goto
    <2>2. turn'[t] = "running" /\ pc'[t] = "binding" /\ OnlyTurn(t)
      BY <2>1 DEF TypeOK, OnlyTurn
    <2>3. ClaudePhase(t)' /\ ClaudeAttempt(t)' /\ ClaudeRejection(t)'
      BY <1>1, <2>1, <2>2 DEF ClaudeRow, ClaudePhase, ClaudeAttempt, ClaudeRejection, Childless, Writing
    <2>4. ClaudeParser(t)' /\ ClaudeVerdict(t)'
      BY <1>1, <2>1, <2>2 DEF ClaudeRow, ClaudeParser, ClaudeVerdict, Resolved
    <2>5. SlotStep(t)
      BY <2>1, <2>2 DEF SlotStep, Holding, Writing
    <2> QED BY <2>2, <2>3, <2>4, <2>5 DEF ClaudeRow
  <1>4. CASE ReadBinding(t)
    <2>1. /\ pc[t] = "binding" /\ UNCHANGED slot
          /\ UNCHANGED <<turn, attempt, launch, run, parser, reconcile, child, got, said>>
      BY <1>4 DEF ReadBinding
    <2>2. PICK l \in {"reject", "slot"} : Goto(t, l)
      BY <1>4 DEF ReadBinding
    <2>3. OnlyTurn(t) /\ ClaudeRow(t)' /\ pc'[t] = l
      BY <1>1, <2>1, <2>2, ClaudeGoto DEF Childless, Writing
    <2>4. SlotStep(t)
      BY <2>1, <2>2, <2>3 DEF SlotStep, Holding, Writing
    <2> QED BY <2>3, <2>4
  <1>5. CASE AcquireSlot(t)
    <2>1. /\ pc[t] = "slot" /\ slot \in {None, t} /\ slot' = t /\ Goto(t, "check")
          /\ UNCHANGED <<turn, attempt, launch, run, parser, reconcile, child, got, said>>
      BY <1>5 DEF AcquireSlot
    <2>2. OnlyTurn(t) /\ ClaudeRow(t)' /\ pc'[t] = "check"
      BY <1>1, <2>1, ClaudeGoto DEF Childless, Writing
    <2>3. SlotStep(t)
      BY <2>1, <2>2 DEF SlotStep
    <2> QED BY <2>2, <2>3
  <1>6. CASE CheckUnresolved(t)
    <2>1. /\ pc[t] = "check"
          /\ UNCHANGED <<turn, attempt, launch, run, parser, reconcile, child, got, said>>
      BY <1>6 DEF CheckUnresolved
    <2>2. CASE Reject(t)
      BY <1>1, <2>1, <2>2, ClaudeReject DEF Childless
    <2>3. CASE ~HasUnresolvedAttempts /\ Goto(t, "source") /\ UNCHANGED slot
      <3>1. OnlyTurn(t) /\ ClaudeRow(t)' /\ pc'[t] = "source"
        BY <1>1, <2>1, <2>3, ClaudeGoto DEF Childless, Writing
      <3>2. SlotStep(t)
        BY <1>2, <2>1, <2>3, <3>1 DEF SlotStep, Holding, HasUnresolvedAttempts
      <3> QED BY <3>1, <3>2
    <2> QED BY <1>6, <2>2, <2>3 DEF CheckUnresolved
  <1>7. CASE ClaudeTurnLaunch(t)
    <2>1. /\ pc[t] = "source"
          /\ UNCHANGED <<turn, attempt, launch, run, parser, reconcile, child, got, said>>
      BY <1>7 DEF ClaudeTurnLaunch
    <2>2. CASE Reject(t)
      BY <1>1, <2>1, <2>2, ClaudeReject DEF Childless
    <2>3. CASE Goto(t, "insert") /\ UNCHANGED slot
      <3>1. OnlyTurn(t) /\ ClaudeRow(t)' /\ pc'[t] = "insert"
        BY <1>1, <2>1, <2>3, ClaudeGoto DEF Childless, Writing
      <3>2. SlotStep(t)
        BY <1>2, <2>1, <2>3, <3>1 DEF SlotStep, Holding
      <3> QED BY <3>1, <3>2
    <2> QED BY <1>7, <2>2, <2>3 DEF ClaudeTurnLaunch
  <1>8. CASE InsertAttempt(t)
    <2>1. pc[t] = "insert" /\ UNCHANGED <<turn, launch, run, parser, reconcile, child, got, said>>
      BY <1>8 DEF InsertAttempt
    <2>2. CASE Reject(t) /\ UNCHANGED attempt
      BY <1>1, <2>1, <2>2, ClaudeReject DEF Childless
    <2>3. CASE /\ attempt[t] = None /\ attempt' = [attempt EXCEPT ![t] = "uncertain"]
               /\ Goto(t, "reserve") /\ UNCHANGED slot
      <3>1. attempt'[t] = "uncertain" /\ pc'[t] = "reserve" /\ OnlyTurn(t)
        BY <2>1, <2>3 DEF TypeOK, OnlyTurn, Goto
      <3>2. ClaudePhase(t)' /\ ClaudeAttempt(t)' /\ ClaudeRejection(t)'
        BY <1>1, <2>1, <2>3, <3>1, ClaudeAssumption
           DEF ClaudeRow, ClaudePhase, ClaudeAttempt, ClaudeRejection, Childless, Writing, Resolved
      <3>3. ClaudeParser(t)' /\ ClaudeVerdict(t)'
        BY <1>1, <2>1, <2>3, <3>1, ClaudeAssumption DEF ClaudeRow, ClaudeParser, ClaudeVerdict, Resolved
      <3>4. SlotStep(t)
        BY <1>2, <2>1, <2>3, <3>1 DEF SlotStep, Holding
      <3> QED BY <3>1, <3>2, <3>3, <3>4 DEF ClaudeRow
    <2> QED BY <1>8, <2>2, <2>3 DEF InsertAttempt
  <1>9. CASE ReserveLaunch(t)
    <2>1. pc[t] = "reserve" /\ UNCHANGED <<turn, attempt, run, parser, reconcile, child, got, said>>
      BY <1>9 DEF ReserveLaunch
    <2>2. CASE Reject(t) /\ UNCHANGED launch
      BY <1>1, <2>1, <2>2, ClaudeReject DEF Childless
    <2>3. CASE /\ launch' = [launch EXCEPT ![t] = "reserved"]
               /\ Goto(t, "start") /\ UNCHANGED slot
      <3>1. launch'[t] = "reserved" /\ pc'[t] = "start" /\ OnlyTurn(t)
        BY <2>1, <2>3 DEF TypeOK, OnlyTurn, Goto
      <3>2. ClaudePhase(t)' /\ ClaudeAttempt(t)' /\ ClaudeRejection(t)'
        BY <1>1, <2>1, <3>1
           DEF ClaudeRow, ClaudePhase, ClaudeAttempt, ClaudeRejection, Childless, Writing, Resolved
      <3>3. ClaudeParser(t)' /\ ClaudeVerdict(t)'
        BY <1>1, <2>1 DEF ClaudeRow, ClaudeParser, ClaudeVerdict
      <3>4. SlotStep(t)
        BY <1>2, <2>1, <2>3, <3>1 DEF SlotStep, Holding
      <3> QED BY <3>1, <3>2, <3>3, <3>4 DEF ClaudeRow
    <2> QED BY <1>9, <2>2, <2>3 DEF ReserveLaunch
  <1> QED BY <1>3, <1>4, <1>5, <1>6, <1>7, <1>8, <1>9

\* Dispatch, from the child on.
LEMMA ClaudeLaunch ==
  ASSUME TypeOK, \A t \in Turns : ClaudeRow(t), ClaudeSlot, NEW t \in Turns,
         \/ StartChild(t) \/ RecordStartFailed(t) \/ RecordStarted(t) \/ WritePrompt(t) \/ CloseStdin(t)
         \/ TerminateChild(t)
  PROVE  OnlyTurn(t) /\ SlotStep(t) /\ ClaudeRow(t)'
  <1> USE DEF Dispatching, rowVars, runVars, childVars
  <1>1. ClaudeRow(t)
    OBVIOUS
  <1>2. /\ pc[t] \in Holding => slot = t
        /\ pc[t] \in {"source", "insert", "reserve", "start"} =>
             \A u \in Turns \ {t} : attempt[u] # "uncertain"
    BY DEF ClaudeSlot
  <1>3. CASE StartChild(t)
    <2>1. /\ pc[t] = "start" /\ UNCHANGED <<turn, attempt, launch, slot, run, parser, reconcile, got, said>>
      BY <1>3 DEF StartChild
    <2>2. CASE Goto(t, "start_failed") /\ UNCHANGED child
      <3>1. attempt[t] = "uncertain"
        BY <1>1, <2>1 DEF ClaudeRow, ClaudeAttempt
      <3>2. OnlyTurn(t) /\ ClaudeRow(t)' /\ pc'[t] = "start_failed"
        BY <1>1, <2>1, <2>2, <3>1, ClaudeGoto DEF Childless, Writing
      <3>3. SlotStep(t)
        BY <1>2, <2>1, <2>2, <3>2 DEF SlotStep, Holding
      <3> QED BY <3>2, <3>3
    <2>3. CASE child' = [child EXCEPT ![t] = "up"] /\ Goto(t, "started")
      <3>1. child'[t] = "up" /\ pc'[t] = "started" /\ OnlyTurn(t)
        BY <2>1, <2>3 DEF TypeOK, OnlyTurn, Goto
      <3>2. ClaudePhase(t)' /\ ClaudeAttempt(t)' /\ ClaudeRejection(t)'
        BY <1>1, <2>1, <3>1
           DEF ClaudeRow, ClaudePhase, ClaudeAttempt, ClaudeRejection, Childless, Writing, Resolved
      <3>3. ClaudeParser(t)' /\ ClaudeVerdict(t)'
        BY <1>1, <2>1 DEF ClaudeRow, ClaudeParser, ClaudeVerdict
      <3>4. SlotStep(t)
        BY <1>2, <2>1, <3>1 DEF SlotStep, Holding
      <3> QED BY <3>1, <3>2, <3>3, <3>4 DEF ClaudeRow
    <2> QED BY <1>3, <2>2, <2>3 DEF StartChild
  <1>4. CASE RecordStartFailed(t)
    <2>1. pc[t] = "start_failed" /\ UNCHANGED <<turn, run, parser, reconcile, child, got, said>>
      BY <1>4 DEF RecordStartFailed
    <2>2. attempt[t] = "uncertain"
      BY <1>1, <2>1 DEF ClaudeRow, ClaudeAttempt
    <2>3. CASE Goto(t, "gone") /\ UNCHANGED <<launch, attempt, slot>>
      <3>1. OnlyTurn(t) /\ ClaudeRow(t)' /\ pc'[t] = "gone"
        BY <1>1, <2>1, <2>3, ClaudeGoto DEF Childless, Writing
      <3>2. SlotStep(t)
        BY <1>2, <2>1, <2>3, <3>1 DEF SlotStep, Holding, Writing
      <3> QED BY <3>1, <3>2
    <2>4. CASE /\ launch' = [launch EXCEPT ![t] = "start_failed"]
               /\ attempt' = [attempt EXCEPT ![t] = IF @ = "uncertain" THEN "missing" ELSE @]
               /\ Reject(t)
      <3>1. launch'[t] = "start_failed" /\ attempt'[t] = "missing" /\ pc'[t] = "reject" /\ OnlyTurn(t)
        BY <2>1, <2>2, <2>4 DEF TypeOK, OnlyTurn, Goto, Reject
      <3>2. ClaudePhase(t)' /\ ClaudeAttempt(t)' /\ ClaudeRejection(t)'
        BY <1>1, <2>1, <2>2, <3>1
           DEF ClaudeRow, ClaudePhase, ClaudeAttempt, ClaudeRejection, Childless, Writing, Resolved
      <3>3. ClaudeParser(t)' /\ ClaudeVerdict(t)'
        BY <1>1, <2>1, <2>2, <3>1 DEF ClaudeRow, ClaudeParser, ClaudeVerdict, Resolved
      <3>4. SlotStep(t)
        BY <2>1, <2>4, <3>1, ClaudeAssumption DEF SlotStep, Holding, Writing, Reject, ReleaseSlot
      <3> QED BY <3>1, <3>2, <3>3, <3>4 DEF ClaudeRow
    <2> QED BY <1>4, <2>3, <2>4 DEF RecordStartFailed
  <1>5. CASE RecordStarted(t)
    <2>1. pc[t] = "started" /\ UNCHANGED <<turn, attempt, slot, run, parser, reconcile, child, got, said>>
      BY <1>5 DEF RecordStarted
    <2>2. CASE Goto(t, "terminate") /\ UNCHANGED launch
      <3>1. OnlyTurn(t) /\ ClaudeRow(t)' /\ pc'[t] = "terminate"
        BY <1>1, <2>1, <2>2, ClaudeGoto DEF Childless, Writing
      <3>2. SlotStep(t)
        BY <1>2, <2>1, <2>2, <3>1 DEF SlotStep, Holding, Writing
      <3> QED BY <3>1, <3>2
    <2>3. CASE launch' = [launch EXCEPT ![t] = "started"] /\ Goto(t, "write")
      <3>1. launch'[t] = "started" /\ pc'[t] = "write" /\ OnlyTurn(t)
        BY <2>1, <2>3 DEF TypeOK, OnlyTurn, Goto
      <3>2. ClaudePhase(t)' /\ ClaudeAttempt(t)' /\ ClaudeRejection(t)'
        BY <1>1, <2>1, <3>1
           DEF ClaudeRow, ClaudePhase, ClaudeAttempt, ClaudeRejection, Childless, Writing, Resolved
      <3>3. ClaudeParser(t)' /\ ClaudeVerdict(t)'
        BY <1>1, <2>1 DEF ClaudeRow, ClaudeParser, ClaudeVerdict
      <3>4. SlotStep(t)
        BY <1>2, <2>1, <3>1 DEF SlotStep, Holding, Writing
      <3> QED BY <3>1, <3>2, <3>3, <3>4 DEF ClaudeRow
    <2> QED BY <1>5, <2>2, <2>3 DEF RecordStarted
  <1>6. CASE WritePrompt(t)
    <2>1. /\ pc[t] = "write"
          /\ UNCHANGED <<turn, attempt, launch, slot, run, parser, reconcile, child, said>>
      BY <1>6 DEF WritePrompt
    <2>2. /\ got' = [got EXCEPT ![t] = TRUE] \/ UNCHANGED got
          /\ Goto(t, "terminate") \/ (Goto(t, "close") /\ got' = [got EXCEPT ![t] = TRUE])
      BY <1>6, Zenon DEF WritePrompt, Goto
    <2>3. PICK l \in {"terminate", "close"} :
            /\ pc'[t] = l /\ OnlyTurn(t) /\ (got'[t] = TRUE \/ got'[t] = got[t])
            /\ l = "close" => got'[t] = TRUE
      BY <2>1, <2>2 DEF TypeOK, OnlyTurn, Goto
    <2>4. ClaudePhase(t)'
      BY <1>1, <2>1, <2>3 DEF ClaudeRow, ClaudePhase, Childless, Writing
    <2>5. ClaudeAttempt(t)' /\ ClaudeRejection(t)'
      BY <1>1, <2>1, <2>3 DEF ClaudeRow, ClaudeAttempt, ClaudeRejection, Childless, Writing
    <2>6. ClaudeParser(t)'
      BY <1>1, <2>1 DEF ClaudeRow, ClaudeParser
    <2>7. ClaudeVerdict(t)'
      BY <1>1, <2>1, <2>3 DEF ClaudeRow, ClaudeVerdict
    <2>8. SlotStep(t)
      BY <1>2, <2>1, <2>3 DEF SlotStep, Holding, Writing
    <2> QED BY <2>3, <2>4, <2>5, <2>6, <2>7, <2>8 DEF ClaudeRow
  <1>7. CASE CloseStdin(t)
    <2>1. /\ pc[t] = "close"
          /\ UNCHANGED <<turn, attempt, launch, slot, reconcile, child, got, said>>
      BY <1>7 DEF CloseStdin
    <2>2. CASE Goto(t, "terminate") /\ UNCHANGED runVars
      <3>1. OnlyTurn(t) /\ ClaudeRow(t)' /\ pc'[t] = "terminate"
        BY <1>1, <2>1, <2>2, ClaudeGoto DEF Childless, Writing
      <3>2. SlotStep(t)
        BY <1>2, <2>1, <2>2, <3>1 DEF SlotStep, Holding, Writing
      <3> QED BY <3>1, <3>2
    <2>3. CASE /\ run' = [run EXCEPT ![t] = "parse"] /\ parser' = [parser EXCEPT ![t] = Fresh]
               /\ Goto(t, "collect")
      <3>1. run'[t] = "parse" /\ parser'[t] = Fresh /\ pc'[t] = "collect" /\ OnlyTurn(t)
        BY <2>1, <2>3 DEF TypeOK, OnlyTurn, Goto
      <3>2. got[t] /\ run[t] = "none" /\ said[t] = {}
        BY <1>1, <2>1 DEF ClaudeRow, ClaudePhase, Writing
      <3>3. ClaudePhase(t)' /\ ClaudeAttempt(t)' /\ ClaudeRejection(t)'
        BY <1>1, <2>1, <3>1, <3>2
           DEF ClaudeRow, ClaudePhase, ClaudeAttempt, ClaudeRejection, Childless, Writing, Resolved
      <3>4. ClaudeParser(t)'
        BY <2>1, <3>1, <3>2, ClaudeAssumption DEF ClaudeParser, Knows, Fresh
      <3>5. ClaudeVerdict(t)'
        BY <1>1, <2>1 DEF ClaudeRow, ClaudeVerdict
      <3>6. SlotStep(t)
        BY <2>1, <3>1 DEF SlotStep, Holding, Writing
      <3> QED BY <3>1, <3>3, <3>4, <3>5, <3>6 DEF ClaudeRow
    <2> QED BY <1>7, <2>2, <2>3 DEF CloseStdin
  <1>8. CASE TerminateChild(t)
    <2>1. /\ pc[t] = "terminate" /\ ReleaseSlot(t) /\ Goto(t, "gone")
          /\ UNCHANGED <<turn, attempt, launch, run, parser, reconcile, child, got, said>>
      BY <1>8 DEF TerminateChild
    <2>2. OnlyTurn(t) /\ ClaudeRow(t)' /\ pc'[t] = "gone"
      BY <1>1, <2>1, ClaudeGoto DEF Childless, Writing
    <2>3. SlotStep(t)
      BY <2>1, <2>2, ClaudeAssumption DEF SlotStep, Holding, Writing, ReleaseSlot
    <2> QED BY <2>2, <2>3
  <1> QED BY <1>3, <1>4, <1>5, <1>6, <1>7, <1>8

\* What a turn is recorded as.
LEMMA RecordIs ==
  ASSUME TypeOK, NEW t \in Turns, NEW v, Record(t, v)
  PROVE  /\ turn'[t] = v \/ turn'[t] = turn[t]
         /\ \A u \in Turns \ {t} : turn'[u] = turn[u]
  BY DEF TypeOK, Record

\* The supervisor's records and the recovery command.
LEMMA ClaudeRecords ==
  ASSUME TypeOK, \A t \in Turns : ClaudeRow(t), ClaudeSlot, NEW t \in Turns,
         \/ RecordRejected(t) \/ Collect(t) \/ ReconcileProbe(t) \/ ReconcileStates(t) \/ ReconcileCommit(t)
  PROVE  OnlyTurn(t) /\ SlotStep(t) /\ ClaudeRow(t)'
  <1> USE DEF Observing, runVars, childVars
  <1>1. ClaudeRow(t)
    OBVIOUS
  <1>2. /\ pc[t] \in Holding => slot = t
        /\ pc[t] \in {"source", "insert", "reserve", "start"} =>
             \A u \in Turns \ {t} : attempt[u] # "uncertain"
    BY DEF ClaudeSlot
  <1>3. CASE RecordRejected(t) \/ Collect(t)
    <2>1. /\ pc[t] \in {"reject", "collect"} /\ pc' = [pc EXCEPT ![t] = "gone"]
          /\ UNCHANGED <<attempt, launch, slot, run, parser, reconcile, child, got, said>>
      BY <1>3 DEF RecordRejected, Collect, Goto
    <2>2. /\ turn'[t] = turn[t] \/ (pc[t] = "reject" /\ turn'[t] = "rejected")
             \/ (attempt[t] \in Resolved /\ turn'[t] = attempt[t])
          /\ \A u \in Turns \ {t} : turn'[u] = turn[u]
      BY <1>3, RecordIs DEF RecordRejected, Collect
    <2>3. pc'[t] = "gone" /\ OnlyTurn(t)
      BY <2>1, <2>2 DEF TypeOK, OnlyTurn
    <2>4. ClaudePhase(t)' /\ ClaudeAttempt(t)'
      BY <1>1, <2>1, <2>2, <2>3 DEF ClaudeRow, ClaudePhase, ClaudeAttempt, Childless, Writing, Resolved
    <2>5. ClaudeRejection(t)'
      BY <1>1, <2>1, <2>2, <2>3 DEF ClaudeRow, ClaudePhase, ClaudeRejection, Resolved
    <2>6. ClaudeParser(t)' /\ ClaudeVerdict(t)'
      BY <1>1, <2>1, <2>2 DEF ClaudeRow, ClaudeParser, ClaudeVerdict, Resolved
    <2>7. SlotStep(t)
      BY <2>1, <2>3 DEF SlotStep, Holding, Writing
    <2> QED BY <2>3, <2>4, <2>5, <2>6, <2>7 DEF ClaudeRow
  <1>4. CASE ReconcileProbe(t) \/ ReconcileStates(t)
    <2>1. UNCHANGED <<turn, pc, attempt, launch, slot, run, parser, child, got, said>>
      BY <1>4 DEF ReconcileProbe, ReconcileStates
    <2>2. /\ OnlyTurn(t)
          /\ \/ attempt[t] \in Resolved /\ reconcile'[t] = attempt[t]
             \/ reconcile'[t] = "missing" /\ launch[t] = "start_failed"
             \/ reconcile'[t] \in {"states", None}
      BY <1>4, <2>1 DEF ReconcileProbe, ReconcileStates, MissingLaunch, TypeOK, OnlyTurn
    <2>3. ClaudePhase(t)' /\ ClaudeAttempt(t)' /\ ClaudeRejection(t)'
      BY <1>1, <2>1, <2>2, ClaudeAssumption
         DEF ClaudeRow, ClaudePhase, ClaudeAttempt, ClaudeRejection, Resolved
    <2>4. ClaudeParser(t)' /\ ClaudeVerdict(t)'
      BY <1>1, <2>1 DEF ClaudeRow, ClaudeParser, ClaudeVerdict
    <2>5. SlotStep(t)
      BY <1>2, <2>1 DEF SlotStep
    <2> QED BY <2>2, <2>3, <2>4, <2>5 DEF ClaudeRow
  <1>5. CASE ReconcileCommit(t)
    <2>1. /\ UNCHANGED <<pc, attempt, launch, slot, run, parser, child, got, said>>
          /\ reconcile' = [reconcile EXCEPT ![t] = None]
          /\ reconcile[t] \in {"missing"} \cup Resolved
      BY <1>5 DEF ReconcileCommit
    <2>2. /\ turn'[t] = reconcile[t] \/ turn'[t] = turn[t]
          /\ \A u \in Turns \ {t} : turn'[u] = turn[u]
      BY <1>5, RecordIs DEF ReconcileCommit
    <2>3. reconcile'[t] = None /\ OnlyTurn(t)
      BY <2>1, <2>2 DEF TypeOK, OnlyTurn
    <2>4. ClaudePhase(t)' /\ ClaudeAttempt(t)' /\ ClaudeRejection(t)'
      BY <1>1, <2>1, <2>2, <2>3, ClaudeAssumption
         DEF ClaudeRow, ClaudePhase, ClaudeAttempt, ClaudeRejection, Resolved
    <2>5. ClaudeParser(t)' /\ ClaudeVerdict(t)'
      BY <1>1, <2>1, <2>2 DEF ClaudeRow, ClaudeAttempt, ClaudeParser, ClaudeVerdict, Resolved
    <2>6. SlotStep(t)
      BY <1>2, <2>1 DEF SlotStep
    <2> QED BY <2>3, <2>4, <2>5, <2>6 DEF ClaudeRow
  <1> QED BY <1>3, <1>4, <1>5

ParserRow == [init : BOOLEAN, evidence : BOOLEAN, verdict : {None} \cup Resolved, poisoned : BOOLEAN]

\* What a line adds to what the parser knows.
LEMMA ParseLineKnows ==
  ASSUME NEW p \in ParserRow, NEW l \in Lines, NEW s \in SUBSET Lines, ~p.poisoned
  PROVE  ParseLine(p, l) \in ParserRow /\ (Knows(p, s) => Knows(ParseLine(p, l), s \cup {l}))
  <1>1. CASE l = "init"
    <2> DEFINE q == [p EXCEPT !.init = TRUE, !.poisoned = p.evidence]
    <2>1. ParseLine(p, l) = q
      BY <1>1 DEF ParseLine
    <2>2. q \in ParserRow /\ q.verdict = p.verdict
      BY DEF ParserRow
    <2> HIDE DEF q
    <2> QED BY <1>1, <2>1, <2>2 DEF Knows
  <1>2. CASE l = "text"
    <2> DEFINE q == [p EXCEPT !.evidence = TRUE, !.poisoned = ~p.init]
    <2>1. ParseLine(p, l) = q
      BY <1>2 DEF ParseLine
    <2>2. q \in ParserRow /\ q.verdict = p.verdict /\ q.init = p.init
      BY DEF ParserRow
    <2> HIDE DEF q
    <2> QED BY <1>2, <2>1, <2>2 DEF Knows
  <1>3. CASE l \in {"result", "error"}
    <2> DEFINE v == IF l = "result" THEN "completed" ELSE "failed"
               q == [p EXCEPT !.evidence = TRUE, !.poisoned = ~p.init \/ p.verdict # None, !.verdict = v]
    <2>1. ParseLine(p, l) = q
      BY <1>3 DEF ParseLine
    <2>2. v \in Resolved
      BY DEF Resolved
    <2>3. q \in ParserRow /\ q.verdict = v /\ q.init = p.init /\ q.poisoned = (~p.init \/ p.verdict # None)
      <3> HIDE DEF v
      <3> QED BY <2>2 DEF ParserRow
    <2>4. v # None
      BY ClaudeAssumption
    <2>5. Knows(p, s) => Knows(q, s \cup {l})
      <3> HIDE DEF q
      <3>1. CASE p.verdict # None
        BY <2>3, <3>1 DEF Knows
      <3>2. CASE p.verdict = None
        BY <1>3, <2>3, <2>4, <3>2 DEF Knows
      <3> QED BY <3>1, <3>2
    <2> QED BY <2>1, <2>3, <2>5
  <1>4. CASE l = "drift"
    <2> DEFINE q == [p EXCEPT !.poisoned = TRUE]
    <2>1. ParseLine(p, l) = q
      BY <1>4 DEF ParseLine
    <2>2. q \in ParserRow /\ q.poisoned = TRUE
      BY DEF ParserRow
    <2> HIDE DEF q
    <2> QED BY <2>1, <2>2 DEF Knows
  <1> QED BY <1>1, <1>2, <1>3, <1>4 DEF Lines

\* The child and runTurn.
LEMMA ClaudeRuns ==
  ASSUME TypeOK, \A t \in Turns : ClaudeRow(t), ClaudeSlot, NEW t \in Turns, RunStep(t)
  PROVE  OnlyTurn(t) /\ SlotStep(t) /\ ClaudeRow(t)'
  <1> USE DEF Running, bindingVars
  <1>1. ClaudeRow(t)
    OBVIOUS
  <1>2. /\ pc[t] \in Holding => slot = t
        /\ pc[t] \in {"source", "insert", "reserve", "start"} =>
             \A u \in Turns \ {t} : attempt[u] # "uncertain"
    BY DEF ClaudeSlot
  <1>3. UNCHANGED <<turn, launch, pc, reconcile, got>>
    BY DEF RunStep, ReadLine, Reap, RemoveTurn, SetAttemptTerminal, MarkMaterialized, EndRun, ChildExit
  <1>4. ASSUME NEW l \in Lines, ReadLine(t, l) PROVE OnlyTurn(t) /\ SlotStep(t) /\ ClaudeRow(t)'
    <2>1. run[t] = "parse" /\ ~parser[t].poisoned /\ UNCHANGED <<attempt, slot, run, child>>
      BY <1>4 DEF ReadLine
    <2>2. /\ said'[t] = said[t] \cup {l} /\ parser'[t] = ParseLine(parser[t], l)
          /\ \A u \in Turns \ {t} : said'[u] = said[u] /\ parser'[u] = parser[u]
      BY <1>4 DEF ReadLine, TypeOK
    <2>3. parser[t] \in ParserRow /\ said[t] \in SUBSET Lines
      BY DEF TypeOK, ParserRow
    <2>4. ClaudeParser(t)'
      BY <1>1, <2>1, <2>2, <2>3, ParseLineKnows DEF ClaudeRow, ClaudeParser
    <2>5. attempt[t] \notin Resolved
      BY <1>1, <2>1 DEF ClaudeRow, ClaudeAttempt
    <2>6. ClaudePhase(t)' /\ ClaudeAttempt(t)' /\ ClaudeRejection(t)' /\ ClaudeVerdict(t)'
      BY <1>1, <1>3, <2>1, <2>5
         DEF ClaudeRow, ClaudePhase, ClaudeAttempt, ClaudeRejection, ClaudeVerdict, Resolved
    <2>7. OnlyTurn(t) /\ SlotStep(t)
      BY <1>2, <1>3, <2>1, <2>2 DEF OnlyTurn, SlotStep
    <2> QED BY <2>4, <2>6, <2>7 DEF ClaudeRow
  <1>5. CASE Reap(t) \/ RemoveTurn(t) \/ MarkMaterialized(t) \/ EndRun(t)
    <2>1. /\ UNCHANGED <<attempt, parser, child, said>>
          /\ \E r : /\ run' = [run EXCEPT ![t] = r]
                    /\ \/ run[t] = "parse" /\ r = "reaped" /\ child[t] = "gone" /\ UNCHANGED slot
                       \/ run[t] = "reaped" /\ r = "verdict" /\ UNCHANGED slot
                       \/ run[t] = "materialize" /\ r = "release" /\ UNCHANGED slot
                       \/ run[t] = "release" /\ r = "over" /\ ReleaseSlot(t)
      BY <1>5, Zenon DEF Reap, RemoveTurn, MarkMaterialized, EndRun
    <2>2. /\ OnlyTurn(t)
          /\ \/ run[t] = "parse" /\ run'[t] = "reaped" /\ child[t] = "gone" /\ UNCHANGED slot
             \/ run[t] = "reaped" /\ run'[t] = "verdict" /\ UNCHANGED slot
             \/ run[t] = "materialize" /\ run'[t] = "release" /\ UNCHANGED slot
             \/ run[t] = "release" /\ run'[t] = "over" /\ ReleaseSlot(t)
      BY <1>3, <2>1 DEF OnlyTurn, TypeOK
    <2>3. ClaudePhase(t)' /\ ClaudeAttempt(t)' /\ ClaudeRejection(t)'
      BY <1>1, <1>3, <2>1, <2>2 DEF ClaudeRow, ClaudePhase, ClaudeAttempt, ClaudeRejection
    <2>4. ClaudeParser(t)' /\ ClaudeVerdict(t)'
      BY <1>1, <1>3, <2>1, <2>2 DEF ClaudeRow, ClaudeParser, ClaudeVerdict
    <2>5. SlotStep(t)
      <3>1. run[t] # "none" => pc[t] \notin Holding
        BY <1>1 DEF ClaudeRow, ClaudePhase, Holding, Childless, Writing
      <3>2. run[t] # "none" /\ (UNCHANGED slot \/ ReleaseSlot(t))
        BY <2>2
      <3> QED BY <1>3, <2>1, <3>1, <3>2, ClaudeAssumption DEF SlotStep, ReleaseSlot, Holding
    <2> QED BY <2>2, <2>3, <2>4, <2>5 DEF ClaudeRow
  <1>6. CASE SetAttemptTerminal(t)
    <2>1. run[t] = "verdict" /\ UNCHANGED <<slot, parser, child, said>>
      BY <1>6 DEF SetAttemptTerminal
    <2>2. CASE run' = [run EXCEPT ![t] = "release"] /\ UNCHANGED attempt
      <3>1. run'[t] = "release" /\ OnlyTurn(t)
        BY <1>3, <2>1, <2>2 DEF OnlyTurn, TypeOK
      <3>2. ClaudePhase(t)' /\ ClaudeAttempt(t)' /\ ClaudeRejection(t)'
        BY <1>1, <1>3, <2>1, <2>2, <3>1 DEF ClaudeRow, ClaudePhase, ClaudeAttempt, ClaudeRejection
      <3>3. ClaudeParser(t)' /\ ClaudeVerdict(t)'
        BY <1>1, <1>3, <2>1, <2>2, <3>1 DEF ClaudeRow, ClaudeParser, ClaudeVerdict
      <3>4. SlotStep(t)
        BY <1>2, <1>3, <2>1, <2>2 DEF SlotStep
      <3> QED BY <3>1, <3>2, <3>3, <3>4 DEF ClaudeRow
    <2>3. CASE /\ ~parser[t].poisoned /\ parser[t].init /\ parser[t].verdict # None
               /\ attempt[t] \notin Resolved
               /\ attempt' = [attempt EXCEPT ![t] = parser[t].verdict]
               /\ run' = [run EXCEPT ![t] = IF first[t] THEN "materialize" ELSE "release"]
      <3>1. /\ attempt'[t] = parser[t].verdict /\ parser[t].verdict \in Resolved /\ OnlyTurn(t)
            /\ run'[t] \in {"materialize", "release"}
        <4>1. parser[t].verdict \in {None} \cup Resolved
          BY DEF TypeOK
        <4> QED BY <1>3, <2>1, <2>3, <4>1 DEF OnlyTurn, TypeOK
      <3>2. got[t] /\ child[t] = "gone" /\ Knows(parser[t], said[t]) /\ turn[t] \notin Resolved
            /\ turn[t] # "queued" /\ pc[t] \notin Childless \cup Writing
        BY <1>1, <2>1, <2>3 DEF ClaudeRow, ClaudePhase, ClaudeParser, ClaudeVerdict, Childless
      <3>3. ClaudePhase(t)'
        BY <1>1, <1>3, <2>1, <3>1, <3>2 DEF ClaudeRow, ClaudePhase
      <3>4. ClaudeAttempt(t)'
        BY <1>1, <1>3, <2>1, <2>3, <3>1, <3>2 DEF ClaudeRow, ClaudeAttempt, Childless, Resolved
      <3>5. ClaudeRejection(t)'
        BY <1>1, <1>3, <3>1, <3>2 DEF ClaudeRow, ClaudeRejection, Resolved
      <3>6. ClaudeParser(t)'
        BY <3>1 DEF ClaudeParser
      <3>7. ClaudeVerdict(t)'
        BY <1>3, <2>1, <2>3, <3>1, <3>2 DEF ClaudeVerdict, Knows, Resolved
      <3>8. SlotStep(t)
        BY <1>2, <1>3, <2>1, <3>1 DEF SlotStep, Resolved
      <3> QED BY <3>1, <3>3, <3>4, <3>5, <3>6, <3>7, <3>8 DEF ClaudeRow
    <2> QED BY <1>6, <2>2, <2>3 DEF SetAttemptTerminal
  <1>7. CASE ChildExit(t)
    <2>1. UNCHANGED <<attempt, slot, run, parser, said>> /\ child[t] = "up"
      BY <1>7 DEF ChildExit
    <2>2. child'[t] = "gone" /\ OnlyTurn(t)
      BY <1>3, <1>7, <2>1 DEF ChildExit, OnlyTurn, TypeOK
    <2>3. ClaudePhase(t)' /\ ClaudeAttempt(t)' /\ ClaudeRejection(t)'
      BY <1>1, <1>3, <2>1, <2>2 DEF ClaudeRow, ClaudePhase, ClaudeAttempt, ClaudeRejection
    <2>4. ClaudeParser(t)' /\ ClaudeVerdict(t)'
      BY <1>1, <1>3, <2>1 DEF ClaudeRow, ClaudeParser, ClaudeVerdict
    <2>5. SlotStep(t)
      BY <1>2, <1>3, <2>1, <2>2 DEF SlotStep
    <2> QED BY <2>2, <2>3, <2>4, <2>5 DEF ClaudeRow
  <1> QED BY <1>4, <1>5, <1>6, <1>7 DEF RunStep

\* The requests that create the session.
ClaudeCallers(c) == CreateSession(c) \/ CreateBinding(c) \/ RetireCreation(c) \/ BindClaudeSession(c)
CreateRow ==
  [pc : {"idle", "create", "wait", "failing", "created", "done"}, id : NativeIDs \cup {None}]

\* They leave the turns alone.
LEMMA CallersOnly ==
  ASSUME NEW c \in Callers, ClaudeCallers(c)
  PROVE  UNCHANGED <<turn, attempt, launch, sent, slot, pc, first, run, parser, reconcile, child, got,
                     said, instance>>
  BY DEF ClaudeCallers, CreateSession, CreateBinding, RetireCreation, BindClaudeSession, Creating,
         rowVars, runVars, childVars

\* They agree on one identity.
LEMMA ClaudeCallersAgree ==
  ASSUME TypeOK, ClaudeCreations, NEW c \in Callers, ClaudeCallers(c)
  PROVE  ClaudeCreations' /\ caller' \in [Callers -> CreateRow]
  <1>1. caller \in [Callers -> CreateRow] /\ creation \in Callers \cup {None} /\ None \notin Callers
    BY ClaudeAssumption DEF TypeOK, CreateRow
  <1>2. \A d \in Callers : caller[d] \in CreateRow
    BY <1>1
  <1>3. CASE CreateSession(c)
    <2>1. CASE creation = None /\ creation' = c /\ caller' = [caller EXCEPT ![c].pc = "create"]
      <3>1. LET r == [caller[c] EXCEPT !.pc = "create"]
            IN  r \in CreateRow /\ r.pc = "create" /\ r.id = caller[c].id
        BY <1>2 DEF CreateRow
      <3>2. /\ caller' \in [Callers -> CreateRow] /\ caller'[c].pc = "create" /\ caller'[c].id = caller[c].id
            /\ \A d \in Callers \ {c} : caller'[d] = caller[d]
        <4>1. caller' = [caller EXCEPT ![c] = [caller[c] EXCEPT !.pc = "create"]]
          BY <2>1
        <4> QED BY <1>1, <3>1, <4>1
      <3>3. \A d \in Callers : caller[d].id = None /\ caller[d].pc \notin {"create", "failing"}
        BY <1>1, <2>1 DEF ClaudeCreations
      <3> QED BY <2>1, <3>2, <3>3 DEF ClaudeCreations
    <2>2. CASE caller' = [caller EXCEPT ![c].pc = "wait"] /\ UNCHANGED creation
      <3>1. LET r == [caller[c] EXCEPT !.pc = "wait"]
            IN  r \in CreateRow /\ r.pc = "wait" /\ r.id = caller[c].id
        BY <1>2 DEF CreateRow
      <3>2. /\ caller' \in [Callers -> CreateRow] /\ caller'[c].pc = "wait" /\ caller'[c].id = caller[c].id
            /\ \A d \in Callers \ {c} : caller'[d] = caller[d]
        <4>1. caller' = [caller EXCEPT ![c] = [caller[c] EXCEPT !.pc = "wait"]]
          BY <2>2
        <4> QED BY <1>1, <3>1, <4>1
      <3> QED BY <1>1, <2>2, <3>2 DEF ClaudeCreations
    <2>3. CASE /\ creation # None /\ caller[creation].id # None /\ UNCHANGED creation
               /\ caller' = [caller EXCEPT ![c] = [pc |-> "created", id |-> caller[creation].id]]
      <3>1. caller[creation].id \in NativeIDs
        BY <1>1, <1>2, <2>3 DEF CreateRow
      <3>2. /\ caller' \in [Callers -> CreateRow]
            /\ caller'[c].pc = "created" /\ caller'[c].id = caller[creation].id
            /\ \A d \in Callers \ {c} : caller'[d] = caller[d]
        BY <1>1, <2>3, <3>1 DEF CreateRow
      <3> QED BY <1>1, <2>3, <3>2 DEF ClaudeCreations
    <2> QED BY <1>3, <2>1, <2>2, <2>3 DEF CreateSession
  <1>4. CASE CreateBinding(c)
    <2>1. /\ creation = c /\ UNCHANGED creation /\ c # None
          /\ \A d \in Callers : caller[d].id = None
          /\ \A d \in Callers \ {c} : caller[d].pc \notin {"create", "failing"}
      BY <1>1, <1>4 DEF CreateBinding, ClaudeCreations
    <2>2. PICK id \in Candidates \cup {None} : Publish(c, id)
      BY <1>4 DEF CreateBinding
    <2>3. id \in NativeIDs \cup {None}
      BY <2>2 DEF Candidates, TypeOK
    <2>4. PICK refused \in SUBSET {d \in Callers : caller[d].pc = "wait"} :
            caller' = [d \in Callers |->
              IF d = c THEN [pc |-> IF id = None THEN "failing" ELSE "created", id |-> id]
              ELSE IF caller[d].pc # "wait" THEN caller[d]
              ELSE IF id = None \/ d \in refused THEN [pc |-> "done", id |-> None]
              ELSE [pc |-> "created", id |-> id]]
      BY <2>2 DEF Publish
    <2>5. ASSUME NEW d \in Callers
          PROVE  /\ caller'[d] \in CreateRow
                 /\ caller'[d].id \in {id, None}
                 /\ caller'[d].pc \in {"create", "failing"} => d = c /\ id = None
      <3>1. CASE d = c
        BY <2>3, <2>4, <3>1 DEF CreateRow
      <3>2. CASE d # c /\ caller[d].pc # "wait"
        <4>1. caller'[d] = caller[d]
          BY <2>4, <3>2
        <4> QED BY <1>2, <2>1, <3>2, <4>1
      <3>3. CASE d # c /\ caller[d].pc = "wait"
        <4>1. caller'[d] = [pc |-> "done", id |-> None] \/ caller'[d] = [pc |-> "created", id |-> id]
          BY <2>4, <3>3
        <4> QED BY <2>3, <3>3, <4>1 DEF CreateRow
      <3> QED BY <3>1, <3>2, <3>3
    <2>6. caller'[c].id = id
      BY <2>4
    <2>7. caller' \in [Callers -> CreateRow]
      <3>1. DOMAIN caller' = Callers /\ caller' = [d \in Callers |-> caller'[d]]
        BY <2>4
      <3> QED BY <2>5, <3>1
    <2> QED BY <2>1, <2>5, <2>6, <2>7 DEF ClaudeCreations
  <1>5. CASE RetireCreation(c)
    <2>1. creation = c /\ \A d \in Callers : caller[d].id = None
      BY <1>5 DEF RetireCreation, ClaudeCreations
    <2>2. \A d \in Callers \ {c} : caller[d].pc \notin {"create", "failing"}
      BY <2>1 DEF ClaudeCreations
    <2>3. /\ caller' \in [Callers -> CreateRow]
          /\ \A d \in Callers : caller'[d].id = None /\ caller'[d].pc \notin {"create", "failing"}
      <3>1. caller' = [d \in Callers |->
              IF d = c \/ caller[d].pc = "wait" THEN [pc |-> "done", id |-> None] ELSE caller[d]]
        BY <1>5 DEF RetireCreation
      <3>2. [pc |-> "done", id |-> None] \in CreateRow
        BY DEF CreateRow
      <3> QED BY <1>2, <2>1, <2>2, <3>1, <3>2
    <2> QED BY <2>3 DEF ClaudeCreations
  <1>6. CASE BindClaudeSession(c)
    <2>1. LET r == [caller[c] EXCEPT !.pc = "done"]
          IN  r \in CreateRow /\ r.pc = "done" /\ r.id = caller[c].id
      BY <1>2 DEF CreateRow
    <2>2. /\ caller' \in [Callers -> CreateRow] /\ caller'[c].pc = "done" /\ caller'[c].id = caller[c].id
          /\ \A d \in Callers \ {c} : caller'[d] = caller[d]
      <3>1. caller' = [caller EXCEPT ![c] = [caller[c] EXCEPT !.pc = "done"]]
        BY <1>6 DEF BindClaudeSession
      <3> QED BY <1>1, <2>1, <3>1
    <2>3. UNCHANGED creation
      BY <1>6 DEF BindClaudeSession
    <2> QED BY <1>1, <2>2, <2>3 DEF ClaudeCreations
  <1> QED BY <1>3, <1>4, <1>5, <1>6 DEF ClaudeCallers

\* An entry is replaced by another of its domain.
LEMMA EntryTyped ==
  ASSUME NEW S, NEW f \in [Turns -> S], NEW t \in Turns, NEW v \in S
  PROVE  [f EXCEPT ![t] = v] \in [Turns -> S]
  OBVIOUS

\* What a turn is recorded as has its type.
LEMMA RecordTyped ==
  ASSUME TypeOK, NEW t \in Turns, NEW v \in {"rejected", "missing"} \cup Resolved, Record(t, v)
  PROVE  turn' \in [Turns -> {"queued", "running", "rejected", "missing"} \cup Resolved]
  <1> DEFINE S == {"queued", "running", "rejected", "missing"} \cup Resolved
             w == IF turn[t] = "running" THEN v ELSE turn[t]
  <1>1. turn \in [Turns -> S] /\ w \in S
    BY DEF TypeOK
  <1>2. turn' = [turn EXCEPT ![t] = w]
    BY DEF Record
  <1> QED BY <1>1, <1>2, EntryTyped

\* Every row, program counter and flag keeps its domain.
LEMMA ClaudeTypedNext == ASSUME TypeOK, ClaudeCreations, Next PROVE TypeOK'
  <1> USE DEF Dispatching, Goto, Reject, ReleaseSlot, Observing, Running, Creating, rowVars, bindingVars,
              createVars, runVars, childVars
  <1>1. ASSUME NEW c \in Callers, ClaudeCallers(c) PROVE TypeOK'
    <2>1. UNCHANGED <<turn, attempt, launch, sent, slot, pc, first, run, parser, reconcile, child, got,
                      said, instance>>
      BY <1>1, CallersOnly
    <2>2. caller' \in [Callers -> CreateRow]
      BY <1>1, ClaudeCallersAgree
    <2>3. /\ native' \in NativeIDs \cup {None} /\ materialized' \in BOOLEAN
          /\ creation' \in Callers \cup {None} /\ issued' \subseteq NativeIDs
      <3>1. CASE CreateSession(c)
        BY <3>1 DEF CreateSession, TypeOK
      <3>2. CASE CreateBinding(c)
        BY <3>2 DEF CreateBinding, Candidates, TypeOK
      <3>3. CASE RetireCreation(c)
        BY <3>3 DEF RetireCreation, TypeOK
      <3>4. CASE BindClaudeSession(c)
        <4>1. caller[c].id \in NativeIDs \cup {None}
          BY DEF TypeOK
        <4> QED BY <3>4, <4>1 DEF BindClaudeSession, TypeOK
      <3> QED BY <1>1, <3>1, <3>2, <3>3, <3>4 DEF ClaudeCallers
    <2> QED BY <2>1, <2>2, <2>3 DEF TypeOK, CreateRow
  <1>2. ASSUME NEW t \in Turns, DispatchStep(t) PROVE TypeOK'
    <2>1. CASE Release(t) \/ ReadBinding(t) \/ AcquireSlot(t) \/ CheckUnresolved(t) \/ ClaudeTurnLaunch(t)
      BY <2>1 DEF Release, ReadBinding, AcquireSlot, CheckUnresolved, ClaudeTurnLaunch, TypeOK
    <2>2. CASE InsertAttempt(t) \/ ReserveLaunch(t) \/ StartChild(t)
      BY <2>2 DEF InsertAttempt, ReserveLaunch, StartChild, TypeOK
    <2>3. CASE RecordStartFailed(t)
      <3>1. UNCHANGED <<turn, sent, bindingVars, createVars, first, runVars, reconcile, childVars, instance>>
        BY <2>3 DEF RecordStartFailed
      <3>2. /\ attempt' \in [Turns -> {None, "uncertain", "missing"} \cup Resolved]
            /\ launch' \in [Turns -> {None, "reserved", "started", "start_failed", "dead"}]
        <4> DEFINE S == {None, "uncertain", "missing"} \cup Resolved
                   w == IF attempt[t] = "uncertain" THEN "missing" ELSE attempt[t]
        <4>1. attempt \in [Turns -> S] /\ w \in S
          BY DEF TypeOK
        <4>2. attempt' = [attempt EXCEPT ![t] = w] \/ UNCHANGED attempt
          BY <2>3 DEF RecordStartFailed
        <4>3. attempt' \in [Turns -> S]
          BY <4>1, <4>2, EntryTyped
        <4>4. launch' \in [Turns -> {None, "reserved", "started", "start_failed", "dead"}]
          BY <2>3 DEF RecordStartFailed, TypeOK
        <4> QED BY <4>3, <4>4
      <3>3. slot' \in Turns \cup {None} /\ \E l \in {"reject", "gone"} : Goto(t, l)
        BY <2>3 DEF RecordStartFailed, TypeOK
      <3> QED BY <3>1, <3>2, <3>3 DEF TypeOK
    <2>6. CASE RecordStarted(t) \/ TerminateChild(t)
      BY <2>6 DEF RecordStarted, TerminateChild, TypeOK
    <2>4. CASE WritePrompt(t)
      <3>1. /\ UNCHANGED <<turn, attempt, launch, bindingVars, createVars, slot, first, runVars, reconcile,
                           child, said, instance>>
            /\ got' = [got EXCEPT ![t] = TRUE] \/ UNCHANGED got
            /\ sent' = [sent EXCEPT ![t] = TRUE] \/ UNCHANGED sent
            /\ pc' = [pc EXCEPT ![t] = "close"] \/ pc' = [pc EXCEPT ![t] = "terminate"]
        BY <2>4, Zenon DEF WritePrompt
      <3>2. got' \in [Turns -> BOOLEAN] /\ sent' \in [Turns -> BOOLEAN]
        BY <3>1 DEF TypeOK
      <3> QED BY <3>1, <3>2 DEF TypeOK
    <2>5. CASE CloseStdin(t)
      <3>1. Fresh \in [init : BOOLEAN, evidence : BOOLEAN, verdict : {None} \cup Resolved, poisoned : BOOLEAN]
        BY DEF Fresh
      <3>2. /\ UNCHANGED <<rowVars, bindingVars, createVars, slot, first, reconcile, childVars, instance>>
            /\ \E l \in {"collect", "terminate"} : pc' = [pc EXCEPT ![t] = l]
            /\ run' = [run EXCEPT ![t] = "parse"] \/ UNCHANGED run
            /\ parser' = [parser EXCEPT ![t] = Fresh] \/ UNCHANGED parser
        BY <2>5 DEF CloseStdin
      <3>3. parser' \in [Turns -> [init : BOOLEAN, evidence : BOOLEAN, verdict : {None} \cup Resolved,
                                   poisoned : BOOLEAN]]
        BY <3>1, <3>2, EntryTyped DEF TypeOK
      <3>4. /\ run' \in [Turns -> {"none", "parse", "reaped", "verdict", "materialize", "release", "over"}]
            /\ pc' \in [Turns -> {"none", "binding", "slot", "check", "source", "insert", "reserve", "start",
                                  "start_failed", "started", "write", "close", "terminate", "reject",
                                  "collect", "gone"}]
        <4>1. /\ \E l \in {"collect", "terminate"} : pc' = [pc EXCEPT ![t] = l]
              /\ run' = [run EXCEPT ![t] = "parse"] \/ UNCHANGED run
          BY <3>2
        <4> DEFINE P == {"none", "binding", "slot", "check", "source", "insert", "reserve", "start",
                         "start_failed", "started", "write", "close", "terminate", "reject", "collect",
                         "gone"}
        <4>2. pc \in [Turns -> P] /\ "collect" \in P /\ "terminate" \in P
          BY DEF TypeOK
        <4>3. pc' \in [Turns -> P]
          <5> HIDE DEF P
          <5> QED BY <4>1, <4>2, EntryTyped
        <4>4. run' \in [Turns -> {"none", "parse", "reaped", "verdict", "materialize", "release", "over"}]
          BY <4>1 DEF TypeOK
        <4> QED BY <4>3, <4>4
      <3> HIDE DEF Fresh
      <3> QED BY <3>2, <3>3, <3>4 DEF TypeOK
    <2> HIDE DEF Dispatching, Goto, Reject, ReleaseSlot
    <2> QED BY <1>2, <2>1, <2>2, <2>3, <2>4, <2>5, <2>6 DEF DispatchStep
  <1>3. ASSUME NEW t \in Turns,
               \/ RecordRejected(t) \/ Collect(t)
               \/ ReconcileProbe(t) \/ ReconcileStates(t) \/ ReconcileCommit(t)
        PROVE  TypeOK'
    <2>1. UNCHANGED <<attempt, launch, sent, native, materialized, creation, caller, issued, slot, first,
                      run, parser, child, got, said, instance>>
      BY <1>3 DEF RecordRejected, Collect, ReconcileProbe, ReconcileStates, ReconcileCommit
    <2>2. pc' = [pc EXCEPT ![t] = "gone"] \/ UNCHANGED pc
      BY <1>3 DEF RecordRejected, Collect, ReconcileProbe, ReconcileStates, ReconcileCommit
    <2>3. turn' \in [Turns -> {"queued", "running", "rejected", "missing"} \cup Resolved]
      <3>1. UNCHANGED turn \/ \E v \in {"rejected", "missing"} \cup Resolved : Record(t, v)
        BY <1>3 DEF RecordRejected, Collect, ReconcileProbe, ReconcileStates, ReconcileCommit
      <3>2. CASE UNCHANGED turn
        BY <3>2 DEF TypeOK
      <3> QED BY <3>1, <3>2, RecordTyped
    <2>4. reconcile' \in [Turns -> {None, "states", "missing"} \cup Resolved]
      <3>1. \/ UNCHANGED reconcile
            \/ \E v \in {None, "states", "missing"} \cup Resolved : reconcile' = [reconcile EXCEPT ![t] = v]
        <4>1. CASE ReconcileProbe(t)
          BY <4>1 DEF ReconcileProbe
        <4>2. CASE ReconcileStates(t)
          BY <4>2 DEF ReconcileStates
        <4>3. CASE ReconcileCommit(t)
          BY <4>3 DEF ReconcileCommit
        <4> QED BY <1>3, <4>1, <4>2, <4>3 DEF RecordRejected, Collect
      <3>2. reconcile \in [Turns -> {None, "states", "missing"} \cup Resolved]
        BY DEF TypeOK
      <3> QED BY <3>1, <3>2, EntryTyped
    <2> QED BY <2>1, <2>2, <2>3, <2>4 DEF TypeOK
  <1>4. ASSUME NEW t \in Turns, RunStep(t) PROVE TypeOK'
    <2>1. ASSUME NEW l \in Lines, ReadLine(t, l) PROVE TypeOK'
      <3>1. parser[t] \in ParserRow /\ ~parser[t].poisoned
        BY <2>1 DEF ReadLine, TypeOK, ParserRow
      <3>2. ParseLine(parser[t], l) \in ParserRow
        BY <3>1, ParseLineKnows
      <3>3. parser' \in [Turns -> ParserRow]
        BY <2>1, <3>2 DEF ReadLine, TypeOK, ParserRow
      <3> QED BY <2>1, <3>3 DEF ReadLine, TypeOK, ParserRow
    <2>2. CASE Reap(t) \/ RemoveTurn(t) \/ MarkMaterialized(t) \/ EndRun(t) \/ ChildExit(t)
      BY <2>2 DEF Reap, RemoveTurn, MarkMaterialized, EndRun, ChildExit, TypeOK
    <2>3. CASE SetAttemptTerminal(t)
      <3>1. parser[t].verdict \in {None} \cup Resolved
        BY DEF TypeOK
      <3> QED BY <2>3, <3>1 DEF SetAttemptTerminal, TypeOK
    <2> QED BY <1>4, <2>1, <2>2, <2>3 DEF RunStep
  <1>5. CASE Restart
    <2>1. Fresh \in [init : BOOLEAN, evidence : BOOLEAN, verdict : {None} \cup Resolved, poisoned : BOOLEAN]
      BY DEF Fresh
    <2> HIDE DEF Fresh
    <2> QED BY <1>5, <2>1 DEF Restart, TypeOK
  <1> QED BY <1>1, <1>2, <1>3, <1>4, <1>5 DEF Next, ClaudeCallers

\* A restart leaves the rows and the children, and nothing in memory.
LEMMA ClaudeRestart ==
  ASSUME ClaudeInv, Restart
  PROVE  (\A t \in Turns : ClaudeRow(t)') /\ ClaudeSlot' /\ OneChildPerSession' /\ ClaudeCreations'
  <1>1. /\ UNCHANGED <<turn, attempt, launch, child, got, said>>
        /\ creation' = None /\ slot' = None
        /\ \A t \in Turns : /\ pc'[t] = IF pc[t] = "none" THEN "none" ELSE "gone"
                            /\ run'[t] = IF run[t] = "none" THEN "none" ELSE "over"
                            /\ reconcile'[t] = None
        /\ \A c \in Callers : caller'[c].pc = "idle" /\ caller'[c].id = None
    BY DEF Restart, rowVars, childVars
  <1>2. ASSUME NEW t \in Turns PROVE ClaudeRow(t)'
    <2>1. ClaudeRow(t)
      BY DEF ClaudeInv
    <2>2. ClaudePhase(t)' /\ ClaudeAttempt(t)' /\ ClaudeRejection(t)'
      BY <1>1, <2>1, ClaudeAssumption
         DEF ClaudeRow, ClaudePhase, ClaudeAttempt, ClaudeRejection, Childless, Writing, Resolved
    <2>3. ClaudeParser(t)' /\ ClaudeVerdict(t)'
      BY <1>1, <2>1 DEF ClaudeRow, ClaudeParser, ClaudeVerdict
    <2> QED BY <2>2, <2>3 DEF ClaudeRow
  <1>3. ClaudeSlot'
    BY <1>1 DEF ClaudeSlot, Holding, Writing
  <1>4. OneChildPerSession'
    BY <1>1 DEF ClaudeInv, OneChildPerSession
  <1>5. ClaudeCreations'
    BY <1>1 DEF ClaudeCreations
  <1> QED BY <1>2, <1>3, <1>4, <1>5

\* The turns' steps do not touch the requests.
LEMMA TurnsOnly ==
  ASSUME NEW t \in Turns,
         \/ DispatchStep(t) \/ RecordRejected(t) \/ Collect(t)
         \/ ReconcileProbe(t) \/ ReconcileStates(t) \/ ReconcileCommit(t) \/ RunStep(t)
  PROVE  UNCHANGED <<creation, caller>>
  <1> USE DEF createVars
  <1>1. CASE DispatchStep(t)
    BY <1>1
       DEF DispatchStep, Dispatching, Release, ReadBinding, AcquireSlot, CheckUnresolved, ClaudeTurnLaunch,
           InsertAttempt, ReserveLaunch, StartChild, RecordStartFailed, RecordStarted, WritePrompt,
           CloseStdin, TerminateChild
  <1>2. CASE \/ RecordRejected(t) \/ Collect(t) \/ ReconcileProbe(t) \/ ReconcileStates(t)
             \/ ReconcileCommit(t)
    BY <1>2 DEF RecordRejected, Collect, ReconcileProbe, ReconcileStates, ReconcileCommit, Observing
  <1>3. CASE RunStep(t)
    BY <1>3
       DEF RunStep, Running, ReadLine, Reap, RemoveTurn, SetAttemptTerminal, MarkMaterialized, EndRun,
           ChildExit
  <1> QED BY <1>1, <1>2, <1>3

\* Every step.
LEMMA ClaudeNext == ASSUME ClaudeInv, Next PROVE ClaudeInv'
  <1>1. TypeOK /\ (\A t \in Turns : ClaudeRow(t)) /\ ClaudeSlot /\ OneChildPerSession /\ ClaudeCreations
    BY DEF ClaudeInv
  <1>2. TypeOK'
    BY <1>1, ClaudeTypedNext
  <1>3. ASSUME NEW c \in Callers, ClaudeCallers(c) PROVE ClaudeInv'
    <2>1. UNCHANGED <<turn, attempt, launch, sent, slot, pc, first, run, parser, reconcile, child, got,
                      said, instance>>
      BY <1>3, CallersOnly
    <2>2. ASSUME NEW t \in Turns PROVE ClaudeRow(t)'
      <3>1. ClaudeRow(t)
        BY <1>1
      <3>2. ClaudePhase(t)' /\ ClaudeAttempt(t)' /\ ClaudeRejection(t)'
        BY <2>1, <3>1 DEF ClaudeRow, ClaudePhase, ClaudeAttempt, ClaudeRejection
      <3>3. ClaudeParser(t)' /\ ClaudeVerdict(t)'
        BY <2>1, <3>1 DEF ClaudeRow, ClaudeParser, ClaudeVerdict
      <3> QED BY <3>2, <3>3 DEF ClaudeRow
    <2>3. ClaudeSlot' /\ OneChildPerSession'
      BY <1>1, <2>1 DEF ClaudeSlot, OneChildPerSession
    <2> QED BY <1>1, <1>2, <1>3, <2>2, <2>3, ClaudeCallersAgree DEF ClaudeInv
  <1>4. ASSUME NEW t \in Turns,
               \/ DispatchStep(t) \/ RecordRejected(t) \/ Collect(t)
               \/ ReconcileProbe(t) \/ ReconcileStates(t) \/ ReconcileCommit(t) \/ RunStep(t)
        PROVE  ClaudeInv'
    <2>1. OnlyTurn(t) /\ SlotStep(t) /\ ClaudeRow(t)'
      BY <1>1, <1>4, ClaudeDispatch, ClaudeLaunch, ClaudeRecords, ClaudeRuns DEF DispatchStep
    <2>2. (\A u \in Turns : ClaudeRow(u)') /\ ClaudeSlot' /\ OneChildPerSession'
      BY <1>1, <2>1, ClaudeStep
    <2>3. ClaudeCreations'
      BY <1>1, <1>4, TurnsOnly DEF ClaudeCreations
    <2> QED BY <1>2, <2>2, <2>3 DEF ClaudeInv
  <1>5. CASE Restart
    BY <1>2, <1>5, ClaudeRestart DEF ClaudeInv
  <1> QED BY <1>3, <1>4, <1>5 DEF Next, ClaudeCallers

\* It holds of a new session.
LEMMA ClaudeInit == ASSUME Init PROVE ClaudeInv
  <1>1. TypeOK
    BY DEF Init, TypeOK, Fresh
  <1>2. ASSUME NEW t \in Turns PROVE ClaudeRow(t)
    <2>1. ClaudePhase(t) /\ ClaudeAttempt(t) /\ ClaudeRejection(t)
      BY ClaudeAssumption DEF Init, ClaudePhase, ClaudeAttempt, ClaudeRejection, Childless, Resolved
    <2>2. ClaudeParser(t) /\ ClaudeVerdict(t)
      BY ClaudeAssumption DEF Init, ClaudeParser, ClaudeVerdict, Resolved
    <2> QED BY <2>1, <2>2 DEF ClaudeRow
  <1>3. ClaudeSlot /\ OneChildPerSession
    BY DEF Init, ClaudeSlot, OneChildPerSession, Holding, Writing
  <1>4. ClaudeCreations
    BY DEF Init, ClaudeCreations
  <1> QED BY <1>1, <1>2, <1>3, <1>4 DEF ClaudeInv

\* What the runs check of it.
LEMMA ClaudeInvImplies ==
  ASSUME ClaudeInv
  PROVE  TypeOK /\ RejectedNeverSent /\ VerdictHasResult /\ OneChildPerSession /\ SharedIdentity
  <1>1. RejectedNeverSent
    BY DEF ClaudeInv, ClaudeRow, ClaudeRejection, RejectedNeverSent
  <1>2. VerdictHasResult
    BY DEF ClaudeInv, ClaudeRow, ClaudeVerdict, VerdictHasResult
  <1>3. SharedIdentity
    BY DEF ClaudeInv, ClaudeCreations, SharedIdentity
  <1> QED BY <1>1, <1>2, <1>3 DEF ClaudeInv

ClaudePart == part = "claude" => ClaudeInv

\* The inductive invariant holds in every run of the adapter.
LEMMA ClaudePartHolds == MCSpec => []ClaudePart
  <1>1. MCInit => ClaudePart
    BY ClaudeInit DEF MCInit, ClaudePart
  <1>2. ClaudePart /\ [MCNext]_mcVars => ClaudePart'
    <2> SUFFICES ASSUME ClaudePart, [MCNext]_mcVars, part' = "claude" PROVE ClaudeInv'
      BY DEF ClaudePart
    <2>1. CASE part = "claude" /\ Next
      BY <2>1, ClaudeNext DEF ClaudePart
    <2>2. CASE part = "claude" /\ UNCHANGED mcVars
      <3>1. UNCHANGED <<turn, attempt, launch, sent, native, materialized, creation, caller, issued, slot,
                        pc, first, run, parser, reconcile, child, got, said, instance>>
        BY <2>2 DEF mcVars, vars, rowVars, bindingVars, createVars, runVars, childVars
      <3>2. ClaudeInv
        BY <2>2 DEF ClaudePart
      <3>3. TypeOK'
        BY <3>1, <3>2 DEF ClaudeInv, TypeOK
      <3>4. ASSUME NEW t \in Turns PROVE ClaudeRow(t)'
        <4>1. ClaudeRow(t)
          BY <3>2 DEF ClaudeInv
        <4>2. ClaudePhase(t)' /\ ClaudeAttempt(t)' /\ ClaudeRejection(t)'
          BY <3>1, <4>1 DEF ClaudeRow, ClaudePhase, ClaudeAttempt, ClaudeRejection
        <4>3. ClaudeParser(t)' /\ ClaudeVerdict(t)'
          BY <3>1, <4>1 DEF ClaudeRow, ClaudeParser, ClaudeVerdict
        <4> QED BY <4>2, <4>3 DEF ClaudeRow
      <3>5. ClaudeSlot' /\ OneChildPerSession' /\ ClaudeCreations'
        BY <3>1, <3>2 DEF ClaudeInv, ClaudeSlot, OneChildPerSession, ClaudeCreations
      <3> QED BY <3>3, <3>4, <3>5 DEF ClaudeInv
    <2> QED BY <2>1, <2>2 DEF MCNext, mcVars
  <1> QED BY <1>1, <1>2, PTL DEF MCSpec, mcVars

\* What the claude adapter says of a turn is so, for any number of turns and restarts: a turn it
\* rejected, or found missing, never reached a child, and a verdict is that of a child that got
\* the prompt and printed one result (Dispatch, ParseStream, runTurn, Reconcile).
THEOREM ClaudeAlwaysTrue == MCSpec => []ClaudeVerdictsTrue
  <1>1. ClaudePart => ClaudeVerdictsTrue
    BY ClaudeInvImplies DEF ClaudePart, ClaudeVerdictsTrue
  <1> QED BY <1>1, ClaudePartHolds, PTL

\* One native session has one child at a time across restarts (acquireSlot,
\* HasUnresolvedAttempts).
THEOREM ClaudeAlwaysHeld == MCSpec => [](part = "claude" => OneChildPerSession)
  <1>1. ClaudePart => (part = "claude" => OneChildPerSession)
    BY ClaudeInvImplies DEF ClaudePart
  <1> QED BY <1>1, ClaudePartHolds, PTL

\* Births are accounted for, with the exceptions BirthsAccounted states, for any number of
\* concurrent requests, episodes, creations and crashes: CreateSession of the claude adapter,
\* CreateAgySession under its in-flight marker, and the shared creation call, tombstone and
\* episode of CreateCodexSession.
THEOREM BirthsAlwaysAccounted == MCSpec => []BirthsAccounted
  <1>1. BirthParts /\ ClaudePart => BirthsAccounted
    BY ClaudeInvImplies DEF BirthParts, ClaudePart, BirthsAccounted
  <1> QED BY <1>1, BirthPartsHold, ClaudePartHolds, PTL

-----------------------------------------------------------------------------
(* The turns of an agy conversation.                                       *)

AgyPcs ==
  {"none", "register", "dispatch", "unresolved", "gates", "insert", "start", "start_failed", "started",
   "init", "write", "publish", "abort", "missing", "collect", "reject", "gone"}
AgyRows ==
  [turn : {"queued", "running", "rejected", "abandoned"} \cup Agy!Verdicts,
   attempt : {None, "uncertain", "missing"} \cup Agy!Verdicts,
   disposed : BOOLEAN,
   launch : {None, "reserved", "started", "start_failed", "dead"},
   accepted : BOOLEAN]
AgyRuns ==
  [pc : {"none", "read", "settle", "finish", "over"} \cup Agy!Verdicts,
   accepted : {"no", "yes", "error"},
   result : {None, "drift"} \cup Agy!Results,
   bound : BOOLEAN]
AgyCancels == [flag : BOOLEAN, sending : BOOLEAN, grace : BOOLEAN]
AgyChildren ==
  [state : {"none", "up", "gone", "orphan"}, got : BOOLEAN,
   said : SUBSET ({"bad", "accept"} \cup Agy!Results)]

AgyTyped ==
  /\ row \in [Agy!AgyTurns -> AgyRows]
  /\ slot \in Agy!AgyTurns \cup {None}
  /\ pc \in [Agy!AgyTurns -> AgyPcs]
  /\ run \in [Agy!AgyTurns -> AgyRuns]
  /\ cancel \in [Agy!AgyTurns -> AgyCancels]
  /\ child \in [Agy!AgyTurns -> AgyChildren]

\* The program counters of a dispatch without a child, and of one that has not written yet.
AgyChildless ==
  {"none", "register", "dispatch", "unresolved", "gates", "insert", "start", "start_failed"}
AgyStarted == {"started", "init", "write", "publish"}
AgyUnwritten == AgyChildless \cup {"started", "init", "write", "abort", "missing", "reject"}
AgyHolding ==
  {"unresolved", "gates", "insert", "start", "start_failed", "started", "init", "write", "publish",
   "abort", "missing"}

\* How far the dispatch is says what there is of the child and of the run.
AgyPhase(t) ==
  /\ row[t].turn = "queued" => pc[t] = "none"
  /\ pc[t] \in AgyChildless => child[t].state = "none"
  /\ pc[t] \in AgyStarted => child[t].state \in {"up", "gone"}
  /\ pc[t] = "missing" => child[t].state = "gone"
  /\ pc[t] \in AgyUnwritten => ~child[t].got
  /\ pc[t] \in AgyUnwritten \cup {"publish"} => run[t] = Agy!NoRun /\ child[t].said = {}
  /\ run[t].pc \in {"read", "settle"} => child[t].state \in {"up", "gone"}
  /\ run[t].pc \in Agy!Verdicts \cup {"finish"} => child[t].state = "gone"

\* What may be called rejected or missing never got the prompt, and will not.
AgyRejection(t) ==
  row[t].attempt = "missing" \/ row[t].turn = "rejected" =>
    ~child[t].got /\ pc[t] \in {"reject", "gone"}

\* The interrupt that was asked for is under way, or its grace runs, or the child is gone.
AgyBounded(t) ==
  /\ ~Agy!Live(t) => cancel[t] = Agy!NoCancel
  /\ InterruptSupported /\ Agy!Live(t) /\ (run[t].bound \/ cancel[t].flag) =>
       cancel[t].sending \/ cancel[t].grace \/ child[t].state = "gone"

\* What the run knows of what the child said.
AgyKnows(t) ==
  run[t].pc \in {"read", "settle"} =>
    /\ run[t].result = None => "bad" \notin child[t].said /\ child[t].said \cap Agy!Results = {}
    /\ run[t].result \in Agy!Results =>
         "bad" \notin child[t].said /\ child[t].said \cap Agy!Results = {run[t].result}
    /\ "accept" \in child[t].said => run[t].accepted # "no"
    /\ run[t].accepted = "yes" => row[t].accepted

\* The evidence for verdict v: the child's state, what it said, and the recorded acceptance.
Backed(state, words, accepted, v) ==
  /\ state = "gone" /\ "bad" \notin words
  /\ words \cap Agy!Results \subseteq
       (CASE v = "completed" -> {"ok"}
          [] v = "cancelled" -> {"interrupted"}
          [] OTHER -> {"error", "interrupted"})
  /\ words \cap Agy!Results # {}
  /\ "accept" \in words => accepted

AgyVerdict(t) ==
  /\ row[t].turn \in Agy!Verdicts => row[t].attempt = row[t].turn
  /\ run[t].pc \in Agy!Verdicts => Backed(child[t].state, child[t].said, row[t].accepted, run[t].pc)
  /\ row[t].attempt \in Agy!Verdicts =>
       /\ Backed(child[t].state, child[t].said, row[t].accepted, row[t].attempt)
       /\ pc[t] \in {"collect", "gone"} /\ run[t].pc \in {"finish", "over", "none"}

\* The slot is that of the dispatch that holds it and of the child that is up.
AgySlot(t) ==
  pc[t] \in AgyHolding \/ child[t].state = "up" => slot = t

AgyTurnInv(t) == AgyPhase(t) /\ AgyRejection(t) /\ AgyBounded(t) /\ AgyKnows(t) /\ AgyVerdict(t)
AgyInv == AgyTyped /\ \A t \in Agy!AgyTurns : AgyTurnInv(t) /\ AgySlot(t)
AgyPart == part = "agy" => AgyInv

\* What None is not.
LEMMA AgyNone ==
  /\ None \notin Agy!AgyTurns /\ None \notin Agy!Verdicts /\ None \notin Agy!Results
  /\ None \notin {"uncertain", "missing", "drift", "start_failed", "dead"}
  BY ChildrenAssumption, ClaudeAssumption DEF Agy!AgyTurns, Agy!Verdicts, Agy!Results

\* Only turn t's rows, program counters and child have changed.
OnlyAgy(t) ==
  \A u \in Agy!AgyTurns \ {t} :
    row'[u] = row[u] /\ pc'[u] = pc[u] /\ run'[u] = run[u] /\ cancel'[u] = cancel[u] /\ child'[u] = child[u]

\* A step of one turn.
LEMMA AgyStep ==
  ASSUME AgyInv, NEW t \in Agy!AgyTurns, OnlyAgy(t), AgyTyped', AgyTurnInv(t)', AgySlot(t)',
         slot' = slot \/ slot \in {None, t}
  PROVE  AgyInv'
  <1>1. ASSUME NEW u \in Agy!AgyTurns, u # t PROVE AgyTurnInv(u)' /\ AgySlot(u)'
    <2>1. AgyTurnInv(u) /\ AgySlot(u)
      BY DEF AgyInv
    <2>2. row'[u] = row[u] /\ pc'[u] = pc[u] /\ run'[u] = run[u] /\ cancel'[u] = cancel[u] /\ child'[u] = child[u]
      BY <1>1 DEF OnlyAgy
    <2>3. AgyPhase(u)' /\ AgyRejection(u)'
      BY <2>1, <2>2 DEF AgyTurnInv, AgyPhase, AgyRejection
    <2>4. AgyBounded(u)' /\ AgyKnows(u)'
      BY <2>1, <2>2 DEF AgyTurnInv, AgyBounded, AgyKnows, Agy!Live
    <2>5. AgyVerdict(u)'
      BY <2>1, <2>2 DEF AgyTurnInv, AgyVerdict
    <2>6. AgySlot(u)'
      BY <1>1, <2>1, <2>2, AgyNone DEF AgySlot
    <2> QED BY <2>3, <2>4, <2>5, <2>6 DEF AgyTurnInv
  <1> QED BY <1>1 DEF AgyInv

\* The four records of a turn after a step, field by field.
AgyRowIs(t, tu, at, ac) ==
  /\ row' \in [Agy!AgyTurns -> AgyRows]
  /\ row'[t].turn = tu /\ row'[t].attempt = at /\ row'[t].accepted = ac
  /\ \A u \in Agy!AgyTurns \ {t} : row'[u] = row[u]

AgyRunIs(t, p, ac, re, bo) ==
  /\ run' \in [Agy!AgyTurns -> AgyRuns]
  /\ run'[t].pc = p /\ run'[t].accepted = ac /\ run'[t].result = re /\ run'[t].bound = bo
  /\ \A u \in Agy!AgyTurns \ {t} : run'[u] = run[u]

AgyCancelIs(t, f, s, g) ==
  /\ cancel' \in [Agy!AgyTurns -> AgyCancels]
  /\ cancel'[t].flag = f /\ cancel'[t].sending = s /\ cancel'[t].grace = g
  /\ \A u \in Agy!AgyTurns \ {t} : cancel'[u] = cancel[u]

AgyChildIs(t, s, g, d) ==
  /\ child' \in [Agy!AgyTurns -> AgyChildren]
  /\ child'[t].state = s /\ child'[t].got = g /\ child'[t].said = d
  /\ \A u \in Agy!AgyTurns \ {t} : child'[u] = child[u]

\* A child's record is updated.
LEMMA AgyChildSet ==
  ASSUME AgyTyped, NEW t \in Agy!AgyTurns, NEW s \in {"none", "up", "gone", "orphan"},
         NEW d \in SUBSET ({"bad", "accept"} \cup Agy!Results)
  PROVE  /\ child' = [child EXCEPT ![t].state = s] => AgyChildIs(t, s, child[t].got, child[t].said)
         /\ child' = [child EXCEPT ![t].got = TRUE] => AgyChildIs(t, child[t].state, TRUE, child[t].said)
         /\ child' = [child EXCEPT ![t].said = d] => AgyChildIs(t, child[t].state, child[t].got, d)
         /\ child' = [child EXCEPT ![t].said = d, ![t].state = s] => AgyChildIs(t, s, child[t].got, d)
  <1>1. child[t] \in AgyChildren /\ child \in [Agy!AgyTurns -> AgyChildren]
    BY DEF AgyTyped
  <1>2. ASSUME NEW r \in AgyChildren, child' = [child EXCEPT ![t] = r]
        PROVE  AgyChildIs(t, r.state, r.got, r.said)
    BY <1>1, <1>2 DEF AgyChildIs
  <1>3. LET r == [child[t] EXCEPT !.state = s]
        IN  r \in AgyChildren /\ r.state = s /\ r.got = child[t].got /\ r.said = child[t].said
    BY <1>1 DEF AgyChildren
  <1>4. LET r == [child[t] EXCEPT !.got = TRUE]
        IN  r \in AgyChildren /\ r.state = child[t].state /\ r.got = TRUE /\ r.said = child[t].said
    BY <1>1 DEF AgyChildren
  <1>5. LET r == [child[t] EXCEPT !.said = d]
        IN  r \in AgyChildren /\ r.state = child[t].state /\ r.got = child[t].got /\ r.said = d
    BY <1>1 DEF AgyChildren
  <1>6. LET r == [child[t] EXCEPT !.said = d, !.state = s]
        IN  r \in AgyChildren /\ r.state = s /\ r.got = child[t].got /\ r.said = d
    BY <1>1 DEF AgyChildren
  <1>7. ASSUME child' = [child EXCEPT ![t].state = s] PROVE AgyChildIs(t, s, child[t].got, child[t].said)
    <2>1. child' = [child EXCEPT ![t] = [child[t] EXCEPT !.state = s]]
      BY <1>7
    <2> QED BY <1>2, <1>3, <2>1
  <1>8. ASSUME child' = [child EXCEPT ![t].got = TRUE]
        PROVE  AgyChildIs(t, child[t].state, TRUE, child[t].said)
    <2>1. child' = [child EXCEPT ![t] = [child[t] EXCEPT !.got = TRUE]]
      BY <1>8
    <2> QED BY <1>2, <1>4, <2>1
  <1>9. ASSUME child' = [child EXCEPT ![t].said = d] PROVE AgyChildIs(t, child[t].state, child[t].got, d)
    <2>1. child' = [child EXCEPT ![t] = [child[t] EXCEPT !.said = d]]
      BY <1>9
    <2> QED BY <1>2, <1>5, <2>1
  <1>10. ASSUME child' = [child EXCEPT ![t].said = d, ![t].state = s] PROVE AgyChildIs(t, s, child[t].got, d)
    <2>1. child' = [child EXCEPT ![t] = [child[t] EXCEPT !.said = d, !.state = s]]
      BY <1>1, <1>10
    <2> QED BY <1>2, <1>6, <2>1
  <1> QED BY <1>7, <1>8, <1>9, <1>10

\* A turn's rows are updated.
LEMMA AgyRowSet ==
  ASSUME AgyTyped, NEW t \in Agy!AgyTurns
  PROVE  /\ row[t] \in AgyRows
         /\ \A r \in AgyRows : Agy!SetRow(t, r) => AgyRowIs(t, r.turn, r.attempt, r.accepted)
         /\ row' = row => AgyRowIs(t, row[t].turn, row[t].attempt, row[t].accepted)
         /\ row' = [row EXCEPT ![t].launch = "dead"] =>
              AgyRowIs(t, row[t].turn, row[t].attempt, row[t].accepted)
         /\ row' = [row EXCEPT ![t].accepted = TRUE] => AgyRowIs(t, row[t].turn, row[t].attempt, TRUE)
  <1>1. row[t] \in AgyRows /\ row \in [Agy!AgyTurns -> AgyRows]
    BY DEF AgyTyped
  <1>2. ASSUME NEW r \in AgyRows, row' = [row EXCEPT ![t] = r]
        PROVE  AgyRowIs(t, r.turn, r.attempt, r.accepted)
    BY <1>1, <1>2 DEF AgyRowIs
  <1>3. ASSUME NEW r \in AgyRows, Agy!SetRow(t, r) PROVE AgyRowIs(t, r.turn, r.attempt, r.accepted)
    BY <1>2, <1>3 DEF Agy!SetRow
  <1>4. row' = row => AgyRowIs(t, row[t].turn, row[t].attempt, row[t].accepted)
    BY <1>1 DEF AgyRowIs
  <1>5. LET r == [row[t] EXCEPT !.launch = "dead"]
        IN  r \in AgyRows /\ r.turn = row[t].turn /\ r.attempt = row[t].attempt /\ r.accepted = row[t].accepted
    BY <1>1 DEF AgyRows
  <1>6. LET r == [row[t] EXCEPT !.accepted = TRUE]
        IN  r \in AgyRows /\ r.turn = row[t].turn /\ r.attempt = row[t].attempt /\ r.accepted = TRUE
    BY <1>1 DEF AgyRows
  <1>7. ASSUME row' = [row EXCEPT ![t].launch = "dead"]
        PROVE  AgyRowIs(t, row[t].turn, row[t].attempt, row[t].accepted)
    <2>1. row' = [row EXCEPT ![t] = [row[t] EXCEPT !.launch = "dead"]]
      BY <1>7
    <2> QED BY <1>2, <1>5, <2>1
  <1>8. ASSUME row' = [row EXCEPT ![t].accepted = TRUE]
        PROVE  AgyRowIs(t, row[t].turn, row[t].attempt, TRUE)
    <2>1. row' = [row EXCEPT ![t] = [row[t] EXCEPT !.accepted = TRUE]]
      BY <1>8
    <2> QED BY <1>2, <1>6, <2>1
  <1> QED BY <1>1, <1>3, <1>4, <1>7, <1>8

\* A run's record is updated.
LEMMA AgyRunSet ==
  ASSUME AgyTyped, NEW t \in Agy!AgyTurns,
         NEW p \in {"none", "read", "settle", "finish", "over"} \cup Agy!Verdicts,
         NEW e \in {None, "drift"} \cup Agy!Results, NEW a \in {"no", "yes", "error"}
  PROVE  /\ run' = run => AgyRunIs(t, run[t].pc, run[t].accepted, run[t].result, run[t].bound)
         /\ run' = [run EXCEPT ![t].pc = p] =>
              AgyRunIs(t, p, run[t].accepted, run[t].result, run[t].bound)
         /\ run' = [run EXCEPT ![t].result = e] =>
              AgyRunIs(t, run[t].pc, run[t].accepted, e, run[t].bound)
         /\ run' = [run EXCEPT ![t].accepted = a] =>
              AgyRunIs(t, run[t].pc, a, run[t].result, run[t].bound)
         /\ run' = [run EXCEPT ![t].bound = TRUE] =>
              AgyRunIs(t, run[t].pc, run[t].accepted, run[t].result, TRUE)
         /\ run' = [run EXCEPT ![t].pc = p, ![t].result = e] =>
              AgyRunIs(t, p, run[t].accepted, e, run[t].bound)
         /\ run' = [run EXCEPT ![t] = [Agy!NoRun EXCEPT !.pc = p]] => AgyRunIs(t, p, "no", None, FALSE)
  <1>1. run[t] \in AgyRuns /\ run \in [Agy!AgyTurns -> AgyRuns]
    BY DEF AgyTyped
  <1>2. ASSUME NEW r \in AgyRuns, run' = [run EXCEPT ![t] = r]
        PROVE  AgyRunIs(t, r.pc, r.accepted, r.result, r.bound)
    BY <1>1, <1>2 DEF AgyRunIs
  <1>3. run' = run => AgyRunIs(t, run[t].pc, run[t].accepted, run[t].result, run[t].bound)
    BY <1>1 DEF AgyRunIs
  <1>4. ASSUME run' = [run EXCEPT ![t].pc = p]
        PROVE  AgyRunIs(t, p, run[t].accepted, run[t].result, run[t].bound)
    <2> DEFINE r == [run[t] EXCEPT !.pc = p]
    <2>1. r \in AgyRuns /\ r.pc = p /\ r.accepted = run[t].accepted /\ r.result = run[t].result /\ r.bound = run[t].bound
      BY <1>1 DEF AgyRuns
    <2>2. run' = [run EXCEPT ![t] = r]
      BY <1>4
    <2> HIDE DEF r
    <2> QED BY <1>2, <2>1, <2>2
  <1>5. ASSUME run' = [run EXCEPT ![t].result = e]
        PROVE  AgyRunIs(t, run[t].pc, run[t].accepted, e, run[t].bound)
    <2> DEFINE r == [run[t] EXCEPT !.result = e]
    <2>1. r \in AgyRuns /\ r.pc = run[t].pc /\ r.accepted = run[t].accepted /\ r.result = e /\ r.bound = run[t].bound
      BY <1>1 DEF AgyRuns
    <2>2. run' = [run EXCEPT ![t] = r]
      BY <1>5
    <2> HIDE DEF r
    <2> QED BY <1>2, <2>1, <2>2
  <1>6. ASSUME run' = [run EXCEPT ![t].accepted = a]
        PROVE  AgyRunIs(t, run[t].pc, a, run[t].result, run[t].bound)
    <2> DEFINE r == [run[t] EXCEPT !.accepted = a]
    <2>1. r \in AgyRuns /\ r.pc = run[t].pc /\ r.accepted = a /\ r.result = run[t].result /\ r.bound = run[t].bound
      BY <1>1 DEF AgyRuns
    <2>2. run' = [run EXCEPT ![t] = r]
      BY <1>6
    <2> HIDE DEF r
    <2> QED BY <1>2, <2>1, <2>2
  <1>7. ASSUME run' = [run EXCEPT ![t].bound = TRUE]
        PROVE  AgyRunIs(t, run[t].pc, run[t].accepted, run[t].result, TRUE)
    <2> DEFINE r == [run[t] EXCEPT !.bound = TRUE]
    <2>1. r \in AgyRuns /\ r.pc = run[t].pc /\ r.accepted = run[t].accepted /\ r.result = run[t].result /\ r.bound = TRUE
      BY <1>1 DEF AgyRuns
    <2>2. run' = [run EXCEPT ![t] = r]
      BY <1>7
    <2> HIDE DEF r
    <2> QED BY <1>2, <2>1, <2>2
  <1>8. ASSUME run' = [run EXCEPT ![t].pc = p, ![t].result = e]
        PROVE  AgyRunIs(t, p, run[t].accepted, e, run[t].bound)
    <2> DEFINE r == [run[t] EXCEPT !.pc = p, !.result = e]
    <2>1. r \in AgyRuns /\ r.pc = p /\ r.accepted = run[t].accepted /\ r.result = e /\ r.bound = run[t].bound
      BY <1>1 DEF AgyRuns
    <2>2. run' = [run EXCEPT ![t] = r]
      BY <1>1, <1>8
    <2> HIDE DEF r
    <2> QED BY <1>2, <2>1, <2>2
  <1>9. ASSUME run' = [run EXCEPT ![t] = [Agy!NoRun EXCEPT !.pc = p]] PROVE AgyRunIs(t, p, "no", None, FALSE)
    <2> DEFINE r == [Agy!NoRun EXCEPT !.pc = p]
    <2>1. r \in AgyRuns /\ r.pc = p /\ r.accepted = "no" /\ r.result = None /\ r.bound = FALSE
      BY DEF AgyRuns, Agy!NoRun
    <2>2. run' = [run EXCEPT ![t] = r]
      BY <1>9
    <2> HIDE DEF r
    <2> QED BY <1>2, <2>1, <2>2
  <1> QED BY <1>3, <1>4, <1>5, <1>6, <1>7, <1>8, <1>9

\* A cancellation's record is updated.
LEMMA AgyCancelSet ==
  ASSUME AgyTyped, NEW t \in Agy!AgyTurns
  PROVE  /\ cancel' = cancel => AgyCancelIs(t, cancel[t].flag, cancel[t].sending, cancel[t].grace)
         /\ Agy!RequestInterrupt(t) =>
              AgyCancelIs(t, TRUE, cancel[t].sending \/ ~cancel[t].flag, cancel[t].grace)
         /\ cancel' = [cancel EXCEPT ![t].sending = FALSE, ![t].grace = TRUE] =>
              AgyCancelIs(t, cancel[t].flag, FALSE, TRUE)
         /\ cancel' = [cancel EXCEPT ![t].sending = FALSE, ![t].flag = FALSE] =>
              AgyCancelIs(t, FALSE, FALSE, cancel[t].grace)
         /\ cancel' = [cancel EXCEPT ![t].grace = FALSE] =>
              AgyCancelIs(t, cancel[t].flag, cancel[t].sending, FALSE)
  <1>1. cancel[t] \in AgyCancels /\ cancel \in [Agy!AgyTurns -> AgyCancels]
    BY DEF AgyTyped
  <1>2. ASSUME NEW r \in AgyCancels, cancel' = [cancel EXCEPT ![t] = r]
        PROVE  AgyCancelIs(t, r.flag, r.sending, r.grace)
    BY <1>1, <1>2 DEF AgyCancelIs
  <1>3. cancel' = cancel => AgyCancelIs(t, cancel[t].flag, cancel[t].sending, cancel[t].grace)
    BY <1>1 DEF AgyCancelIs
  <1>4. ASSUME Agy!RequestInterrupt(t)
        PROVE  AgyCancelIs(t, TRUE, cancel[t].sending \/ ~cancel[t].flag, cancel[t].grace)
    <2> DEFINE b == cancel[t].sending \/ ~cancel[t].flag
               r == [cancel[t] EXCEPT !.flag = TRUE, !.sending = b]
    <2>0. b \in BOOLEAN
      OBVIOUS
    <2>1. cancel' = [cancel EXCEPT ![t] = r]
      BY <1>1, <1>4 DEF Agy!RequestInterrupt
    <2> HIDE DEF b
    <2>2. r \in AgyCancels /\ r.flag = TRUE /\ r.sending = b /\ r.grace = cancel[t].grace
      BY <1>1, <2>0 DEF AgyCancels
    <2> HIDE DEF r
    <2>3. AgyCancelIs(t, TRUE, b, cancel[t].grace)
      BY <1>2, <2>1, <2>2
    <2> QED BY <2>3 DEF b
  <1>5. ASSUME cancel' = [cancel EXCEPT ![t].sending = FALSE, ![t].grace = TRUE]
        PROVE  AgyCancelIs(t, cancel[t].flag, FALSE, TRUE)
    <2> DEFINE r == [cancel[t] EXCEPT !.sending = FALSE, !.grace = TRUE]
    <2>1. r \in AgyCancels /\ r.flag = cancel[t].flag /\ r.sending = FALSE /\ r.grace = TRUE
      BY <1>1 DEF AgyCancels
    <2>2. cancel' = [cancel EXCEPT ![t] = r]
      BY <1>1, <1>5
    <2> HIDE DEF r
    <2> QED BY <1>2, <2>1, <2>2
  <1>6. ASSUME cancel' = [cancel EXCEPT ![t].sending = FALSE, ![t].flag = FALSE]
        PROVE  AgyCancelIs(t, FALSE, FALSE, cancel[t].grace)
    <2> DEFINE r == [cancel[t] EXCEPT !.sending = FALSE, !.flag = FALSE]
    <2>1. r \in AgyCancels /\ r.flag = FALSE /\ r.sending = FALSE /\ r.grace = cancel[t].grace
      BY <1>1 DEF AgyCancels
    <2>2. cancel' = [cancel EXCEPT ![t] = r]
      BY <1>1, <1>6
    <2> HIDE DEF r
    <2> QED BY <1>2, <2>1, <2>2
  <1>7. ASSUME cancel' = [cancel EXCEPT ![t].grace = FALSE]
        PROVE  AgyCancelIs(t, cancel[t].flag, cancel[t].sending, FALSE)
    <2> DEFINE r == [cancel[t] EXCEPT !.grace = FALSE]
    <2>1. r \in AgyCancels /\ r.flag = cancel[t].flag /\ r.sending = cancel[t].sending /\ r.grace = FALSE
      BY <1>1 DEF AgyCancels
    <2>2. cancel' = [cancel EXCEPT ![t] = r]
      BY <1>7
    <2> HIDE DEF r
    <2> QED BY <1>2, <2>1, <2>2
  <1> QED BY <1>3, <1>4, <1>5, <1>6, <1>7

\* A turn's program counter moves.
LEMMA AgyPcSet ==
  ASSUME AgyTyped, NEW t \in Agy!AgyTurns, NEW l \in AgyPcs, Agy!Goto(t, l)
  PROVE  /\ pc' \in [Agy!AgyTurns -> AgyPcs] /\ pc'[t] = l
         /\ \A u \in Agy!AgyTurns \ {t} : pc'[u] = pc[u]
  BY DEF AgyTyped, Agy!Goto

\* A step of the dispatch while there is no run: what the rest of the dispatch relies on, of what
\* it leaves.
LEMMA AgyDispatching ==
  ASSUME AgyInv, NEW t \in Agy!AgyTurns, NEW l \in AgyPcs, NEW tu, NEW at, NEW ac, NEW s, NEW g,
         pc[t] \in AgyUnwritten \cup {"publish"}, l \in AgyUnwritten \cup {"publish", "gone"},
         Agy!Goto(t, l), UNCHANGED <<run, cancel>>,
         AgyRowIs(t, tu, at, ac), AgyChildIs(t, s, g, child[t].said),
         tu \notin Agy!Verdicts, at \notin Agy!Verdicts,
         tu # "queued", l \in AgyChildless => s = "none", l = "missing" => s = "gone",
         l \in AgyStarted => s \in {"up", "gone"},
         l \in AgyUnwritten => ~g,
         at = "missing" \/ tu = "rejected" => ~g /\ l \in {"reject", "gone"},
         l \in AgyHolding \/ s = "up" => slot' = t,
         slot' = slot \/ slot \in {None, t}, slot' \in {slot, t, None}
  PROVE  AgyInv'
  <1>1. pc' \in [Agy!AgyTurns -> AgyPcs] /\ pc'[t] = l /\ \A u \in Agy!AgyTurns \ {t} : pc'[u] = pc[u]
    BY AgyPcSet DEF AgyInv
  <1>2. OnlyAgy(t)
    BY <1>1 DEF OnlyAgy, AgyRowIs, AgyChildIs
  <1>3. AgyTyped'
    BY <1>1 DEF AgyInv, AgyTyped, AgyRowIs, AgyChildIs
  <1>4. AgyTurnInv(t) /\ run[t] = Agy!NoRun /\ child[t].said = {}
    BY DEF AgyInv, AgyTurnInv, AgyPhase
  <1>5. run[t].pc = "none" /\ run'[t] = Agy!NoRun /\ run'[t].pc = "none"
    BY <1>4 DEF Agy!NoRun
  <1>6. cancel'[t] = Agy!NoCancel
    BY <1>4, <1>5 DEF AgyTurnInv, AgyBounded, Agy!Live
  <1>7. AgyPhase(t)'
    BY <1>1, <1>4, <1>5 DEF AgyPhase, AgyRowIs, AgyChildIs, Agy!Verdicts
  <1>8. AgyRejection(t)'
    BY <1>1 DEF AgyRejection, AgyRowIs, AgyChildIs
  <1>9. AgyBounded(t)'
    BY <1>5, <1>6 DEF AgyBounded, Agy!Live
  <1>10. AgyKnows(t)'
    BY <1>5 DEF AgyKnows
  <1>11. AgyVerdict(t)'
    BY <1>5 DEF AgyVerdict, AgyRowIs, Agy!Verdicts
  <1>12. AgySlot(t)'
    BY <1>1 DEF AgySlot, AgyChildIs
  <1> QED BY <1>2, <1>3, <1>7, <1>8, <1>9, <1>10, <1>11, <1>12, AgyStep DEF AgyTurnInv

\* Where a turn stands while its dispatch has not written.
LEMMA AgyUndecided ==
  ASSUME AgyInv, NEW t \in Agy!AgyTurns, pc[t] \in AgyUnwritten \cup {"publish"}
  PROVE  /\ row[t] \in AgyRows /\ child[t] \in AgyChildren
         /\ pc[t] # "none" => row[t].turn # "queued"
         /\ row[t].turn \notin Agy!Verdicts /\ row[t].attempt \notin Agy!Verdicts
         /\ pc[t] # "reject" => row[t].attempt # "missing" /\ row[t].turn # "rejected"
         /\ pc[t] \in AgyUnwritten => child[t].got = FALSE
         /\ pc[t] \in AgyChildless => child[t].state = "none"
         /\ pc[t] \in AgyStarted => child[t].state \in {"up", "gone"}
         /\ pc[t] \in AgyHolding => slot = t
  <1>1. AgyTurnInv(t) /\ AgySlot(t) /\ row[t] \in AgyRows /\ child[t] \in AgyChildren
    BY DEF AgyInv, AgyTyped
  <1>2. row[t].attempt \notin Agy!Verdicts
    BY <1>1 DEF AgyTurnInv, AgyVerdict, AgyUnwritten, AgyChildless
  <1>3. row[t].turn \notin Agy!Verdicts
    BY <1>1, <1>2 DEF AgyTurnInv, AgyVerdict
  <1>4. pc[t] # "reject" => row[t].attempt # "missing" /\ row[t].turn # "rejected"
    BY <1>1 DEF AgyTurnInv, AgyRejection, AgyUnwritten, AgyChildless
  <1>5. pc[t] \in AgyUnwritten => child[t].got = FALSE
    BY <1>1 DEF AgyTurnInv, AgyPhase, AgyChildren
  <1> QED BY <1>1, <1>2, <1>3, <1>4, <1>5 DEF AgyTurnInv, AgyPhase, AgySlot

\* A child and rows that are left alone.
LEMMA AgyAlone ==
  ASSUME AgyTyped, NEW t \in Agy!AgyTurns
  PROVE  /\ child' = child => AgyChildIs(t, child[t].state, child[t].got, child[t].said)
         /\ row' = row => AgyRowIs(t, row[t].turn, row[t].attempt, row[t].accepted)
  BY DEF AgyTyped, AgyChildIs, AgyRowIs

\* A dispatch that moves on, or gives up, without touching the rows or the child.
LEMMA AgyMoves ==
  ASSUME AgyInv, NEW t \in Agy!AgyTurns, NEW l \in AgyPcs,
         pc[t] \in AgyUnwritten \ {"none"}, l \in AgyUnwritten \cup {"gone"},
         Agy!Goto(t, l), UNCHANGED <<row, run, cancel, child>>,
         l \in AgyChildless => pc[t] \in AgyChildless, l \in AgyStarted => pc[t] \in AgyStarted,
         l # "missing", pc[t] = "reject" => l = "gone",
         l \in AgyHolding => slot' = t, child[t].state = "up" => slot' = slot,
         slot' = slot \/ slot \in {None, t}, slot' \in {slot, t, None}
  PROVE  AgyInv'
  <1>1. AgyTyped
    BY DEF AgyInv
  <1>2. AgyChildIs(t, child[t].state, child[t].got, child[t].said)
    BY <1>1, AgyAlone
  <1>3. AgyRowIs(t, row[t].turn, row[t].attempt, row[t].accepted)
    BY <1>1, AgyAlone
  <1>4. child[t].state = "up" => slot = t
    BY DEF AgyInv, AgySlot
  <1>5. row[t].attempt = "missing" \/ row[t].turn = "rejected" => ~child[t].got /\ l \in {"reject", "gone"}
    BY AgyUndecided
  <1>6. /\ row[t].turn # "queued" /\ row[t].turn \notin Agy!Verdicts /\ row[t].attempt \notin Agy!Verdicts
        /\ ~child[t].got /\ (pc[t] \in AgyChildless => child[t].state = "none")
    BY AgyUndecided
  <1>7. /\ l \in AgyChildless => child[t].state = "none"
        /\ l \in AgyHolding \/ child[t].state = "up" => slot' = t
        /\ pc[t] \in AgyUnwritten \cup {"publish"} /\ l \in AgyUnwritten \cup {"publish", "gone"}
        /\ l \in AgyStarted => child[t].state \in {"up", "gone"}
    BY <1>4, <1>6, AgyUndecided
  <1>8. child[t].got = FALSE
    BY AgyUndecided
  <1>9. AgyChildIs(t, child[t].state, FALSE, child[t].said)
    BY <1>2, <1>8
  <1> QED BY <1>3, <1>5, <1>6, <1>7, <1>9, AgyDispatching

\* Every step of the dispatch up to the first byte, and of its rejection.
LEMMA AgyDispatches ==
  ASSUME AgyInv, NEW t \in Agy!AgyTurns,
         \/ Agy!ReleaseTurn(t) \/ Agy!RegisterWorker(t) \/ Agy!AcquireSlot(t) \/ Agy!CheckUnresolved(t)
         \/ Agy!Gates(t) \/ Agy!InsertAttemptAndReserve(t) \/ Agy!StartChild(t) \/ Agy!RecordStartFailed(t)
         \/ Agy!RecordStarted(t) \/ Agy!VerifyInit(t) \/ Agy!WriteFirstByte(t) \/ Agy!AbortKill(t)
         \/ Agy!AbortMissing(t)
  PROVE  AgyInv'
  <1>1. AgyTyped /\ row[t] \in AgyRows
    BY DEF AgyInv, AgyTyped
  <1>2. row' = row => AgyRowIs(t, row[t].turn, row[t].attempt, row[t].accepted)
    BY <1>1, AgyAlone
  <1>3. child' = child /\ child[t].got = FALSE => AgyChildIs(t, child[t].state, FALSE, child[t].said)
    BY <1>1, AgyAlone
  <1>4. child[t].state = "up" => slot = t
    BY DEF AgyInv, AgySlot
  <1>5. AgyPhase(t)
    BY DEF AgyInv, AgyTurnInv
  <1>6. ASSUME Agy!ReleaseTurn(t) PROVE AgyInv'
    <2> DEFINE r == [row[t] EXCEPT !.turn = "running"]
    <2>1. r \in AgyRows /\ r.turn = "running" /\ r.attempt = row[t].attempt /\ r.accepted = row[t].accepted
      BY <1>1 DEF AgyRows
    <2>2. row[t].turn = "queued" /\ Agy!SetRow(t, r) /\ Agy!Goto(t, "register")
          /\ UNCHANGED <<run, cancel, slot, child>>
      BY <1>6 DEF Agy!ReleaseTurn, Agy!Dispatching
    <2> HIDE DEF r
    <2>3. AgyRowIs(t, "running", row[t].attempt, row[t].accepted)
      BY <1>1, <2>1, <2>2, AgyRowSet
    <2>4. pc[t] = "none"
      BY <1>5, <2>2 DEF AgyPhase
    <2>5. "register" \in AgyPcs /\ "register" \in AgyUnwritten /\ "register" \notin AgyHolding
          /\ "register" \notin AgyStarted /\ pc[t] \in AgyUnwritten /\ pc[t] \in AgyChildless
      BY <2>4 DEF AgyPcs, AgyUnwritten, AgyChildless, AgyStarted, AgyHolding
    <2>6. /\ row[t].attempt # "missing" /\ row[t].attempt \notin Agy!Verdicts /\ child[t].got = FALSE
          /\ child[t].state = "none"
      BY <2>4, <2>5, AgyUndecided
    <2>7. "running" \notin Agy!Verdicts
      BY DEF Agy!Verdicts
    <2> QED BY <1>3, <2>2, <2>3, <2>5, <2>6, <2>7, AgyDispatching
  <1>7. ASSUME Agy!RegisterWorker(t) PROVE AgyInv'
    <2>1. PICK l \in {"dispatch", "gone"} : Agy!Goto(t, l)
      BY <1>7 DEF Agy!RegisterWorker
    <2>2. pc[t] = "register" /\ UNCHANGED <<row, run, cancel, child, slot>>
      BY <1>7 DEF Agy!RegisterWorker, Agy!Dispatching
    <2> QED BY <2>1, <2>2, AgyMoves DEF AgyPcs, AgyUnwritten, AgyChildless, AgyStarted, AgyHolding
  <1>8. ASSUME Agy!AcquireSlot(t) PROVE AgyInv'
    <2>1. pc[t] = "dispatch" /\ UNCHANGED <<row, run, cancel, child>>
      BY <1>8 DEF Agy!AcquireSlot, Agy!Dispatching
    <2>2. \/ slot = None /\ slot' = t /\ Agy!Goto(t, "unresolved")
          \/ slot' = slot /\ Agy!Goto(t, "reject")
      BY <1>8 DEF Agy!AcquireSlot
    <2>3. child[t].state = "none"
      BY <1>5, <2>1 DEF AgyPhase, AgyChildless
    <2> QED BY <2>1, <2>2, <2>3, AgyMoves DEF AgyPcs, AgyUnwritten, AgyChildless, AgyStarted, AgyHolding
  <1>9. ASSUME NEW l \in {"gates", "insert"}, pc[t] \in {"unresolved", "gates", "insert"},
               UNCHANGED <<row, run, cancel, child>>,
               (Agy!Goto(t, l) /\ slot' = slot) \/ Agy!Reject(t)
        PROVE  AgyInv'
    <2>1. child[t].state = "none" /\ slot = t
      BY <1>5, <1>9 DEF AgyPhase, AgyChildless, AgyInv, AgySlot, AgyHolding
    <2>2. CASE Agy!Goto(t, l) /\ slot' = slot
      BY <1>9, <2>1, <2>2, AgyMoves DEF AgyPcs, AgyUnwritten, AgyChildless, AgyStarted, AgyHolding
    <2>3. CASE Agy!Reject(t)
      <3>1. slot' \in {None, slot} /\ Agy!Goto(t, "reject")
        BY <2>3 DEF Agy!Reject, Agy!ReleaseSlot
      <3> QED BY <1>9, <2>1, <3>1, AgyMoves DEF AgyPcs, AgyUnwritten, AgyChildless, AgyStarted, AgyHolding
    <2> QED BY <1>9, <2>2, <2>3
  <1>10. ASSUME Agy!CheckUnresolved(t) PROVE AgyInv'
    BY <1>9, <1>10 DEF Agy!CheckUnresolved, Agy!Dispatching
  <1>11. ASSUME Agy!Gates(t) PROVE AgyInv'
    BY <1>9, <1>11 DEF Agy!Gates, Agy!Dispatching
  <1>12. ASSUME Agy!InsertAttemptAndReserve(t) PROVE AgyInv'
    <2>1. pc[t] = "insert" /\ UNCHANGED <<run, cancel, child>>
      BY <1>12 DEF Agy!InsertAttemptAndReserve, Agy!Dispatching
    <2>2. CASE Agy!Reject(t) /\ row' = row
      BY <1>9, <2>1, <2>2
    <2>3. ASSUME /\ Agy!SetRow(t, [row[t] EXCEPT !.attempt = "uncertain", !.launch = "reserved"])
                 /\ Agy!Goto(t, "start") /\ slot' = slot
          PROVE  AgyInv'
      <3> DEFINE r == [row[t] EXCEPT !.attempt = "uncertain", !.launch = "reserved"]
      <3>1. r \in AgyRows /\ r.turn = row[t].turn /\ r.attempt = "uncertain" /\ r.accepted = row[t].accepted
        BY <1>1 DEF AgyRows
      <3>2. Agy!SetRow(t, r)
        BY <2>3
      <3> HIDE DEF r
      <3>3. AgyRowIs(t, row[t].turn, "uncertain", row[t].accepted)
        BY <1>1, <3>1, <3>2, AgyRowSet
      <3>4. /\ row[t].turn \notin Agy!Verdicts \cup {"queued", "rejected"} /\ child[t].got = FALSE
            /\ child[t].state = "none" /\ slot = t
        BY <2>1, AgyUndecided DEF AgyUnwritten, AgyChildless, AgyHolding
      <3>5. "uncertain" \notin Agy!Verdicts
        BY DEF Agy!Verdicts
      <3> QED BY <1>3, <2>1, <2>3, <3>3, <3>4, <3>5, AgyDispatching
          DEF AgyPcs, AgyUnwritten, AgyChildless, AgyStarted
    <2> QED BY <1>12, <2>2, <2>3 DEF Agy!InsertAttemptAndReserve
  <1>13. ASSUME Agy!StartChild(t) PROVE AgyInv'
    <2>1. pc[t] = "start" /\ UNCHANGED <<run, cancel, row, slot>>
      BY <1>13 DEF Agy!StartChild, Agy!Dispatching
    <2>2. CASE Agy!Goto(t, "start_failed") /\ child' = child
      BY <2>1, <2>2, AgyMoves, AgyUndecided
          DEF AgyPcs, AgyUnwritten, AgyChildless, AgyStarted, AgyHolding
    <2>3. ASSUME child' = [child EXCEPT ![t].state = "up"], Agy!Goto(t, "started")
          PROVE  AgyInv'
      <3>1. AgyChildIs(t, "up", FALSE, child[t].said)
        BY <1>1, <2>1, <2>3, AgyChildSet, AgyUndecided DEF AgyUnwritten, AgyChildless
      <3>2. /\ row[t].turn \notin Agy!Verdicts \cup {"queued", "rejected"} /\ slot = t
            /\ row[t].attempt \notin Agy!Verdicts \cup {"missing"}
        BY <2>1, AgyUndecided DEF AgyUnwritten, AgyChildless, AgyHolding
      <3>3. "started" \in AgyPcs /\ "started" \in AgyUnwritten /\ "started" \notin AgyChildless
            /\ pc[t] \in AgyUnwritten
        BY <2>1 DEF AgyUnwritten, AgyChildless, AgyPcs
      <3> QED BY <1>2, <2>1, <2>3, <3>1, <3>2, <3>3, AgyDispatching
    <2> QED BY <1>13, <2>2, <2>3 DEF Agy!StartChild
  <1>14. ASSUME NEW r \in AgyRows, Agy!SetRow(t, r), r.turn = row[t].turn, r.accepted = row[t].accepted,
                r.attempt \in {row[t].attempt, "missing"}, child' = child, UNCHANGED <<run, cancel>>,
                pc[t] \in {"start_failed", "started", "missing"},
                \/ r.attempt = row[t].attempt /\ pc[t] = "started" /\ Agy!Goto(t, "init") /\ slot' = slot
                \/ Agy!Reject(t) /\ child[t].state # "up"
         PROVE  AgyInv'
    <2>1. AgyRowIs(t, row[t].turn, r.attempt, row[t].accepted)
      BY <1>1, <1>14, AgyRowSet
    <2>2. /\ row[t].turn \notin Agy!Verdicts \cup {"queued", "rejected"} /\ slot = t
          /\ row[t].attempt \notin Agy!Verdicts \cup {"missing"} /\ child[t].got = FALSE
      BY <1>14, AgyUndecided DEF AgyUnwritten, AgyChildless, AgyHolding
    <2>3. AgyChildIs(t, child[t].state, FALSE, child[t].said)
      BY <1>3, <1>14, <2>2
    <2>4. r.attempt \notin Agy!Verdicts
      BY <1>14, <2>2 DEF Agy!Verdicts
    <2>5. CASE r.attempt = row[t].attempt /\ pc[t] = "started" /\ Agy!Goto(t, "init") /\ slot' = slot
      <3>1. "init" \in AgyPcs /\ "init" \in AgyUnwritten /\ "init" \notin AgyChildless
            /\ pc[t] \in AgyUnwritten /\ child[t].state \in {"up", "gone"}
        BY <1>5, <2>5 DEF AgyHolding, AgyUnwritten, AgyChildless, AgyStarted, AgyPcs, AgyPhase
      <3> QED BY <1>14, <2>1, <2>2, <2>3, <2>4, <2>5, <3>1, AgyDispatching
    <2>6. ASSUME Agy!Reject(t), child[t].state # "up" PROVE AgyInv'
      <3>1. slot' \in {None, slot} /\ Agy!Goto(t, "reject")
        BY <2>6 DEF Agy!Reject, Agy!ReleaseSlot
      <3>2. "reject" \notin AgyHolding /\ "reject" \notin AgyChildless /\ "reject" \in AgyPcs
            /\ "reject" \in AgyUnwritten /\ "reject" \notin AgyStarted /\ pc[t] \in AgyUnwritten
        BY <1>14 DEF AgyHolding, AgyUnwritten, AgyChildless, AgyStarted, AgyPcs
      <3> QED BY <1>14, <2>1, <2>2, <2>3, <2>4, <2>6, <3>1, <3>2, AgyDispatching
    <2> QED BY <1>14, <2>5, <2>6
  <1>15. ASSUME pc[t] \in {"start_failed", "missing"}, UNCHANGED <<row, run, cancel, child>>,
                Agy!ReleaseSlot(t), Agy!WorkerEnds(t)
         PROVE  AgyInv'
    <2>1. slot' \in {None, slot} /\ Agy!Goto(t, "gone") /\ child[t].state # "up" /\ slot = t
      BY <1>5, <1>15, AgyUndecided
      DEF Agy!WorkerEnds, Agy!ReleaseSlot, AgyPhase, AgyChildless, AgyUnwritten, AgyHolding
    <2> QED BY <1>15, <2>1, AgyMoves DEF AgyPcs, AgyUnwritten, AgyChildless, AgyStarted, AgyHolding
  <1>16. ASSUME Agy!RecordStartFailed(t) PROVE AgyInv'
    <2> DEFINE a == IF row[t].attempt = "uncertain" THEN "missing" ELSE row[t].attempt
               r == [row[t] EXCEPT !.launch = "start_failed", !.attempt = a]
    <2>1. pc[t] = "start_failed" /\ UNCHANGED <<run, cancel, child>>
      BY <1>16 DEF Agy!RecordStartFailed, Agy!Dispatching
    <2>2. \/ Agy!SetRow(t, r) /\ Agy!Reject(t)
          \/ Agy!ReleaseSlot(t) /\ Agy!WorkerEnds(t) /\ row' = row
      BY <1>1, <1>16 DEF Agy!RecordStartFailed, AgyRows
    <2>3. r \in AgyRows /\ r.turn = row[t].turn /\ r.attempt \in {row[t].attempt, "missing"}
          /\ r.accepted = row[t].accepted
      BY <1>1 DEF AgyRows
    <2>4. child[t].state # "up"
      BY <1>5, <2>1 DEF AgyPhase, AgyChildless
    <2> HIDE DEF r
    <2> QED BY <1>14, <1>15, <2>1, <2>2, <2>3, <2>4
  <1>17. ASSUME Agy!RecordStarted(t) PROVE AgyInv'
    <2> DEFINE r == [row[t] EXCEPT !.launch = "started"]
    <2>1. pc[t] = "started" /\ UNCHANGED <<run, cancel, child, slot>>
      BY <1>17 DEF Agy!RecordStarted, Agy!Dispatching
    <2>2. (Agy!SetRow(t, r) /\ Agy!Goto(t, "init")) \/ (Agy!Goto(t, "abort") /\ row' = row)
      BY <1>17 DEF Agy!RecordStarted
    <2>3. r \in AgyRows /\ r.turn = row[t].turn /\ r.attempt = row[t].attempt /\ r.accepted = row[t].accepted
      BY <1>1 DEF AgyRows
    <2> HIDE DEF r
    <2>4. CASE Agy!SetRow(t, r) /\ Agy!Goto(t, "init")
      BY <1>14, <2>1, <2>3, <2>4
    <2>5. CASE Agy!Goto(t, "abort") /\ row' = row
      BY <2>1, <2>5, AgyMoves, AgyUndecided
          DEF AgyPcs, AgyUnwritten, AgyChildless, AgyStarted, AgyHolding
    <2> QED BY <2>2, <2>4, <2>5
  <1>18. ASSUME Agy!VerifyInit(t) PROVE AgyInv'
    <2>1. pc[t] = "init" /\ UNCHANGED <<run, cancel, child, slot, row>>
      BY <1>18 DEF Agy!VerifyInit, Agy!Dispatching
    <2>2. PICK l \in {"write", "abort"} : Agy!Goto(t, l)
      BY <1>18 DEF Agy!VerifyInit
    <2> QED BY <2>1, <2>2, AgyMoves, AgyUndecided
          DEF AgyPcs, AgyUnwritten, AgyChildless, AgyStarted, AgyHolding
  <1>19. ASSUME Agy!WriteFirstByte(t) PROVE AgyInv'
    <2>1. pc[t] = "write" /\ UNCHANGED <<run, cancel, slot, row>>
      BY <1>19 DEF Agy!WriteFirstByte, Agy!Dispatching
    <2>2. CASE Agy!Goto(t, "abort") /\ child' = child
      BY <2>1, <2>2, AgyMoves, AgyUndecided
          DEF AgyPcs, AgyUnwritten, AgyChildless, AgyStarted, AgyHolding
    <2>3. ASSUME child' = [child EXCEPT ![t].got = TRUE], Agy!Goto(t, "publish") PROVE AgyInv'
      <3>1. AgyChildIs(t, child[t].state, TRUE, child[t].said)
        BY <1>1, <2>3, AgyChildSet
      <3>2. /\ row[t].turn \notin Agy!Verdicts \cup {"queued", "rejected"} /\ slot = t
            /\ row[t].attempt \notin Agy!Verdicts \cup {"missing"}
        BY <2>1, AgyUndecided DEF AgyUnwritten, AgyChildless, AgyHolding
      <3>3. "publish" \in AgyPcs /\ "publish" \notin AgyUnwritten /\ "publish" \notin AgyChildless
            /\ pc[t] \in AgyUnwritten /\ child[t].state \in {"up", "gone"}
        BY <1>5, <2>1 DEF AgyUnwritten, AgyChildless, AgyStarted, AgyPcs, AgyPhase
      <3> QED BY <1>2, <2>1, <2>3, <3>1, <3>2, <3>3, AgyDispatching
    <2> QED BY <1>19, <2>2, <2>3 DEF Agy!WriteFirstByte
  <1>20. ASSUME Agy!AbortKill(t) PROVE AgyInv'
    <2>1. pc[t] = "abort" /\ UNCHANGED <<run, cancel, slot>> /\ Agy!Goto(t, "missing")
      BY <1>20 DEF Agy!AbortKill, Agy!Dispatching
    <2>2. AgyRowIs(t, row[t].turn, row[t].attempt, row[t].accepted)
      BY <1>1, <1>2, <1>20, AgyRowSet DEF Agy!AbortKill
    <2>3. AgyChildIs(t, "gone", FALSE, child[t].said)
      BY <1>1, <1>20, <2>1, AgyChildSet, AgyUndecided DEF Agy!AbortKill, AgyUnwritten
    <2>4. /\ row[t].turn \notin Agy!Verdicts \cup {"queued", "rejected"} /\ slot = t
          /\ row[t].attempt \notin Agy!Verdicts \cup {"missing"}
      BY <2>1, AgyUndecided DEF AgyUnwritten, AgyChildless, AgyHolding
    <2>5. "missing" \in AgyPcs /\ "missing" \in AgyUnwritten /\ "missing" \notin AgyChildless
          /\ "missing" \notin AgyStarted /\ pc[t] \in AgyUnwritten
      BY <2>1 DEF AgyUnwritten, AgyChildless, AgyStarted, AgyPcs
    <2> QED BY <2>1, <2>2, <2>3, <2>4, <2>5, AgyDispatching
  <1>21. ASSUME Agy!AbortMissing(t) PROVE AgyInv'
    <2> DEFINE r == [row[t] EXCEPT !.attempt = "missing"]
    <2>1. pc[t] = "missing" /\ UNCHANGED <<run, cancel, child>>
      BY <1>21 DEF Agy!AbortMissing, Agy!Dispatching
    <2>2. \/ Agy!SetRow(t, r) /\ Agy!Reject(t)
          \/ Agy!ReleaseSlot(t) /\ Agy!WorkerEnds(t) /\ row' = row
      BY <1>21 DEF Agy!AbortMissing
    <2>3. r \in AgyRows /\ r.turn = row[t].turn /\ r.attempt = "missing" /\ r.accepted = row[t].accepted
      BY <1>1 DEF AgyRows
    <2>4. child[t].state # "up"
      BY <1>5, <2>1 DEF AgyPhase
    <2> HIDE DEF r
    <2> QED BY <1>14, <1>15, <2>1, <2>2, <2>3, <2>4
  <1> QED
    BY <1>6, <1>7, <1>8, <1>10, <1>11, <1>12, <1>13, <1>16, <1>17, <1>18, <1>19, <1>20, <1>21

\* A turn's program counter after a step.
AgyPcIs(t, l) ==
  /\ pc' \in [Agy!AgyTurns -> AgyPcs]
  /\ pc'[t] = l
  /\ \A u \in Agy!AgyTurns \ {t} : pc'[u] = pc[u]

\* The records of one turn after a step, whatever they are, leave the others alone.
LEMMA AgyOnly ==
  ASSUME AgyInv, NEW t \in Agy!AgyTurns, NEW l, NEW tu, NEW at, NEW ra, NEW p, NEW ac, NEW re, NEW bo,
         NEW f, NEW x, NEW h, NEW s, NEW g, NEW d,
         AgyPcIs(t, l), AgyRowIs(t, tu, at, ra), AgyRunIs(t, p, ac, re, bo), AgyCancelIs(t, f, x, h),
         AgyChildIs(t, s, g, d), slot' \in {slot, t, None}
  PROVE  OnlyAgy(t) /\ AgyTyped'
  <1>1. OnlyAgy(t)
    BY DEF OnlyAgy, AgyPcIs, AgyRowIs, AgyRunIs, AgyCancelIs, AgyChildIs
  <1>2. AgyTyped'
    BY DEF AgyInv, AgyTyped, AgyPcIs, AgyRowIs, AgyRunIs, AgyCancelIs, AgyChildIs
  <1> QED BY <1>1, <1>2

\* What is left alone.
LEMMA AgySame ==
  ASSUME AgyInv, NEW t \in Agy!AgyTurns
  PROVE  /\ pc' = pc => AgyPcIs(t, pc[t])
         /\ row' = row => AgyRowIs(t, row[t].turn, row[t].attempt, row[t].accepted)
         /\ run' = run => AgyRunIs(t, run[t].pc, run[t].accepted, run[t].result, run[t].bound)
         /\ cancel' = cancel => AgyCancelIs(t, cancel[t].flag, cancel[t].sending, cancel[t].grace)
         /\ child' = child => AgyChildIs(t, child[t].state, child[t].got, child[t].said)
  BY DEF AgyInv, AgyTyped, AgyPcIs, AgyRowIs, AgyRunIs, AgyCancelIs, AgyChildIs

\* The run is published and read from: what the child has said is nothing yet.
LEMMA AgyPublish == ASSUME AgyInv, NEW t \in Agy!AgyTurns, Agy!PublishRun(t) PROVE AgyInv'
  <1>1. pc[t] = "publish" /\ run' = [run EXCEPT ![t].pc = "read"] /\ UNCHANGED <<row, slot, cancel, child>>
    BY DEF Agy!PublishRun
  <1>2. PICK l \in {"collect", "gone"} : Agy!Goto(t, l)
    BY DEF Agy!PublishRun, Agy!WorkerEnds
  <1>3. AgyTyped /\ AgyTurnInv(t) /\ AgySlot(t)
    BY DEF AgyInv
  <1>4. AgyRunIs(t, "read", run[t].accepted, run[t].result, run[t].bound)
    BY <1>1, <1>3, AgyRunSet
  <1>5. AgyPcIs(t, l)
    BY <1>2, <1>3, AgyPcSet DEF AgyPcIs, AgyPcs
  <1>6. OnlyAgy(t) /\ AgyTyped'
    BY <1>1, <1>4, <1>5, AgyOnly, AgySame
  <1>7. run[t] = Agy!NoRun /\ child[t].said = {}
    BY <1>1, <1>3 DEF AgyTurnInv, AgyPhase
  <1>8. /\ run[t].pc = "none" /\ run'[t].pc = "read" /\ run'[t].accepted = "no" /\ run'[t].result = None
        /\ run'[t].bound = FALSE
    BY <1>4, <1>7 DEF AgyRunIs, Agy!NoRun
  <1>9. /\ row[t].turn \notin Agy!Verdicts \cup {"queued", "rejected"} /\ slot = t
        /\ row[t].attempt \notin Agy!Verdicts \cup {"missing"}
    BY <1>1, AgyUndecided DEF AgyUnwritten, AgyChildless, AgyHolding
  <1>10. cancel[t] = Agy!NoCancel /\ cancel[t].flag = FALSE
    BY <1>3, <1>8 DEF AgyTurnInv, AgyBounded, Agy!Live, Agy!NoCancel
  <1>11. AgyPhase(t)'
    <2>1. child[t].state \in {"up", "gone"}
      BY <1>1, <1>3 DEF AgyTurnInv, AgyPhase, AgyStarted
    <2> QED BY <1>1, <1>2, <1>5, <1>8, <1>9, <2>1
            DEF AgyPhase, AgyPcIs, AgyChildless, AgyUnwritten, AgyStarted, Agy!Verdicts
  <1>12. AgyRejection(t)'
    BY <1>1, <1>9 DEF AgyRejection
  <1>13. AgyBounded(t)'
    BY <1>1, <1>8, <1>10 DEF AgyBounded, Agy!Live
  <1>14. AgyKnows(t)'
    BY <1>1, <1>7, <1>8, AgyNone DEF AgyKnows
  <1>15. AgyVerdict(t)'
    BY <1>1, <1>8, <1>9 DEF AgyVerdict, Agy!Verdicts
  <1>16. AgySlot(t)'
    BY <1>1, <1>9 DEF AgySlot
  <1> QED BY <1>1, <1>6, <1>11, <1>12, <1>13, <1>14, <1>15, <1>16, AgyStep DEF AgyTurnInv

\* The turn's outcome is recorded, or it is not: the attempt, the run and the child stay.
LEMMA AgyOutcome ==
  ASSUME AgyInv, NEW t \in Agy!AgyTurns, NEW tu, NEW l, UNCHANGED <<slot, run, cancel, child>>,
         AgyRowIs(t, tu, row[t].attempt, row[t].accepted), AgyPcIs(t, l),
         \/ tu \in {row[t].turn, "abandoned"}
         \/ tu \in Agy!Verdicts /\ row[t].attempt = tu
         \/ tu = "rejected" /\ row[t].attempt = "missing",
         \/ l = pc[t]
         \/ pc[t] = "collect" /\ l = "gone"
  PROVE  AgyInv'
  <1>1. OnlyAgy(t) /\ AgyTyped'
    BY AgyOnly, AgySame
  <1>2. AgyTurnInv(t) /\ AgySlot(t)
    BY DEF AgyInv
  <1>3. row'[t].turn = tu /\ row'[t].attempt = row[t].attempt /\ row'[t].accepted = row[t].accepted
        /\ pc'[t] = l
    BY DEF AgyRowIs, AgyPcIs
  <1>4. AgyPhase(t)'
    <2>1. tu = "queued" => row[t].turn = "queued" /\ l = pc[t]
      BY <1>2 DEF AgyTurnInv, AgyPhase, Agy!Verdicts
    <2> QED BY <1>2, <1>3, <2>1 DEF AgyTurnInv, AgyPhase, AgyChildless, AgyUnwritten, AgyStarted
  <1>5. AgyRejection(t)'
    <2>1. tu = "rejected" => row[t].turn = "rejected" \/ row[t].attempt = "missing"
      BY DEF Agy!Verdicts
    <2> QED BY <1>2, <1>3, <2>1 DEF AgyTurnInv, AgyRejection
  <1>6. AgyBounded(t)' /\ AgyKnows(t)'
    BY <1>2, <1>3 DEF AgyTurnInv, AgyBounded, AgyKnows, Agy!Live
  <1>7. AgyVerdict(t)'
    <2>1. tu \in Agy!Verdicts => row[t].attempt = tu
      BY <1>2 DEF AgyTurnInv, AgyVerdict, Agy!Verdicts
    <2> QED BY <1>2, <1>3, <2>1 DEF AgyTurnInv, AgyVerdict
  <1>8. AgySlot(t)'
    BY <1>2, <1>3 DEF AgySlot, AgyHolding
  <1> QED BY <1>1, <1>4, <1>5, <1>6, <1>7, <1>8, AgyStep DEF AgyTurnInv

\* Recording an outcome changes the turn only while it is running.
LEMMA AgyRecordIs ==
  ASSUME AgyInv, NEW t \in Agy!AgyTurns, NEW v \in {"rejected"} \cup Agy!Verdicts, Agy!Record(t, v)
  PROVE  \/ AgyRowIs(t, row[t].turn, row[t].attempt, row[t].accepted)
         \/ AgyRowIs(t, v, row[t].attempt, row[t].accepted)
  <1> DEFINE tu == IF row[t].turn = "running" THEN v ELSE row[t].turn
             r == [row[t] EXCEPT !.turn = tu]
  <1>1. row[t] \in AgyRows /\ AgyTyped
    BY DEF AgyInv, AgyTyped
  <1>2. Agy!SetRow(t, r)
    BY <1>1 DEF Agy!Record, AgyRows
  <1>3. r \in AgyRows /\ r.turn = tu /\ r.attempt = row[t].attempt /\ r.accepted = row[t].accepted
    BY <1>1 DEF AgyRows
  <1> HIDE DEF r
  <1>4. AgyRowIs(t, tu, row[t].attempt, row[t].accepted)
    BY <1>1, <1>2, <1>3, AgyRowSet
  <1> QED BY <1>4

\* What is evidence.
LEMMA AgyEvidence ==
  ASSUME NEW t \in Agy!AgyTurns, Agy!Evidence(t) # None
  PROVE  \/ Agy!Evidence(t) \in Agy!Verdicts /\ row[t].attempt = Agy!Evidence(t)
         \/ Agy!Evidence(t) = "rejected" /\ row[t].attempt = "missing"
  BY DEF Agy!Evidence, Agy!Verdicts

\* The supervisor, the recovery command and the disposition.
LEMMA AgyService == ASSUME AgyInv, NEW t \in Agy!AgyTurns, Agy!ServiceStep(t) PROVE AgyInv'
  <1>1. AgyTyped /\ row[t] \in AgyRows
    BY DEF AgyInv, AgyTyped
  <1>2. row' = row => AgyRowIs(t, row[t].turn, row[t].attempt, row[t].accepted)
    BY AgySame
  <1>3. ASSUME Agy!RecordRejected(t) PROVE AgyInv'
    <2>1. pc[t] = "reject" /\ Agy!Goto(t, "gone") /\ UNCHANGED <<slot, run, cancel, child>>
          /\ (Agy!Record(t, "rejected") \/ row' = row)
      BY <1>3 DEF Agy!RecordRejected, Agy!WorkerEnds, Agy!Observing
    <2>2. PICK tu \in {row[t].turn, "rejected"} : AgyRowIs(t, tu, row[t].attempt, row[t].accepted)
      BY <1>2, <2>1, AgyRecordIs
    <2>3. /\ row[t].turn \notin Agy!Verdicts \cup {"queued"} /\ row[t].attempt \notin Agy!Verdicts
          /\ child[t].got = FALSE
      BY <2>1, AgyUndecided DEF AgyUnwritten
    <2>4. AgyChildIs(t, child[t].state, FALSE, child[t].said)
      BY <2>1, <2>3, AgySame
    <2>5. tu \notin Agy!Verdicts /\ tu # "queued"
      BY <2>2, <2>3 DEF Agy!Verdicts
    <2>6. child[t].state = "up" => slot = t
      BY DEF AgyInv, AgySlot
    <2>7. /\ "gone" \in AgyPcs /\ "gone" \notin AgyUnwritten /\ "gone" \notin AgyChildless
          /\ "gone" \notin AgyStarted /\ "gone" \notin AgyHolding /\ pc[t] \in AgyUnwritten
      BY <2>1 DEF AgyPcs, AgyUnwritten, AgyChildless, AgyStarted, AgyHolding
    <2> QED BY <2>1, <2>2, <2>3, <2>4, <2>5, <2>6, <2>7, AgyDispatching
  <1>4. ASSUME Agy!Evidence(t) # None, Agy!Record(t, Agy!Evidence(t)), UNCHANGED <<slot, run, cancel, child>>,
               NEW l, AgyPcIs(t, l), l = pc[t] \/ (pc[t] = "collect" /\ l = "gone")
        PROVE  AgyInv'
    <2>1. PICK v : v = Agy!Evidence(t)
      OBVIOUS
    <2>2. v \in {"rejected"} \cup Agy!Verdicts /\ Agy!Record(t, v)
      BY <1>4, <2>1, AgyEvidence
    <2>3. PICK tu \in {row[t].turn, v} : AgyRowIs(t, tu, row[t].attempt, row[t].accepted)
      BY <2>2, AgyRecordIs
    <2>4. \/ tu \in {row[t].turn, "abandoned"}
          \/ tu \in Agy!Verdicts /\ row[t].attempt = tu
          \/ tu = "rejected" /\ row[t].attempt = "missing"
      BY <1>4, <2>1, <2>3, AgyEvidence
    <2> QED BY <1>4, <2>3, <2>4, AgyOutcome
  <1>5. ASSUME Agy!CollectUntilTerminal(t) PROVE AgyInv'
    <2>1. pc[t] = "collect" /\ AgyPcIs(t, "gone") /\ UNCHANGED <<slot, run, cancel, child>>
      BY <1>1, <1>5, AgyPcSet DEF Agy!CollectUntilTerminal, Agy!WorkerEnds, Agy!Observing, AgyPcIs, AgyPcs
    <2>2. CASE row' = row
      BY <1>2, <2>1, <2>2, AgyOutcome
    <2>3. CASE Agy!Evidence(t) # None /\ Agy!Record(t, Agy!Evidence(t))
      BY <1>4, <2>1, <2>3
    <2> QED BY <1>5, <2>2, <2>3 DEF Agy!CollectUntilTerminal
  <1>6. ASSUME Agy!Reconcile(t) PROVE AgyInv'
    BY <1>4, <1>6, AgySame DEF Agy!Reconcile, Agy!Observing
  <1>7. ASSUME Agy!DisposeBeforeWorker(t) PROVE AgyInv'
    BY <1>2, <1>7, AgyOutcome, AgySame DEF Agy!DisposeBeforeWorker, Agy!Observing
  <1>8. ASSUME Agy!ResolveTurnUncertainty(t) PROVE AgyInv'
    <2> DEFINE r == [row[t] EXCEPT !.disposed = TRUE, !.turn = "abandoned"]
    <2>1. Agy!SetRow(t, r) /\ UNCHANGED <<slot, run, cancel, child, pc>>
      BY <1>8 DEF Agy!ResolveTurnUncertainty, Agy!Observing
    <2>2. /\ r \in AgyRows /\ r.turn = "abandoned" /\ r.attempt = row[t].attempt
          /\ r.accepted = row[t].accepted
      BY <1>1 DEF AgyRows
    <2> HIDE DEF r
    <2>3. AgyRowIs(t, "abandoned", row[t].attempt, row[t].accepted)
      BY <1>1, <2>1, <2>2, AgyRowSet
    <2> QED BY <2>1, <2>3, AgyOutcome, AgySame
  <1> QED BY <1>3, <1>5, <1>6, <1>7, <1>8 DEF Agy!ServiceStep

\* Where a turn stands once it has a run.
LEMMA AgyRunning ==
  ASSUME AgyInv, NEW t \in Agy!AgyTurns, run[t].pc # "none"
  PROVE  /\ pc[t] \in {"collect", "gone"} /\ row[t].turn # "queued"
         /\ run[t].pc \in {"read", "settle"} \cup Agy!Verdicts =>
              row[t].attempt \notin Agy!Verdicts /\ row[t].turn \notin Agy!Verdicts
         /\ run[t].pc \in {"read", "settle"} => child[t].state \in {"up", "gone"}
  <1>1. AgyTurnInv(t) /\ pc[t] \in AgyPcs
    BY DEF AgyInv, AgyTyped
  <1>2. pc[t] \notin AgyUnwritten \cup {"publish"}
    BY <1>1 DEF AgyTurnInv, AgyPhase, Agy!NoRun
  <1>3. pc[t] \in {"collect", "gone"}
    BY <1>1, <1>2 DEF AgyPcs, AgyUnwritten, AgyChildless
  <1>4. row[t].turn # "queued"
    BY <1>1, <1>3 DEF AgyTurnInv, AgyPhase
  <1>5. ASSUME run[t].pc \in {"read", "settle"} \cup Agy!Verdicts
        PROVE  row[t].attempt \notin Agy!Verdicts /\ row[t].turn \notin Agy!Verdicts
    BY <1>1, <1>5 DEF AgyTurnInv, AgyVerdict, Agy!Verdicts
  <1>6. run[t].pc \in {"read", "settle"} => child[t].state \in {"up", "gone"}
    BY <1>1 DEF AgyTurnInv, AgyPhase
  <1> QED BY <1>3, <1>4, <1>5, <1>6

\* The child has said one more event.
LEMMA AgySaid ==
  ASSUME AgyTyped, NEW t \in Agy!AgyTurns, NEW e \in Agy!Events, NEW k \in BOOLEAN, Agy!Said(t, e, k)
  PROVE  \E s \in {"gone", child[t].state}, d \in {{"bad"}, child[t].said \cup {e}} :
           /\ AgyChildIs(t, s, child[t].got, d)
           /\ k => s = "gone"
           /\ run[t].result # None \/ e \in {"foreign", "other", "malformed"} => d = {"bad"}
           /\ run[t].result = None /\ e \notin {"foreign", "other", "malformed"} /\ "bad" \notin child[t].said
                => d = child[t].said \cup {e}
  <1> DEFINE bad == run[t].result # None \/ e \in {"foreign", "other", "malformed"} \/ "bad" \in child[t].said
             d == IF bad THEN {"bad"} ELSE child[t].said \cup {e}
             s == IF k THEN "gone" ELSE child[t].state
  <1>1. child[t] \in AgyChildren /\ child \in [Agy!AgyTurns -> AgyChildren]
    BY DEF AgyTyped
  <1>2. child' = [child EXCEPT ![t].said = d, ![t].state = s]
    BY <1>1 DEF Agy!Said
  <1>3. d \in SUBSET ({"bad", "accept"} \cup Agy!Results) /\ s \in {"none", "up", "gone", "orphan"}
    BY <1>1 DEF AgyChildren, Agy!Events, Agy!Results
  <1>4. /\ s \in {"gone", child[t].state} /\ d \in {{"bad"}, child[t].said \cup {e}}
        /\ k => s = "gone"
        /\ run[t].result # None \/ e \in {"foreign", "other", "malformed"} => d = {"bad"}
        /\ run[t].result = None /\ e \notin {"foreign", "other", "malformed"} /\ "bad" \notin child[t].said
             => d = child[t].said \cup {e}
    OBVIOUS
  <1> HIDE DEF d, s
  <1>5. AgyChildIs(t, s, child[t].got, d)
    BY <1>2, <1>3, AgyChildSet
  <1> QED BY <1>4, <1>5

\* An acceptance the run counts on is recorded.
Recorded(ac, ra) == ac = "yes" => ra

\* A step of the run while it reads, or settles: the rest of the turn stays.
LEMMA AgyReads ==
  ASSUME AgyInv, NEW t \in Agy!AgyTurns, NEW ra, NEW p, NEW ac, NEW re, NEW s, NEW d,
         run[t].pc = "read", UNCHANGED <<pc, slot, cancel>>, p \in {"read", "settle"},
         AgyRowIs(t, row[t].turn, row[t].attempt, ra), AgyRunIs(t, p, ac, re, run[t].bound),
         AgyChildIs(t, s, child[t].got, d), s \in {"gone", child[t].state},
         re = None => "bad" \notin d /\ d \cap Agy!Results = {},
         re \in Agy!Results => "bad" \notin d /\ d \cap Agy!Results = {re},
         "accept" \in d => ac # "no",
         Recorded(ac, ra)
  PROVE  AgyInv'
  <1>1. OnlyAgy(t) /\ AgyTyped'
    BY AgyOnly, AgySame
  <1>2. AgyTurnInv(t) /\ AgySlot(t)
    BY DEF AgyInv
  <1>3. /\ row'[t].turn = row[t].turn /\ row'[t].attempt = row[t].attempt /\ row'[t].accepted = ra
        /\ run'[t].pc = p /\ run'[t].accepted = ac /\ run'[t].result = re /\ run'[t].bound = run[t].bound
        /\ child'[t].state = s /\ child'[t].got = child[t].got /\ child'[t].said = d
    BY DEF AgyRowIs, AgyRunIs, AgyChildIs
  <1>4. /\ pc[t] \in {"collect", "gone"} /\ row[t].turn # "queued"
        /\ row[t].attempt \notin Agy!Verdicts /\ row[t].turn \notin Agy!Verdicts
        /\ child[t].state \in {"up", "gone"}
    BY AgyRunning
  <1>5. p \notin Agy!Verdicts \cup {"finish", "none", "over"}
    BY DEF Agy!Verdicts
  <1>6. AgyPhase(t)'
    BY <1>3, <1>4, <1>5 DEF AgyPhase, AgyChildless, AgyUnwritten, AgyStarted
  <1>7. AgyRejection(t)'
    BY <1>2, <1>3 DEF AgyTurnInv, AgyRejection
  <1>8. AgyBounded(t)'
    BY <1>2, <1>3, <1>5 DEF AgyTurnInv, AgyBounded, Agy!Live
  <1>9. AgyKnows(t)'
    BY <1>3 DEF AgyKnows, Recorded
  <1>10. AgyVerdict(t)'
    BY <1>3, <1>4, <1>5 DEF AgyVerdict
  <1>11. AgySlot(t)'
    BY <1>2, <1>3 DEF AgySlot
  <1> QED BY <1>1, <1>6, <1>7, <1>8, <1>9, <1>10, <1>11, AgyStep DEF AgyTurnInv

\* One event is read.
LEMMA AgyReadEvent ==
  ASSUME AgyInv, NEW t \in Agy!AgyTurns, NEW e \in Agy!Events, Agy!ReadEvent(t, e)
  PROVE  AgyInv'
  <1>1. AgyTyped /\ AgyKnows(t) /\ run[t] \in AgyRuns
    BY DEF AgyInv, AgyTyped, AgyTurnInv
  <1>2. run[t].pc = "read" /\ run[t].result # "drift" /\ e # "malformed" /\ UNCHANGED <<pc, slot, cancel>>
        /\ Agy!Said(t, e, Agy!Drifts(run[t], e))
    BY DEF Agy!ReadEvent, Agy!Running
  <1>3. Agy!Drifts(run[t], e) \in BOOLEAN
    BY DEF Agy!Drifts
  <1>4. PICK s \in {"gone", child[t].state}, d \in {{"bad"}, child[t].said \cup {e}} :
           /\ AgyChildIs(t, s, child[t].got, d)
           /\ run[t].result # None \/ e \in {"foreign", "other", "malformed"} => d = {"bad"}
           /\ run[t].result = None /\ e \notin {"foreign", "other", "malformed"} /\ "bad" \notin child[t].said
                => d = child[t].said \cup {e}
    BY <1>1, <1>2, <1>3, AgySaid
  <1>5. row' = row => AgyRowIs(t, row[t].turn, row[t].attempt, row[t].accepted)
    BY AgySame
  <1>6. /\ run[t].result = None => "bad" \notin child[t].said /\ child[t].said \cap Agy!Results = {}
        /\ "accept" \in child[t].said => run[t].accepted # "no"
        /\ Recorded(run[t].accepted, row[t].accepted)
    BY <1>1, <1>2 DEF AgyKnows, Recorded
  <1>7. ASSUME Agy!Drifts(run[t], e), run' = [run EXCEPT ![t].result = "drift"], row' = row PROVE AgyInv'
    <2>1. AgyRunIs(t, "read", run[t].accepted, "drift", run[t].bound)
      BY <1>1, <1>2, <1>7, AgyRunSet
    <2>2. d = {"bad"}
      BY <1>4, <1>7 DEF Agy!Drifts
    <2>3. "drift" \notin Agy!Results \cup {None} /\ "accept" \notin d
      BY <2>2, AgyNone DEF Agy!Results
    <2> QED BY <1>2, <1>4, <1>5, <1>6, <1>7, <2>1, <2>3, AgyReads
  <1>8. ASSUME ~Agy!Drifts(run[t], e)
        PROVE  /\ run[t].result = None /\ d = child[t].said \cup {e} /\ "bad" \notin d
               /\ e = "accept" => d \cap Agy!Results = {}
               /\ e \in Agy!Results => d \cap Agy!Results = {e} /\ e # "accept"
    <2>1. run[t].result = None /\ e \notin {"foreign", "other", "malformed"}
      BY <1>2, <1>8 DEF Agy!Drifts
    <2>2. d = child[t].said \cup {e} /\ e # "bad"
      BY <1>4, <1>6, <2>1 DEF Agy!Events
    <2> QED BY <1>6, <2>1, <2>2 DEF Agy!Results
  <1>9. ASSUME ~Agy!Drifts(run[t], e), e = "accept", run[t].accepted = "no",
               \/ row' = [row EXCEPT ![t].accepted = TRUE] /\ run' = [run EXCEPT ![t].accepted = "yes"]
               \/ run' = [run EXCEPT ![t].accepted = "error"] /\ row' = row
        PROVE  AgyInv'
    <2>1. run[t].result = None /\ "bad" \notin d /\ d \cap Agy!Results = {} /\ None \notin Agy!Results
      BY <1>8, <1>9, AgyNone
    <2>2. CASE row' = [row EXCEPT ![t].accepted = TRUE] /\ run' = [run EXCEPT ![t].accepted = "yes"]
      <3>1. AgyRunIs(t, "read", "yes", None, run[t].bound)
        BY <1>1, <1>2, <2>1, <2>2, AgyRunSet
      <3>2. AgyRowIs(t, row[t].turn, row[t].attempt, TRUE)
        BY <1>1, <2>2, AgyRowSet
      <3>3. Recorded("yes", TRUE)
        BY DEF Recorded
      <3> QED BY <1>2, <1>4, <2>1, <3>1, <3>2, <3>3, AgyReads
    <2>3. CASE run' = [run EXCEPT ![t].accepted = "error"] /\ row' = row
      <3>1. AgyRunIs(t, "read", "error", None, run[t].bound)
        BY <1>1, <1>2, <2>1, <2>3, AgyRunSet
      <3>2. Recorded("error", row[t].accepted)
        BY DEF Recorded
      <3> QED BY <1>2, <1>4, <1>5, <2>1, <2>3, <3>1, <3>2, AgyReads
    <2> QED BY <1>9, <2>2, <2>3
  <1>10. ASSUME ~Agy!Drifts(run[t], e), e = "accept", run[t].accepted # "no", UNCHANGED <<row, run>>
         PROVE  AgyInv'
    <2>1. run[t].result = None /\ "bad" \notin d /\ d \cap Agy!Results = {} /\ None \notin Agy!Results
      BY <1>8, <1>10, AgyNone
    <2>2. AgyRunIs(t, "read", run[t].accepted, None, run[t].bound)
      BY <1>2, <1>10, <2>1, AgySame
    <2> QED BY <1>2, <1>4, <1>5, <1>6, <1>10, <2>1, <2>2, AgyReads
  <1>11. ASSUME ~Agy!Drifts(run[t], e), e \in Agy!Results, run' = [run EXCEPT ![t].result = e], row' = row
         PROVE  AgyInv'
    <2>1. "bad" \notin d /\ d \cap Agy!Results = {e} /\ None \notin Agy!Results
          /\ ("accept" \in d => run[t].accepted # "no")
      BY <1>6, <1>8, <1>11, AgyNone
    <2>2. AgyRunIs(t, "read", run[t].accepted, e, run[t].bound)
      BY <1>1, <1>2, <1>11, AgyRunSet
    <2> QED BY <1>2, <1>4, <1>5, <1>6, <1>11, <2>1, <2>2, AgyReads
  <1> QED BY <1>7, <1>9, <1>10, <1>11 DEF Agy!ReadEvent

\* The reading ends: at an undecodable line, or with stdout.
LEMMA AgyReadsEnd ==
  ASSUME AgyInv, NEW t \in Agy!AgyTurns, Agy!ReadMalformed(t) \/ Agy!ReadEnd(t)
  PROVE  AgyInv'
  <1>1. AgyTyped /\ AgyKnows(t) /\ run[t] \in AgyRuns
    BY DEF AgyInv, AgyTyped, AgyTurnInv
  <1>2. /\ run[t].result = None => "bad" \notin child[t].said /\ child[t].said \cap Agy!Results = {}
        /\ run[t].result \in Agy!Results =>
             "bad" \notin child[t].said /\ child[t].said \cap Agy!Results = {run[t].result}
        /\ "accept" \in child[t].said => run[t].accepted # "no"
        /\ Recorded(run[t].accepted, row[t].accepted)
        /\ run[t].pc = "read"
    BY <1>1 DEF AgyKnows, Recorded, Agy!ReadMalformed, Agy!ReadEnd
  <1>3. AgyRowIs(t, row[t].turn, row[t].attempt, row[t].accepted) /\ UNCHANGED <<pc, slot, cancel>>
    BY AgySame DEF Agy!ReadMalformed, Agy!ReadEnd, Agy!Running
  <1>4. "drift" \notin Agy!Results \cup {None}
    BY AgyNone DEF Agy!Results
  <1>5. ASSUME Agy!ReadMalformed(t) PROVE AgyInv'
    <2>1. AgyRunIs(t, "settle", run[t].accepted, "drift", run[t].bound)
      BY <1>1, <1>5, AgyRunSet DEF Agy!ReadMalformed
    <2>2. "malformed" \in Agy!Events /\ Agy!Said(t, "malformed", TRUE)
      BY <1>5 DEF Agy!Events, Agy!ReadMalformed
    <2>3. AgyChildIs(t, "gone", child[t].got, {"bad"})
      BY <1>1, <2>2, AgySaid
    <2> QED BY <1>2, <1>3, <1>4, <2>1, <2>3, AgyReads
  <1>6. ASSUME Agy!ReadEnd(t) PROVE AgyInv'
    <2>1. PICK e \in {run[t].result, "drift"} : run' = [run EXCEPT ![t].pc = "settle", ![t].result = e]
      BY <1>6 DEF Agy!ReadEnd
    <2>2. AgyRunIs(t, "settle", run[t].accepted, e, run[t].bound)
      BY <1>1, <2>1, AgyRunSet DEF AgyRuns
    <2>3. AgyChildIs(t, child[t].state, child[t].got, child[t].said)
      BY <1>6, AgySame DEF Agy!ReadEnd
    <2>4. /\ e = None => "bad" \notin child[t].said /\ child[t].said \cap Agy!Results = {}
          /\ e \in Agy!Results => "bad" \notin child[t].said /\ child[t].said \cap Agy!Results = {e}
      BY <1>2, <1>4, <2>1
    <2> QED BY <1>2, <1>3, <2>2, <2>3, <2>4, AgyReads
  <1> QED BY <1>5, <1>6

\* A run that has settled moves on: nothing of the cancellation, the dispatch or the slot changes.
LEMMA AgyConcludes ==
  ASSUME AgyInv, NEW t \in Agy!AgyTurns, NEW at, NEW p,
         run[t].pc \in {"settle"} \cup Agy!Verdicts, UNCHANGED <<pc, slot, cancel>>,
         p \in Agy!Verdicts \cup {"finish"},
         AgyRowIs(t, row[t].turn, at, row[t].accepted),
         AgyRunIs(t, p, run[t].accepted, run[t].result, run[t].bound),
         AgyChildIs(t, "gone", child[t].got, child[t].said),
         at = row[t].attempt \/ at \in Agy!Verdicts,
         p \in Agy!Verdicts => Backed("gone", child[t].said, row[t].accepted, p) /\ at = row[t].attempt,
         at \in Agy!Verdicts => Backed("gone", child[t].said, row[t].accepted, at)
  PROVE  AgyInv'
  <1>1. OnlyAgy(t) /\ AgyTyped'
    BY AgyOnly, AgySame
  <1>2. AgyTurnInv(t) /\ AgySlot(t)
    BY DEF AgyInv
  <1>3. /\ row'[t].turn = row[t].turn /\ row'[t].attempt = at /\ row'[t].accepted = row[t].accepted
        /\ run'[t].pc = p /\ run'[t].bound = run[t].bound
        /\ child'[t].state = "gone" /\ child'[t].got = child[t].got /\ child'[t].said = child[t].said
    BY DEF AgyRowIs, AgyRunIs, AgyChildIs
  <1>4. /\ pc[t] \in {"collect", "gone"} /\ row[t].turn # "queued"
        /\ row[t].attempt \notin Agy!Verdicts /\ row[t].turn \notin Agy!Verdicts
    BY AgyRunning DEF Agy!Verdicts
  <1>5. p \notin {"none", "over", "read", "settle"} /\ "missing" \notin Agy!Verdicts
        /\ run[t].pc \notin {"none", "over"}
    BY DEF Agy!Verdicts
  <1>6. AgyPhase(t)'
    BY <1>3, <1>4, <1>5 DEF AgyPhase, AgyChildless, AgyUnwritten, AgyStarted
  <1>7. AgyRejection(t)'
    BY <1>2, <1>3, <1>5 DEF AgyTurnInv, AgyRejection
  <1>8. AgyBounded(t)'
    BY <1>2, <1>3, <1>5 DEF AgyTurnInv, AgyBounded, Agy!Live
  <1>9. AgyKnows(t)'
    BY <1>3, <1>5 DEF AgyKnows
  <1>10. AgyVerdict(t)'
    <2>1. at \in Agy!Verdicts => p = "finish"
      BY <1>4
    <2> QED BY <1>3, <1>4, <2>1 DEF AgyVerdict
  <1>11. AgySlot(t)'
    BY <1>3, <1>4 DEF AgySlot, AgyHolding
  <1> QED BY <1>1, <1>6, <1>7, <1>8, <1>9, <1>10, <1>11, AgyStep DEF AgyTurnInv

\* What a settling run may call its verdict, the child's last word backs.
LEMMA AgySettles == ASSUME AgyInv, NEW t \in Agy!AgyTurns, Agy!Settle(t) PROVE AgyInv'
  <1>1. AgyTyped /\ AgyKnows(t) /\ run[t] \in AgyRuns /\ child[t] \in AgyChildren
    BY DEF AgyInv, AgyTyped, AgyTurnInv
  <1>2. run[t].pc = "settle" /\ UNCHANGED <<pc, slot, cancel>>
    BY DEF Agy!Settle, Agy!Running
  <1>3. AgyRowIs(t, row[t].turn, row[t].attempt, row[t].accepted)
    BY <1>1, AgyRowSet DEF Agy!Settle
  <1>4. AgyChildIs(t, "gone", child[t].got, child[t].said)
    BY <1>1, AgyChildSet DEF Agy!Settle, AgyChildren
  <1>5. row[t].attempt \notin Agy!Verdicts
    BY <1>2, AgyRunning
  <1>6. Agy!Verdict(t) \in Agy!Verdicts
    BY DEF Agy!Verdict, Agy!Verdicts
  <1>7. ASSUME Agy!Verified(run[t])
        PROVE  Backed("gone", child[t].said, row[t].accepted, Agy!Verdict(t))
    <2>1. run[t].accepted # "error" /\ run[t].result \in Agy!Results
      BY <1>7 DEF Agy!Verified
    <2>2. "bad" \notin child[t].said /\ child[t].said \cap Agy!Results = {run[t].result}
      BY <1>1, <1>2, <2>1 DEF AgyKnows
    <2>3. "accept" \in child[t].said => row[t].accepted
      BY <1>1, <1>2, <2>1 DEF AgyKnows, AgyRuns
    <2>4. CASE run[t].result = "ok"
      <3>1. Agy!Verdict(t) = "completed"
        BY <2>4 DEF Agy!Verdict
      <3> QED BY <2>2, <2>3, <2>4, <3>1 DEF Backed
    <2>5. CASE run[t].result # "ok"
      <3>1. run[t].result \in {"error", "interrupted"}
        BY <2>1, <2>5 DEF Agy!Results
      <3>2. (Agy!Verdict(t) = "cancelled" /\ run[t].result = "interrupted") \/ Agy!Verdict(t) = "failed"
        BY <2>5 DEF Agy!Verdict
      <3> QED BY <2>2, <2>3, <3>1, <3>2 DEF Backed
    <2> QED BY <2>4, <2>5
  <1>8. ASSUME NEW p \in Agy!Verdicts \cup {"finish"}, run' = [run EXCEPT ![t].pc = p],
               p \in Agy!Verdicts => Backed("gone", child[t].said, row[t].accepted, p)
        PROVE  AgyInv'
    <2>1. AgyRunIs(t, p, run[t].accepted, run[t].result, run[t].bound)
      BY <1>1, <1>8, AgyRunSet
    <2> QED BY <1>2, <1>3, <1>4, <1>5, <1>8, <2>1, AgyConcludes
  <1>9. "finish" \notin Agy!Verdicts
    BY DEF Agy!Verdicts
  <1> QED BY <1>6, <1>7, <1>8, <1>9 DEF Agy!Settle

\* The verdict is recorded on the attempt, if it is still uncertain.
LEMMA AgyTerminal == ASSUME AgyInv, NEW t \in Agy!AgyTurns, Agy!SetAttemptTerminal(t) PROVE AgyInv'
  <1>1. AgyTyped /\ AgyTurnInv(t) /\ row[t] \in AgyRows
    BY DEF AgyInv, AgyTyped
  <1>2. run[t].pc \in Agy!Verdicts /\ UNCHANGED <<pc, slot, cancel, child>>
        /\ run' = [run EXCEPT ![t].pc = "finish"]
    BY DEF Agy!SetAttemptTerminal, Agy!Running
  <1>3. AgyRunIs(t, "finish", run[t].accepted, run[t].result, run[t].bound)
    BY <1>1, <1>2, AgyRunSet
  <1>4. child[t].state = "gone" /\ AgyChildIs(t, "gone", child[t].got, child[t].said)
    BY <1>1, <1>2, AgySame DEF AgyTurnInv, AgyPhase
  <1>5. Backed("gone", child[t].said, row[t].accepted, run[t].pc)
    BY <1>1, <1>2, <1>4 DEF AgyTurnInv, AgyVerdict
  <1>6. "finish" \notin Agy!Verdicts
    BY DEF Agy!Verdicts
  <1>7. row[t].attempt \notin Agy!Verdicts
    BY <1>2, AgyRunning DEF Agy!Verdicts
  <1>8. CASE row' = row
    BY <1>2, <1>3, <1>4, <1>6, <1>7, <1>8, AgyConcludes, AgySame
  <1>9. ASSUME Agy!SetRow(t, [row[t] EXCEPT !.attempt = run[t].pc]) PROVE AgyInv'
    <2> DEFINE r == [row[t] EXCEPT !.attempt = run[t].pc]
    <2>1. r \in AgyRows /\ r.turn = row[t].turn /\ r.attempt = run[t].pc /\ r.accepted = row[t].accepted
      BY <1>1, <1>2 DEF AgyRows
    <2>2. Agy!SetRow(t, r)
      BY <1>9
    <2> HIDE DEF r
    <2>3. AgyRowIs(t, row[t].turn, run[t].pc, row[t].accepted)
      BY <1>1, <2>1, <2>2, AgyRowSet
    <2> QED BY <1>2, <1>3, <1>4, <1>5, <1>6, <2>3, AgyConcludes
  <1> QED BY <1>8, <1>9 DEF Agy!SetAttemptTerminal

\* The run is over: the slot is free and its child is gone.
LEMMA AgyFinishes == ASSUME AgyInv, NEW t \in Agy!AgyTurns, Agy!FinishRun(t) PROVE AgyInv'
  <1>1. AgyTyped /\ AgyTurnInv(t) /\ child[t] \in AgyChildren
    BY DEF AgyInv, AgyTyped
  <1>2. /\ run[t].pc = "finish" /\ UNCHANGED <<pc, row>> /\ Agy!ReleaseSlot(t)
        /\ run' = [run EXCEPT ![t] = [Agy!NoRun EXCEPT !.pc = "over"]]
        /\ cancel' = [cancel EXCEPT ![t] = Agy!NoCancel]
    BY DEF Agy!FinishRun, Agy!Running
  <1>3. AgyRunIs(t, "over", "no", None, FALSE)
    BY <1>1, <1>2, AgyRunSet
  <1>4. AgyCancelIs(t, FALSE, FALSE, FALSE) /\ cancel'[t] = Agy!NoCancel
    BY <1>1, <1>2 DEF AgyTyped, AgyCancels, AgyCancelIs, Agy!NoCancel
  <1>5. PICK d \in SUBSET ({"bad", "accept"} \cup Agy!Results) :
          /\ child' = [child EXCEPT ![t].said = d]
          /\ row[t].attempt \in Agy!Verdicts => d = child[t].said
    <2> DEFINE d == IF row[t].attempt \in Agy!Verdicts THEN child[t].said ELSE {}
    <2>1. child' = [child EXCEPT ![t].said = d]
      BY <1>1 DEF Agy!FinishRun, AgyTyped
    <2>2. d \in SUBSET ({"bad", "accept"} \cup Agy!Results)
      BY <1>1 DEF AgyChildren
    <2>3. row[t].attempt \in Agy!Verdicts => d = child[t].said
      OBVIOUS
    <2> HIDE DEF d
    <2> QED BY <2>1, <2>2, <2>3
  <1>6. AgyChildIs(t, child[t].state, child[t].got, d)
    BY <1>1, <1>5, AgyChildSet
  <1>7. AgyRowIs(t, row[t].turn, row[t].attempt, row[t].accepted) /\ AgyPcIs(t, pc[t])
    BY <1>2, AgySame
  <1>8. slot' \in {slot, None} /\ (slot' = slot \/ slot \in {None, t})
    BY <1>2 DEF Agy!ReleaseSlot
  <1>9. OnlyAgy(t) /\ AgyTyped'
    BY <1>3, <1>4, <1>6, <1>7, <1>8, AgyOnly
  <1>10. pc[t] \in {"collect", "gone"} /\ row[t].turn # "queued" /\ child[t].state = "gone"
    BY <1>1, <1>2, AgyRunning DEF AgyTurnInv, AgyPhase
  <1>11. /\ row'[t].turn = row[t].turn /\ row'[t].attempt = row[t].attempt
         /\ row'[t].accepted = row[t].accepted /\ run'[t].pc = "over"
         /\ child'[t].state = "gone" /\ child'[t].got = child[t].got /\ child'[t].said = d
         /\ pc'[t] = pc[t]
    BY <1>3, <1>6, <1>7, <1>10 DEF AgyRowIs, AgyRunIs, AgyChildIs, AgyPcIs
  <1>12. AgyPhase(t)'
    BY <1>10, <1>11 DEF AgyPhase, AgyChildless, AgyUnwritten, AgyStarted, Agy!Verdicts
  <1>13. AgyRejection(t)'
    BY <1>1, <1>11 DEF AgyTurnInv, AgyRejection
  <1>14. AgyBounded(t)'
    BY <1>4, <1>11 DEF AgyBounded, Agy!Live
  <1>15. AgyKnows(t)'
    BY <1>11 DEF AgyKnows
  <1>16. AgyVerdict(t)'
    BY <1>1, <1>5, <1>10, <1>11 DEF AgyTurnInv, AgyVerdict, Agy!Verdicts
  <1>17. AgySlot(t)'
    BY <1>10, <1>11 DEF AgySlot, AgyHolding
  <1> QED BY <1>8, <1>9, <1>12, <1>13, <1>14, <1>15, <1>16, <1>17, AgyStep DEF AgyTurnInv

\* The child ends, or the cancellation moves on: the rows, the dispatch and what was said stay.
LEMMA AgyInterrupts ==
  ASSUME AgyInv, NEW t \in Agy!AgyTurns, NEW bo, NEW f, NEW x, NEW h, NEW s,
         UNCHANGED <<row, slot, pc>>, s \in {"gone", child[t].state},
         s # child[t].state => child[t].state \in {"up", "orphan", "gone"},
         AgyRunIs(t, run[t].pc, run[t].accepted, run[t].result, bo),
         run[t].pc = "none" => run' = run,
         AgyCancelIs(t, f, x, h), AgyChildIs(t, s, child[t].got, child[t].said), AgyBounded(t)'
  PROVE  AgyInv'
  <1>1. AgyRowIs(t, row[t].turn, row[t].attempt, row[t].accepted) /\ AgyPcIs(t, pc[t])
    BY AgySame
  <1>2. OnlyAgy(t) /\ AgyTyped'
    BY <1>1, AgyOnly
  <1>3. AgyTurnInv(t) /\ AgySlot(t)
    BY DEF AgyInv
  <1>4. /\ run'[t].pc = run[t].pc /\ run'[t].accepted = run[t].accepted /\ run'[t].result = run[t].result
        /\ child'[t].state = s /\ child'[t].got = child[t].got /\ child'[t].said = child[t].said
    BY DEF AgyRunIs, AgyChildIs
  <1>5. run[t] = Agy!NoRun => run'[t] = run[t]
    BY DEF Agy!NoRun
  <1>6. AgyPhase(t)'
    <2>1. pc[t] \in AgyChildless => s = "none"
      BY <1>3 DEF AgyTurnInv, AgyPhase
    <2>2. s \in {"up", "gone"} \/ s = child[t].state
      OBVIOUS
    <2> QED BY <1>3, <1>4, <1>5, <2>1, <2>2 DEF AgyTurnInv, AgyPhase
  <1>7. AgyRejection(t)'
    BY <1>3, <1>4 DEF AgyTurnInv, AgyRejection
  <1>8. AgyKnows(t)'
    BY <1>3, <1>4 DEF AgyTurnInv, AgyKnows
  <1>9. AgyVerdict(t)'
    <2>1. row[t].attempt \in Agy!Verdicts \/ run[t].pc \in Agy!Verdicts => s = child[t].state
      BY <1>3 DEF AgyTurnInv, AgyVerdict, Backed
    <2> QED BY <1>3, <1>4, <2>1 DEF AgyTurnInv, AgyVerdict
  <1>10. AgySlot(t)'
    BY <1>3, <1>4 DEF AgySlot
  <1> QED BY <1>2, <1>6, <1>7, <1>8, <1>9, <1>10, AgyStep DEF AgyTurnInv

\* The bound, a cancellation, its interrupt and its kill, and the end of the child.
LEMMA AgyInterruptions ==
  ASSUME AgyInv, NEW t \in Agy!AgyTurns, Agy!CancelStep(t) \/ Agy!ChildExit(t)
  PROVE  AgyInv'
  <1>1. AgyTyped /\ AgyBounded(t) /\ AgyPhase(t) /\ run[t] \in AgyRuns /\ child[t] \in AgyChildren
        /\ cancel[t] \in AgyCancels
    BY DEF AgyInv, AgyTyped, AgyTurnInv
  <1>2. run' = run => AgyRunIs(t, run[t].pc, run[t].accepted, run[t].result, run[t].bound)
    BY AgySame
  <1>3. child' = child => AgyChildIs(t, child[t].state, child[t].got, child[t].said)
    BY AgySame
  <1>4. child' = [child EXCEPT ![t].state = "gone"] => AgyChildIs(t, "gone", child[t].got, child[t].said)
    BY <1>1, AgyChildSet DEF AgyChildren
  <1>5. ASSUME Agy!RequestInterrupt(t), Agy!Live(t), UNCHANGED <<row, slot, pc, child>>,
               run' = run \/ (run[t].pc = "read" /\ run' = [run EXCEPT ![t].bound = TRUE])
        PROVE  AgyInv'
    <2>1. AgyCancelIs(t, TRUE, cancel[t].sending \/ ~cancel[t].flag, cancel[t].grace)
      BY <1>1, <1>5, AgyCancelSet
    <2>2. run[t].pc \notin {"none", "over"} /\ run'[t].pc = run[t].pc
      BY <1>1, <1>5 DEF Agy!Live, AgyTyped, AgyRuns
    <2>3. AgyRunIs(t, run[t].pc, run[t].accepted, run[t].result, run'[t].bound)
      <3>1. CASE run' = run
        BY <1>2, <3>1
      <3>2. CASE run' = [run EXCEPT ![t].bound = TRUE]
        <4>1. AgyRunIs(t, run[t].pc, run[t].accepted, run[t].result, TRUE)
          BY <1>1, <3>2, AgyRunSet
        <4> QED BY <4>1 DEF AgyRunIs
      <3> QED BY <1>5, <3>1, <3>2
    <2>4. AgyBounded(t)'
      <3>1. cancel[t].flag => cancel[t].sending \/ cancel[t].grace \/ child[t].state = "gone" \/ ~InterruptSupported
        BY <1>1, <1>5 DEF AgyBounded
      <3>2. /\ cancel'[t].sending = (cancel[t].sending \/ ~cancel[t].flag)
            /\ cancel'[t].grace = cancel[t].grace /\ child'[t].state = child[t].state
        BY <1>5, <2>1 DEF AgyCancelIs
      <3>3. InterruptSupported => cancel'[t].sending \/ cancel'[t].grace \/ child'[t].state = "gone"
        BY <3>1, <3>2
      <3> QED BY <2>2, <3>3 DEF AgyBounded, Agy!Live
    <2>5. AgyChildIs(t, child[t].state, child[t].got, child[t].said)
      BY <1>3, <1>5
    <2> QED BY <1>5, <2>1, <2>2, <2>3, <2>4, <2>5, AgyInterrupts
  <1>6. ASSUME Agy!TurnBound(t) PROVE AgyInv'
    <2>1. Agy!Live(t)
      BY <1>6 DEF Agy!TurnBound, Agy!Live
    <2> QED BY <1>5, <1>6, <2>1 DEF Agy!TurnBound, Agy!Running
  <1>7. ASSUME Agy!Cancel(t) PROVE AgyInv'
    BY <1>5, <1>7 DEF Agy!Cancel, Agy!Running
  <1>8. cancel[t].sending => Agy!Live(t)
    BY <1>1 DEF AgyBounded, Agy!NoCancel
  <1>9. ASSUME Agy!SendInterrupt(t) PROVE AgyInv'
    <2>1. cancel[t].sending /\ UNCHANGED <<pc, row, slot, run, child>>
      BY <1>9 DEF Agy!SendInterrupt, Agy!Running
    <2>2. run[t].pc \notin {"none", "over"}
      BY <1>8, <2>1 DEF Agy!Live
    <2>3. CASE cancel' = [cancel EXCEPT ![t].sending = FALSE, ![t].grace = TRUE]
      <3>1. AgyCancelIs(t, cancel[t].flag, FALSE, TRUE)
        BY <1>1, <2>3, AgyCancelSet
      <3>2. AgyBounded(t)'
        BY <2>1, <2>2, <3>1 DEF AgyBounded, Agy!Live, AgyCancelIs
      <3> QED BY <1>2, <1>3, <2>1, <3>1, <3>2, AgyInterrupts
    <2>4. ASSUME InterruptSupported => child[t].state # "up",
                 cancel' = [cancel EXCEPT ![t].sending = FALSE, ![t].flag = FALSE]
          PROVE  AgyInv'
      <3>1. AgyCancelIs(t, FALSE, FALSE, cancel[t].grace)
        BY <1>1, <2>4, AgyCancelSet
      <3>2. InterruptSupported => child[t].state = "gone"
        <4>1. run[t].pc \in {"read", "settle", "finish"} \cup Agy!Verdicts
          BY <1>1, <2>2 DEF AgyRuns
        <4> QED BY <1>1, <2>4, <4>1 DEF AgyPhase
      <3>3. AgyBounded(t)'
        BY <2>1, <2>2, <3>2 DEF AgyBounded, Agy!Live
      <3> QED BY <1>2, <1>3, <2>1, <3>1, <3>3, AgyInterrupts
    <2> QED BY <1>9, <2>3, <2>4 DEF Agy!SendInterrupt
  <1>10. ASSUME Agy!GraceKill(t) PROVE AgyInv'
    <2>1. Agy!Live(t) /\ UNCHANGED <<pc, row, slot, run>> /\ child' = [child EXCEPT ![t].state = "gone"]
          /\ cancel' = [cancel EXCEPT ![t].grace = FALSE]
      BY <1>10 DEF Agy!GraceKill, Agy!Running
    <2>2. AgyCancelIs(t, cancel[t].flag, cancel[t].sending, FALSE)
      BY <1>1, <2>1, AgyCancelSet
    <2>3. AgyChildIs(t, "gone", child[t].got, child[t].said)
      BY <1>4, <2>1
    <2>4. AgyBounded(t)'
      BY <2>1, <2>3 DEF AgyBounded, AgyChildIs, Agy!Live
    <2>5. run[t].pc \notin {"none", "over"}
      BY <2>1 DEF Agy!Live
    <2>6. child[t].state \in {"up", "gone"}
      <3>1. run[t].pc \in {"read", "settle", "finish"} \cup Agy!Verdicts
        BY <1>1, <2>5 DEF AgyRuns
      <3> QED BY <1>1, <3>1 DEF AgyPhase
    <2> QED BY <1>2, <2>1, <2>2, <2>3, <2>4, <2>6, AgyInterrupts
  <1>11. ASSUME Agy!ChildExit(t) PROVE AgyInv'
    <2>1. child[t].state \in {"up", "orphan"} /\ UNCHANGED <<pc, row, slot, run, cancel>>
          /\ child' = [child EXCEPT ![t].state = "gone"]
      BY <1>11 DEF Agy!ChildExit, Agy!Running
    <2>2. AgyChildIs(t, "gone", child[t].got, child[t].said)
      BY <1>4, <2>1
    <2>3. AgyBounded(t)'
      BY <1>1, <2>1, <2>2 DEF AgyBounded, AgyChildIs, Agy!Live
    <2> QED BY <1>2, <2>1, <2>2, <2>3, AgyInterrupts, AgySame
  <1> QED BY <1>6, <1>7, <1>9, <1>10, <1>11 DEF Agy!CancelStep

\* A crash: the rows and the children stay, and nobody waits for them.
LEMMA AgyCrash == ASSUME AgyInv, Agy!Crash PROVE AgyInv'
  <1>1. /\ slot' = None /\ row' = row /\ AgyTyped
        /\ pc' = [t \in Agy!AgyTurns |-> IF pc[t] = "none" THEN "none" ELSE "gone"]
        /\ run' = [t \in Agy!AgyTurns |-> Agy!NoRun]
        /\ cancel' = [t \in Agy!AgyTurns |-> Agy!NoCancel]
    BY DEF Agy!Crash, AgyInv
  <1> DEFINE s(t) == IF child[t].state = "up" THEN "orphan" ELSE child[t].state
             d(t) == IF row[t].attempt \in Agy!Verdicts THEN child[t].said ELSE {}
  <1>2. child' = [t \in Agy!AgyTurns |-> [child[t] EXCEPT !.state = s(t), !.said = d(t)]]
    BY <1>1 DEF Agy!Crash, AgyTyped, AgyChildren
  <1>3. ASSUME NEW t \in Agy!AgyTurns
        PROVE  /\ child[t] \in AgyChildren
               /\ s(t) \in {"none", "gone", "orphan"} /\ d(t) \in SUBSET ({"bad", "accept"} \cup Agy!Results)
               /\ s(t) = child[t].state \/ (s(t) = "orphan" /\ child[t].state = "up")
               /\ row[t].attempt \in Agy!Verdicts => d(t) = child[t].said
               /\ row[t].attempt \notin Agy!Verdicts => d(t) = {}
    BY <1>1 DEF AgyTyped, AgyChildren
  <1> HIDE DEF s, d
  <1>4. ASSUME NEW t \in Agy!AgyTurns
        PROVE  /\ child'[t] \in AgyChildren
               /\ child'[t].state = s(t) /\ child'[t].got = child[t].got /\ child'[t].said = d(t)
    BY <1>2, <1>3 DEF AgyChildren
  <1>5. AgyTyped'
    <2>1. child' \in [Agy!AgyTurns -> AgyChildren]
      BY <1>2, <1>4
    <2>2. pc' \in [Agy!AgyTurns -> AgyPcs]
      BY <1>1 DEF AgyPcs
    <2>3. run' \in [Agy!AgyTurns -> AgyRuns]
      BY <1>1 DEF AgyRuns, Agy!NoRun
    <2>4. cancel' \in [Agy!AgyTurns -> AgyCancels]
      BY <1>1 DEF AgyCancels, Agy!NoCancel
    <2> QED BY <1>1, <2>1, <2>2, <2>3, <2>4 DEF AgyTyped
  <1>6. ASSUME NEW t \in Agy!AgyTurns PROVE AgyTurnInv(t)' /\ AgySlot(t)'
    <2>1. AgyTurnInv(t)
      BY DEF AgyInv
    <2>2. /\ run'[t] = Agy!NoRun /\ run'[t].pc = "none" /\ cancel'[t] = Agy!NoCancel
          /\ pc'[t] = IF pc[t] = "none" THEN "none" ELSE "gone"
      BY <1>1 DEF Agy!NoRun
    <2>3. AgyPhase(t)'
      <3>1. pc[t] = "none" => child[t].said = {} /\ child[t].state = "none" /\ ~child[t].got
        BY <2>1 DEF AgyTurnInv, AgyPhase, AgyUnwritten, AgyChildless
      <3>2. pc[t] = "none" => d(t) = {} /\ s(t) = "none"
        BY <1>3, <3>1
      <3>3. row[t].turn = "queued" => pc[t] = "none"
        BY <2>1 DEF AgyTurnInv, AgyPhase
      <3> QED BY <1>1, <1>4, <2>2, <3>1, <3>2, <3>3
              DEF AgyPhase, AgyUnwritten, AgyChildless, AgyStarted, Agy!Verdicts
    <2>4. AgyRejection(t)'
      BY <1>1, <1>4, <2>1, <2>2 DEF AgyTurnInv, AgyRejection
    <2>5. AgyBounded(t)' /\ AgyKnows(t)'
      BY <2>2 DEF AgyBounded, AgyKnows, Agy!Live
    <2>6. AgyVerdict(t)'
      <3>1. row[t].attempt \in Agy!Verdicts =>
              /\ Backed(child[t].state, child[t].said, row[t].accepted, row[t].attempt)
              /\ child[t].state = "gone" /\ pc[t] # "none"
        BY <2>1 DEF AgyTurnInv, AgyVerdict, Backed
      <3>2. row[t].attempt \in Agy!Verdicts =>
              /\ Backed(s(t), d(t), row[t].accepted, row[t].attempt) /\ pc[t] # "none"
        BY <1>3, <3>1
      <3>3. row[t].turn \in Agy!Verdicts => row[t].attempt = row[t].turn
        BY <2>1 DEF AgyTurnInv, AgyVerdict
      <3> QED BY <1>1, <1>4, <2>2, <3>2, <3>3 DEF AgyVerdict, Agy!Verdicts
    <2>7. AgySlot(t)'
      BY <1>3, <1>4, <2>2 DEF AgySlot, AgyHolding
    <2> QED BY <2>3, <2>4, <2>5, <2>6, <2>7 DEF AgyTurnInv
  <1> QED BY <1>5, <1>6 DEF AgyInv

\* Every step keeps the agy adapter's invariant.
LEMMA AgyNext == ASSUME AgyInv, Agy!Next PROVE AgyInv'
  <1>1. ASSUME NEW t \in Agy!AgyTurns, Agy!DispatchStep(t) PROVE AgyInv'
    BY <1>1, AgyDispatches, AgyPublish DEF Agy!DispatchStep
  <1>2. ASSUME NEW t \in Agy!AgyTurns, Agy!RunStep(t) PROVE AgyInv'
    BY <1>2, AgyReadEvent, AgyReadsEnd, AgySettles, AgyTerminal, AgyFinishes DEF Agy!RunStep
  <1> QED BY <1>1, <1>2, AgyService, AgyInterruptions, AgyCrash DEF Agy!Next

\* The agy adapter's invariant holds at the start.
LEMMA AgyInit == ASSUME Agy!Init PROVE AgyInv
  <1>1. AgyTyped
    BY DEF Agy!Init, AgyTyped, AgyRows, AgyPcs, AgyRuns, AgyCancels, AgyChildren, Agy!NoRun, Agy!NoCancel
  <1>2. ASSUME NEW t \in Agy!AgyTurns PROVE AgyTurnInv(t) /\ AgySlot(t)
    <2>1. /\ row[t].turn = "queued" /\ row[t].attempt = None /\ pc[t] = "none"
          /\ run[t] = Agy!NoRun /\ run[t].pc = "none" /\ cancel[t] = Agy!NoCancel
          /\ child[t].state = "none" /\ child[t].got = FALSE /\ child[t].said = {}
      BY DEF Agy!Init, Agy!NoRun
    <2>2. AgyPhase(t)
      BY <2>1 DEF AgyPhase, AgyUnwritten, AgyChildless, AgyStarted, Agy!Verdicts
    <2>3. AgyRejection(t) /\ AgyBounded(t) /\ AgyKnows(t)
      BY <2>1, AgyNone DEF AgyRejection, AgyBounded, AgyKnows, Agy!Live
    <2>4. AgyVerdict(t)
      BY <2>1, AgyNone DEF AgyVerdict, Agy!Verdicts
    <2>5. AgySlot(t)
      BY <2>1 DEF AgySlot, AgyHolding
    <2> QED BY <2>2, <2>3, <2>4, <2>5 DEF AgyTurnInv
  <1> QED BY <1>1, <1>2 DEF AgyInv

\* What the runs check of it.
LEMMA AgyInvImplies ==
  ASSUME AgyInv
  PROVE  /\ Agy!RejectedNeverSent /\ Agy!VerdictIsVerified
         /\ Agy!OneChildPerConversation /\ Agy!RunIsBounded
  <1>1. Agy!RejectedNeverSent
    BY DEF AgyInv, AgyTurnInv, AgyRejection, Agy!RejectedNeverSent
  <1>2. Agy!VerdictIsVerified
    <2>1. ASSUME NEW t \in Agy!AgyTurns
          PROVE  /\ row[t].turn \in Agy!Verdicts => row[t].attempt = row[t].turn
                 /\ row[t].attempt \in Agy!Verdicts =>
                      Backed(child[t].state, child[t].said, row[t].accepted, row[t].attempt)
      BY DEF AgyInv, AgyTurnInv, AgyVerdict
    <2> QED BY <2>1, Zenon DEF Agy!VerdictIsVerified, Backed
  <1>3. Agy!OneChildPerConversation
    BY DEF AgyInv, AgySlot, Agy!OneChildPerConversation
  <1>4. Agy!RunIsBounded
    <2>1. ASSUME NEW t \in Agy!AgyTurns, InterruptSupported, run[t].pc = "read"
          PROVE  ~run[t].bound \/ cancel[t].sending \/ cancel[t].grace \/ child[t].state = "gone"
      BY <2>1 DEF AgyInv, AgyTurnInv, AgyBounded, Agy!Live
    <2> QED BY <2>1 DEF Agy!RunIsBounded
  <1> QED BY <1>1, <1>2, <1>3, <1>4

\* A step of something else keeps it.
LEMMA AgyKept == ASSUME AgyInv, UNCHANGED mcVars PROVE AgyInv'
  <1>1. UNCHANGED <<row, slot, pc, run, cancel, child>>
    BY DEF mcVars, vars, runVars, childVars, agyVars
  <1>2. AgyTyped'
    BY <1>1 DEF AgyInv, AgyTyped
  <1>3. ASSUME NEW t \in Agy!AgyTurns PROVE AgyTurnInv(t)' /\ AgySlot(t)'
    <2>1. AgyTurnInv(t) /\ AgySlot(t)
      BY DEF AgyInv
    <2>2. AgyPhase(t)' /\ AgyRejection(t)' /\ AgyBounded(t)'
      BY <1>1, <2>1 DEF AgyTurnInv, AgyPhase, AgyRejection, AgyBounded, Agy!Live
    <2>3. AgyKnows(t)' /\ AgyVerdict(t)' /\ AgySlot(t)'
      BY <1>1, <2>1 DEF AgyTurnInv, AgyKnows, AgyVerdict, AgySlot
    <2> QED BY <2>2, <2>3 DEF AgyTurnInv
  <1> QED BY <1>2, <1>3 DEF AgyInv

\* The inductive invariant holds in every run of the adapter.
LEMMA AgyPartHolds == MCSpec => []AgyPart
  <1>1. MCInit => AgyPart
    BY AgyInit DEF MCInit, AgyPart
  <1>2. AgyPart /\ [MCNext]_mcVars => AgyPart'
    <2> SUFFICES ASSUME AgyPart, [MCNext]_mcVars, part' = "agy" PROVE AgyInv'
      BY DEF AgyPart
    <2>1. CASE part = "agy" /\ Agy!Next
      BY <2>1, AgyNext DEF AgyPart
    <2>2. CASE part = "agy" /\ UNCHANGED mcVars
      BY <2>2, AgyKept DEF AgyPart
    <2> QED BY <2>1, <2>2 DEF MCNext, mcVars
  <1> QED BY <1>1, <1>2, PTL DEF MCSpec, mcVars

\* What the agy adapter says of a turn is so, for any number of turns and restarts: the prompt of
\* a turn it rejected, or found missing, never crossed the child's stdin, and a verdict rests on
\* one result of a child that is gone (abortPreWrite, runTurn, settle, Collect).
THEOREM AgyAlwaysTrue == MCSpec => []AgyVerdictsTrue
  <1>1. AgyPart => AgyVerdictsTrue
    BY AgyInvImplies DEF AgyPart, AgyVerdictsTrue
  <1> QED BY <1>1, AgyPartHolds, PTL

\* A conversation has one child at a time, and a child that was asked to stop is waited for a
\* bounded time (acquireSlot, finishRun, interruptRun).
THEOREM AgyAlwaysHeld == MCSpec => []AgyConversationHeld
  <1>1. AgyPart => AgyConversationHeld
    BY AgyInvImplies DEF AgyPart, AgyConversationHeld
  <1> QED BY <1>1, AgyPartHolds, PTL

-----------------------------------------------------------------------------
(* Both adapters implement NativeTurns: every step changes at most one of   *)
(* what runs, what was given and what is answered, of one turn.             *)

\* The steps of NativeTurns, on one turn: what runs, what was given and what is answered, before
\* and after; alone: no turn is being worked on.
Moves(w, g, a, w2, g2, a2, alone, V) ==
  \/ w2 = w /\ g2 = g /\ a2 = a
  \/ w = "none" /\ a = "none" /\ alone /\ w2 = "running" /\ g2 = g /\ a2 = a
  \/ w = "running" /\ ~g /\ w2 = w /\ g2 = TRUE /\ a2 = a
  \/ w = "running" /\ w2 = "over" /\ g2 = g /\ a2 = a
  \/ a = "none" /\ w # "running" /\ ~g /\ a2 = "absent" /\ w2 = w /\ g2 = g
  \/ a = "none" /\ w = "over" /\ g /\ a2 \in V /\ w2 = w /\ g2 = g

ClaudeAlone == \A u \in Turns : child[u] # "up"

ClaudeMoves(t) ==
  Moves(WorkOn(t), got[t], AnswerTo(t), WorkOn(t)', got'[t], AnswerTo(t)', ClaudeAlone, Resolved)

\* A step of one turn is a step of NativeTurns, or a stutter.
LEMMA ClaudeMove ==
  ASSUME TypeOK, TypeOK', NEW t \in Turns, OnlyTurn(t), ClaudeMoves(t)
  PROVE  UNCHANGED Native!vars \/ Native!Next
  <1> DEFINE W == [u \in Turns |-> WorkOn(u)]
             A == [u \in Turns |-> AnswerTo(u)]
  <1>1. /\ \A u \in Turns \ {t} : WorkOn(u)' = WorkOn(u) /\ AnswerTo(u)' = AnswerTo(u) /\ got'[u] = got[u]
        /\ got \in [Turns -> BOOLEAN] /\ got' \in [Turns -> BOOLEAN]
    BY DEF OnlyTurn, WorkOn, AnswerTo, TypeOK
  <1>2. /\ W' = [W EXCEPT ![t] = WorkOn(t)']
        /\ A' = [A EXCEPT ![t] = AnswerTo(t)']
        /\ got' = [got EXCEPT ![t] = got'[t]]
    BY <1>1
  <1>3. /\ WorkOn(t)' = WorkOn(t) => W' = W
        /\ AnswerTo(t)' = AnswerTo(t) => A' = A
        /\ got'[t] = got[t] => got' = got
    BY <1>1
  <1>4. W[t] = WorkOn(t) /\ A[t] = AnswerTo(t) /\ \A u \in Turns : W[u] = WorkOn(u)
    OBVIOUS
  <1>5. ClaudeAlone => \A u \in Turns : W[u] # "running"
    BY <1>4 DEF ClaudeAlone, WorkOn
  <1>6. \/ W' = W /\ got' = got /\ A' = A
        \/ Native!Begin(t) \/ Native!Give(t) \/ Native!End(t) \/ Native!Deny(t)
        \/ \E v \in Resolved : Native!Conclude(t, v)
    <2> HIDE DEF W, A
    <2> QED
      BY <1>2, <1>3, <1>4, <1>5, Zenon
         DEF ClaudeMoves, Moves, W, A, Native!Begin, Native!Give, Native!End, Native!Deny, Native!Conclude
  <1> QED BY <1>6 DEF Native!Next, Native!vars

\* A step that leaves the child alone: the rows may answer, once.
LEMMA ClaudeAnswers ==
  ASSUME TypeOK, TypeOK', NEW t \in Turns, ClaudeRow(t), ClaudeRow(t)',
         child'[t] = child[t], got'[t] = got[t],
         \/ attempt'[t] = attempt[t]
         \/ attempt[t] = None /\ attempt'[t] = "uncertain"
         \/ attempt[t] = "uncertain" /\ attempt'[t] = "missing"
         \/ attempt[t] \notin Resolved /\ attempt'[t] \in Resolved /\ run'[t] \in {"materialize", "release"},
         turn'[t] = turn[t] \/ (turn[t] \in {"queued", "running"} /\ turn'[t] # "queued")
  PROVE  ClaudeMoves(t)
  <1>1. /\ attempt[t] \in Resolved => AnswerTo(t) = attempt[t]
        /\ attempt[t] \notin Resolved /\ (attempt[t] = "missing" \/ turn[t] \in {"rejected", "missing"})
             => AnswerTo(t) = "absent"
        /\ attempt[t] \notin Resolved /\ attempt[t] # "missing" /\ turn[t] \notin {"rejected", "missing"}
             => AnswerTo(t) = "none"
    BY DEF AnswerTo
  <1>2. /\ attempt'[t] \in Resolved => AnswerTo(t)' = attempt'[t]
        /\ attempt'[t] \notin Resolved /\ (attempt'[t] = "missing" \/ turn'[t] \in {"rejected", "missing"})
             => AnswerTo(t)' = "absent"
        /\ attempt'[t] \notin Resolved /\ attempt'[t] # "missing" /\ turn'[t] \notin {"rejected", "missing"}
             => AnswerTo(t)' = "none"
    BY DEF AnswerTo
  <1>3. WorkOn(t)' = WorkOn(t)
    BY DEF WorkOn
  <1>4. attempt'[t] = "missing" \/ turn'[t] \in {"rejected", "missing"} => WorkOn(t) = "none" /\ ~got[t]
    BY DEF ClaudeRow, ClaudeRejection, WorkOn
  <1>5. attempt[t] = "missing" \/ turn[t] \in {"rejected", "missing"} => ~got[t]
    BY DEF ClaudeRow, ClaudeRejection
  <1>6. attempt'[t] \in Resolved => got[t]
    BY DEF ClaudeRow, ClaudeVerdict, Resolved
  <1>7. attempt'[t] \in Resolved /\ run'[t] \in {"materialize", "release"} => WorkOn(t) = "over"
    BY DEF ClaudeRow, ClaudePhase, WorkOn
  <1>8. turn'[t] \in Resolved => attempt'[t] \in Resolved
    BY DEF ClaudeRow, ClaudeVerdict
  <1>9. /\ None \notin Resolved \cup {"missing"} /\ "uncertain" \notin Resolved /\ "missing" \notin Resolved
        /\ got[t] \in BOOLEAN
        /\ turn[t] \notin {"queued", "running"} => turn'[t] = turn[t]
    BY ClaudeAssumption DEF Resolved, TypeOK
  <1>10. CASE attempt'[t] = attempt[t]
    <2>1. CASE AnswerTo(t)' = AnswerTo(t)
      BY <1>3, <2>1 DEF ClaudeMoves, Moves
    <2>2. CASE AnswerTo(t)' # AnswerTo(t)
      <3>1. attempt[t] \notin Resolved /\ attempt[t] # "missing"
        BY <1>1, <1>2, <1>10, <2>2
      <3>2. turn[t] \notin {"rejected", "missing"}
        BY <1>1, <1>2, <1>9, <1>10, <2>2, <3>1
      <3>3. turn'[t] \in {"rejected", "missing"}
        BY <1>1, <1>2, <1>10, <2>2, <3>1, <3>2
      <3>4. AnswerTo(t) = "none" /\ AnswerTo(t)' = "absent" /\ WorkOn(t) = "none" /\ ~got[t]
        BY <1>1, <1>2, <1>4, <1>10, <3>1, <3>2, <3>3
      <3> QED BY <1>3, <3>4 DEF ClaudeMoves, Moves
    <2> QED BY <2>1, <2>2
  <1>11. CASE attempt'[t] # attempt[t] /\ attempt'[t] \notin Resolved
    <2>1. attempt[t] \notin Resolved /\ attempt[t] # "missing"
      BY <1>9, <1>11
    <2>2. CASE turn[t] \in {"rejected", "missing"}
      <3>1. AnswerTo(t) = "absent" /\ AnswerTo(t)' = "absent"
        BY <1>1, <1>2, <1>9, <1>11, <2>1, <2>2
      <3> QED BY <1>3, <3>1 DEF ClaudeMoves, Moves
    <2>3. CASE turn[t] \notin {"rejected", "missing"}
      <3>1. AnswerTo(t) = "none" /\ AnswerTo(t)' \in {"none", "absent"}
        BY <1>1, <1>2, <1>11, <2>1, <2>3
      <3>2. AnswerTo(t)' = "absent" => WorkOn(t) = "none" /\ ~got[t]
        BY <1>2, <1>4, <1>11
      <3> QED BY <1>3, <3>1, <3>2 DEF ClaudeMoves, Moves
    <2> QED BY <2>2, <2>3
  <1>12. CASE attempt'[t] # attempt[t] /\ attempt'[t] \in Resolved
    <2>1. attempt[t] \notin Resolved /\ run'[t] \in {"materialize", "release"}
      BY <1>9, <1>12
    <2>2. WorkOn(t) = "over" /\ got[t] /\ AnswerTo(t)' \in Resolved
      BY <1>2, <1>6, <1>7, <1>12, <2>1
    <2>3. attempt[t] # "missing" /\ turn[t] \notin {"rejected", "missing"}
      BY <1>5, <2>2
    <2>4. AnswerTo(t) = "none"
      BY <1>1, <2>1, <2>3
    <2> QED BY <1>3, <2>2, <2>4 DEF ClaudeMoves, Moves
  <1> QED BY <1>10, <1>11, <1>12

\* Every step of a turn is one of NativeTurns.
LEMMA ClaudeTurnMoves ==
  ASSUME TypeOK, TypeOK', NEW t \in Turns, ClaudeRow(t), ClaudeRow(t)', OneChildPerSession', OnlyTurn(t),
         \/ DispatchStep(t) \/ RecordRejected(t) \/ Collect(t)
         \/ ReconcileProbe(t) \/ ReconcileStates(t) \/ ReconcileCommit(t) \/ RunStep(t)
  PROVE  ClaudeMoves(t)
  <1>1. CASE StartChild(t) \/ ChildExit(t)
    <2>1. /\ UNCHANGED <<turn, attempt, got>>
          /\ \/ child'[t] = child[t]
             \/ pc[t] = "start" /\ child'[t] = "up"
             \/ child[t] = "up" /\ child'[t] = "gone"
      BY <1>1 DEF StartChild, ChildExit, Dispatching, Running, rowVars, childVars, TypeOK
    <2>2. AnswerTo(t)' = AnswerTo(t)
      BY <2>1 DEF AnswerTo
    <2>3. CASE child'[t] = child[t]
      BY <2>1, <2>2, <2>3 DEF ClaudeMoves, Moves, WorkOn
    <2>4. CASE child[t] = "up" /\ child'[t] = "gone"
      BY <2>1, <2>2, <2>4 DEF ClaudeMoves, Moves, WorkOn
    <2>5. CASE pc[t] = "start" /\ child'[t] = "up"
      <3>1. child[t] = "none" /\ attempt[t] = "uncertain" /\ turn[t] \notin {"rejected", "missing"}
        BY <2>5 DEF ClaudeRow, ClaudePhase, ClaudeAttempt, ClaudeRejection, Childless
      <3>2. AnswerTo(t) = "none" /\ WorkOn(t) = "none" /\ WorkOn(t)' = "running"
        BY <2>5, <3>1, ClaudeAssumption DEF AnswerTo, WorkOn, Resolved
      <3>3. ClaudeAlone
        BY <2>5, <3>1 DEF ClaudeAlone, OneChildPerSession, OnlyTurn
      <3> QED BY <2>1, <2>2, <3>2, <3>3 DEF ClaudeMoves, Moves
    <2> QED BY <2>1, <2>3, <2>4, <2>5
  <1>2. CASE WritePrompt(t)
    <2>1. /\ UNCHANGED <<turn, attempt, child>>
          /\ got'[t] = got[t] \/ (child[t] = "up" /\ got'[t] = TRUE)
      BY <1>2 DEF WritePrompt, Dispatching, TypeOK
    <2>2. AnswerTo(t)' = AnswerTo(t) /\ WorkOn(t)' = WorkOn(t) /\ (child[t] = "up" => WorkOn(t) = "running")
      BY <2>1 DEF AnswerTo, WorkOn
    <2>3. got[t] \in BOOLEAN
      BY DEF TypeOK
    <2> QED BY <2>1, <2>2, <2>3 DEF ClaudeMoves, Moves
  <1>3. CASE DispatchStep(t) /\ ~StartChild(t) /\ ~WritePrompt(t)
    <2>1. /\ child'[t] = child[t] /\ got'[t] = got[t]
          /\ \/ attempt'[t] = attempt[t]
             \/ attempt[t] = None /\ attempt'[t] = "uncertain"
             \/ attempt[t] = "uncertain" /\ attempt'[t] = "missing"
          /\ turn'[t] = turn[t] \/ (turn[t] = "queued" /\ turn'[t] = "running")
      BY <1>3
         DEF DispatchStep, Dispatching, Release, ReadBinding, AcquireSlot, CheckUnresolved, ClaudeTurnLaunch,
             InsertAttempt, ReserveLaunch, RecordStartFailed, RecordStarted, CloseStdin, TerminateChild,
             rowVars, childVars, TypeOK
    <2> QED BY <2>1, ClaudeAnswers
  <1>4. CASE \/ RecordRejected(t) \/ Collect(t)
             \/ ReconcileProbe(t) \/ ReconcileStates(t) \/ ReconcileCommit(t)
    <2>1. UNCHANGED <<child, got, attempt>>
      BY <1>4
         DEF Observing, RecordRejected, Collect, ReconcileProbe, ReconcileStates, ReconcileCommit, childVars
    <2>2. turn'[t] = turn[t] \/ (turn[t] = "running" /\ turn'[t] # "queued")
      BY <1>4
         DEF RecordRejected, Collect, ReconcileProbe, ReconcileStates, ReconcileCommit, Record, TypeOK, Resolved
    <2> QED BY <2>1, <2>2, ClaudeAnswers
  <1>5. CASE RunStep(t) /\ ~ChildExit(t)
    <2>1. /\ child'[t] = child[t] /\ got'[t] = got[t] /\ turn'[t] = turn[t]
          /\ \/ attempt'[t] = attempt[t]
             \/ attempt[t] \notin Resolved /\ attempt'[t] \in Resolved /\ run'[t] \in {"materialize", "release"}
      <3>1. CASE SetAttemptTerminal(t)
        <4>1. parser[t].verdict \in {None} \cup Resolved
          BY DEF TypeOK
        <4> QED BY <3>1, <4>1 DEF SetAttemptTerminal, Running, TypeOK
      <3>2. CASE ~SetAttemptTerminal(t)
        BY <1>5, <3>2 DEF RunStep, Running, ReadLine, Reap, RemoveTurn, MarkMaterialized, EndRun
      <3> QED BY <3>1, <3>2
    <2> QED BY <2>1, ClaudeAnswers
  <1> QED BY <1>1, <1>2, <1>3, <1>4, <1>5 DEF DispatchStep, RunStep

\* Nothing has begun in a new session.
LEMMA ClaudeNativeInit == ASSUME Init PROVE Native!Init
  <1>1. \A t \in Turns : WorkOn(t) = "none" /\ AnswerTo(t) = "none" /\ got[t] = FALSE
    BY ClaudeAssumption DEF Init, WorkOn, AnswerTo, Resolved
  <1>2. got = [t \in Turns |-> FALSE]
    BY DEF Init
  <1> QED BY <1>1, <1>2 DEF Native!Init

\* A step that leaves the rows, the child and the prompt alone is no step of NativeTurns.
LEMMA ClaudeStutter ==
  ASSUME turn' = turn, attempt' = attempt, child' = child, got' = got
  PROVE  UNCHANGED Native!vars
  BY DEF Native!vars, WorkOn, AnswerTo

\* Every step of the adapter.
LEMMA ClaudeNativeNext == ASSUME ClaudeInv, Next PROVE UNCHANGED Native!vars \/ Native!Next
  <1>1. TypeOK /\ (\A t \in Turns : ClaudeRow(t)) /\ ClaudeSlot /\ OneChildPerSession
    BY DEF ClaudeInv
  <1>2. TypeOK' /\ OneChildPerSession'
    BY ClaudeNext DEF ClaudeInv
  <1>3. ASSUME NEW c \in Callers, ClaudeCallers(c) PROVE UNCHANGED Native!vars
    BY <1>3, CallersOnly, ClaudeStutter
  <1>4. ASSUME NEW t \in Turns,
               \/ DispatchStep(t) \/ RecordRejected(t) \/ Collect(t)
               \/ ReconcileProbe(t) \/ ReconcileStates(t) \/ ReconcileCommit(t) \/ RunStep(t)
        PROVE  UNCHANGED Native!vars \/ Native!Next
    <2>1. OnlyTurn(t) /\ ClaudeRow(t)'
      BY <1>1, <1>4, ClaudeDispatch, ClaudeLaunch, ClaudeRecords, ClaudeRuns DEF DispatchStep
    <2>2. ClaudeMoves(t)
      BY <1>1, <1>2, <1>4, <2>1, ClaudeTurnMoves
    <2> QED BY <1>1, <1>2, <2>1, <2>2, ClaudeMove
  <1>5. CASE Restart
    BY <1>5, ClaudeStutter DEF Restart, rowVars, childVars
  <1> QED BY <1>3, <1>4, <1>5 DEF Next, ClaudeCallers

\* The claude adapter implements NativeTurns, for any number of turns, requests and restarts: a
\* child is started once for a turn and while no other one is up, and a turn is answered once,
\* after its child if it had one; "absent" is the answer only of a turn whose prompt no child
\* got, and of none that a child will get (Dispatch, runTurn, Collect, Reconcile).
THEOREM ClaudeRefinesTurns == MCSpec => ClaudeImplementsTurns
  <1> DEFINE Step == part = "claude" =>
                       UNCHANGED <<turn, attempt, child, got>> \/ UNCHANGED Native!vars \/ Native!Next
  <1>1. MCInit => (part = "claude" => Native!Init)
    BY ClaudeNativeInit DEF MCInit
  <1>2. ClaudePart /\ [MCNext]_mcVars => [Step]_vars
    <2> SUFFICES ASSUME ClaudePart, [MCNext]_mcVars, ~UNCHANGED vars, part = "claude"
                 PROVE  UNCHANGED Native!vars \/ Native!Next
      OBVIOUS
    <2>1. Next
      BY DEF MCNext, mcVars
    <2> QED BY <2>1, ClaudeNativeNext DEF ClaudePart
  <1> QED BY <1>1, <1>2, ClaudePartHolds, PTL DEF MCSpec, mcVars, ClaudeImplementsTurns

\* A step of one turn touches no other turn.
LEMMA AgyTouches ==
  ASSUME AgyTyped, NEW t \in Agy!AgyTurns,
         \/ Agy!DispatchStep(t) \/ Agy!RunStep(t) \/ Agy!CancelStep(t) \/ Agy!ServiceStep(t) \/ Agy!ChildExit(t)
  PROVE  OnlyAgy(t)
  <1> USE DEF OnlyAgy, AgyTyped
  <1>1. CASE \/ Agy!ReleaseTurn(t) \/ Agy!RegisterWorker(t) \/ Agy!AcquireSlot(t) \/ Agy!CheckUnresolved(t)
             \/ Agy!Gates(t)
    BY <1>1 DEF Agy!ReleaseTurn, Agy!RegisterWorker, Agy!AcquireSlot, Agy!CheckUnresolved, Agy!Gates,
                Agy!Goto, Agy!SetRow, Agy!Reject, Agy!Dispatching
  <1>2. CASE \/ Agy!InsertAttemptAndReserve(t) \/ Agy!StartChild(t) \/ Agy!RecordStartFailed(t)
             \/ Agy!RecordStarted(t)
    BY <1>2 DEF Agy!InsertAttemptAndReserve, Agy!StartChild, Agy!RecordStartFailed, Agy!RecordStarted,
                Agy!Goto, Agy!SetRow, Agy!Reject, Agy!WorkerEnds, Agy!Dispatching
  <1>3. CASE \/ Agy!VerifyInit(t) \/ Agy!WriteFirstByte(t) \/ Agy!PublishRun(t) \/ Agy!AbortKill(t)
             \/ Agy!AbortMissing(t)
    BY <1>3 DEF Agy!VerifyInit, Agy!WriteFirstByte, Agy!PublishRun, Agy!AbortKill, Agy!AbortMissing,
                Agy!Goto, Agy!SetRow, Agy!Reject, Agy!WorkerEnds, Agy!Dispatching
  <1>4. CASE Agy!RunStep(t)
    BY <1>4 DEF Agy!RunStep, Agy!ReadEvent, Agy!ReadMalformed, Agy!ReadEnd, Agy!Settle,
                Agy!SetAttemptTerminal, Agy!FinishRun, Agy!Said, Agy!SetRow, Agy!Running
  <1>5. CASE Agy!CancelStep(t) \/ Agy!ChildExit(t)
    BY <1>5 DEF Agy!CancelStep, Agy!TurnBound, Agy!Cancel, Agy!SendInterrupt, Agy!GraceKill,
                Agy!RequestInterrupt, Agy!ChildExit, Agy!Running
  <1>6. CASE Agy!ServiceStep(t)
    BY <1>6 DEF Agy!ServiceStep, Agy!RecordRejected, Agy!CollectUntilTerminal, Agy!Reconcile,
                Agy!DisposeBeforeWorker, Agy!ResolveTurnUncertainty, Agy!Record, Agy!SetRow, Agy!Goto,
                Agy!WorkerEnds, Agy!Observing
  <1> QED BY <1>1, <1>2, <1>3, <1>4, <1>5, <1>6 DEF Agy!DispatchStep

\* Where a dispatch gives up there is no child, or none any more; a run, and a verdict, are of a
\* child that got the prompt.
AgyGave(t) ==
  /\ pc[t] = "reject" => child[t].state \in {"none", "gone"}
  /\ pc[t] = "abort" => child[t].state \in {"up", "gone"}
  /\ pc[t] = "publish" \/ run[t].pc # "none" \/ row[t].attempt \in Agy!Verdicts => child[t].got

AgyNobody == \A u \in Agy!AgyTurns : child[u].state # "up"

AgyTurnMoves(t) ==
  Moves(Agy!WorkOn(t), child[t].got, Agy!AnswerTo(t), Agy!WorkOn(t)', child'[t].got, Agy!AnswerTo(t)',
        AgyNobody, Agy!Verdicts)

\* A step of one turn is a step of NativeTurns, or a stutter.
LEMMA AgyMove ==
  ASSUME AgyTyped, AgyTyped', NEW t \in Agy!AgyTurns, OnlyAgy(t), AgyTurnMoves(t)
  PROVE  UNCHANGED Agy!Native!vars \/ Agy!Native!Next
  <1> DEFINE W == [u \in Agy!AgyTurns |-> Agy!WorkOn(u)]
             D == [u \in Agy!AgyTurns |-> child[u].got]
             A == [u \in Agy!AgyTurns |-> Agy!AnswerTo(u)]
  <1>1. \A u \in Agy!AgyTurns \ {t} :
          Agy!WorkOn(u)' = Agy!WorkOn(u) /\ Agy!AnswerTo(u)' = Agy!AnswerTo(u) /\ child'[u].got = child[u].got
    BY DEF OnlyAgy, Agy!WorkOn, Agy!AnswerTo
  <1>2. /\ W' = [W EXCEPT ![t] = Agy!WorkOn(t)']
        /\ A' = [A EXCEPT ![t] = Agy!AnswerTo(t)']
        /\ D' = [D EXCEPT ![t] = child'[t].got]
    BY <1>1
  <1>3. /\ Agy!WorkOn(t)' = Agy!WorkOn(t) => W' = W
        /\ Agy!AnswerTo(t)' = Agy!AnswerTo(t) => A' = A
        /\ child'[t].got = child[t].got => D' = D
    BY <1>1
  <1>4. W[t] = Agy!WorkOn(t) /\ A[t] = Agy!AnswerTo(t) /\ D[t] = child[t].got
        /\ \A u \in Agy!AgyTurns : W[u] = Agy!WorkOn(u)
    OBVIOUS
  <1>5. AgyNobody => \A u \in Agy!AgyTurns : W[u] # "running"
    BY <1>4 DEF AgyNobody, Agy!WorkOn
  <1>6. \/ W' = W /\ D' = D /\ A' = A
        \/ Agy!Native!Begin(t) \/ Agy!Native!Give(t) \/ Agy!Native!End(t) \/ Agy!Native!Deny(t)
        \/ \E v \in Agy!Verdicts : Agy!Native!Conclude(t, v)
    <2> HIDE DEF W, A, D
    <2> QED
      BY <1>2, <1>3, <1>4, <1>5, Zenon
         DEF AgyTurnMoves, Moves, W, A, D, Agy!Native!Begin, Agy!Native!Give, Agy!Native!End,
             Agy!Native!Deny, Agy!Native!Conclude
  <1> QED BY <1>6 DEF Agy!Native!Next, Agy!Native!vars

\* A step that leaves the child alone: the rows may answer, once.
LEMMA AgyAnswers ==
  ASSUME AgyInv, AgyInv', NEW t \in Agy!AgyTurns,
         child'[t].state = child[t].state, child'[t].got = child[t].got,
         \/ row'[t].attempt = row[t].attempt /\ row'[t].turn = row[t].turn
         \/ /\ row'[t].attempt = row[t].attempt /\ row'[t].turn # "rejected"
            /\ row[t].turn # "rejected" \/ row[t].attempt = "missing" \/ row[t].attempt \in Agy!Verdicts
         \/ /\ row'[t].attempt = row[t].attempt /\ row'[t].turn = "rejected"
            /\ row[t].attempt = "missing" \/ child[t].state # "up"
         \/ row[t].attempt = None /\ row'[t].attempt = "uncertain" /\ row'[t].turn = row[t].turn
         \/ /\ row[t].attempt = "uncertain" /\ row'[t].attempt = "missing" /\ row'[t].turn = row[t].turn
            /\ child[t].state # "up"
         \/ /\ row[t].attempt = "uncertain" /\ row'[t].attempt \in Agy!Verdicts /\ row'[t].turn = row[t].turn
            /\ child[t].state = "gone" /\ child[t].got
  PROVE  AgyTurnMoves(t)
  <1>1. /\ row[t].attempt \in Agy!Verdicts => Agy!AnswerTo(t) = row[t].attempt
        /\ row[t].attempt \notin Agy!Verdicts /\ (row[t].attempt = "missing" \/ row[t].turn = "rejected")
             => Agy!AnswerTo(t) = "absent"
        /\ row[t].attempt \notin Agy!Verdicts /\ row[t].attempt # "missing" /\ row[t].turn # "rejected"
             => Agy!AnswerTo(t) = "none"
    BY DEF Agy!AnswerTo
  <1>2. /\ row'[t].attempt \in Agy!Verdicts => Agy!AnswerTo(t)' = row'[t].attempt
        /\ row'[t].attempt \notin Agy!Verdicts /\ (row'[t].attempt = "missing" \/ row'[t].turn = "rejected")
             => Agy!AnswerTo(t)' = "absent"
        /\ row'[t].attempt \notin Agy!Verdicts /\ row'[t].attempt # "missing" /\ row'[t].turn # "rejected"
             => Agy!AnswerTo(t)' = "none"
    BY DEF Agy!AnswerTo
  <1>3. Agy!WorkOn(t)' = Agy!WorkOn(t)
    BY DEF Agy!WorkOn
  <1>4. /\ child[t].state # "up" => Agy!WorkOn(t) # "running"
        /\ child[t].state = "gone" => Agy!WorkOn(t) = "over"
    BY DEF Agy!WorkOn
  <1>5. row'[t].attempt = "missing" \/ row'[t].turn = "rejected" => ~child[t].got
    BY DEF AgyInv, AgyTurnInv, AgyRejection
  <1>6. row[t].attempt = "missing" \/ row[t].turn = "rejected" => ~child[t].got
    BY DEF AgyInv, AgyTurnInv, AgyRejection
  <1>7. {None, "uncertain", "missing"} \cap Agy!Verdicts = {} /\ None # "missing"
    BY AgyNone DEF Agy!Verdicts
  <1>8. CASE Agy!AnswerTo(t)' = Agy!AnswerTo(t)
    BY <1>3, <1>8 DEF AgyTurnMoves, Moves
  <1>9. CASE Agy!AnswerTo(t)' # Agy!AnswerTo(t)
    <2>1. row[t].attempt \notin Agy!Verdicts
      BY <1>1, <1>2, <1>7, <1>9
    <2>2. CASE row'[t].attempt \in Agy!Verdicts
      <3>1. row[t].attempt = "uncertain" /\ child[t].state = "gone" /\ child[t].got
        BY <1>7, <2>1, <2>2
      <3>2. Agy!AnswerTo(t) = "none" /\ Agy!AnswerTo(t)' \in Agy!Verdicts
        BY <1>1, <1>2, <1>6, <1>7, <2>2, <3>1
      <3> QED BY <1>3, <1>4, <3>1, <3>2 DEF AgyTurnMoves, Moves
    <2>3. CASE row'[t].attempt \notin Agy!Verdicts
      <3>1. Agy!AnswerTo(t) = "none" /\ Agy!AnswerTo(t)' = "absent"
        BY <1>1, <1>2, <1>7, <1>9, <2>1, <2>3
      <3>2. row[t].attempt # "missing" /\ (row'[t].attempt = "missing" \/ row'[t].turn = "rejected")
            /\ row[t].turn # "rejected"
        BY <1>1, <1>2, <2>1, <2>3, <3>1
      <3>3. child[t].state # "up" /\ ~child[t].got
        BY <1>5, <3>2
      <3> QED BY <1>3, <1>4, <3>1, <3>3 DEF AgyTurnMoves, Moves
    <2> QED BY <2>2, <2>3
  <1> QED BY <1>8, <1>9

\* A step that leaves the rows' answer alone: the child may end.
LEMMA AgyEnds ==
  ASSUME NEW t \in Agy!AgyTurns, child'[t].got = child[t].got,
         row'[t].attempt = row[t].attempt, row'[t].turn = row[t].turn,
         \/ child'[t].state = child[t].state
         \/ child[t].state \in {"up", "orphan", "gone"} /\ child'[t].state \in {"orphan", "gone"}
  PROVE  AgyTurnMoves(t)
  <1>1. Agy!AnswerTo(t)' = Agy!AnswerTo(t)
    BY DEF Agy!AnswerTo
  <1>2. CASE child'[t].state = child[t].state
    BY <1>1, <1>2 DEF AgyTurnMoves, Moves, Agy!WorkOn
  <1>3. CASE child[t].state \in {"up", "orphan", "gone"} /\ child'[t].state \in {"orphan", "gone"}
    <2>1. Agy!WorkOn(t) \in {"running", "over"} /\ Agy!WorkOn(t)' = "over"
      BY <1>3 DEF Agy!WorkOn
    <2> QED BY <1>1, <2>1 DEF AgyTurnMoves, Moves
  <1> QED BY <1>2, <1>3

\* A dispatch that gives up before there is a child, or finds it gone, and one that goes on.
LEMMA AgyWaits ==
  ASSUME AgyInv, AgyInv', NEW t \in Agy!AgyTurns, AgyGave(t),
         \/ Agy!ReleaseTurn(t) \/ Agy!RegisterWorker(t) \/ Agy!AcquireSlot(t) \/ Agy!CheckUnresolved(t)
         \/ Agy!Gates(t) \/ Agy!VerifyInit(t) \/ Agy!InsertAttemptAndReserve(t) \/ Agy!RecordStarted(t)
  PROVE  AgyGave(t)' /\ AgyTurnMoves(t)
  <1>1. AgyTyped /\ row[t] \in AgyRows /\ AgyPhase(t)
    BY DEF AgyInv, AgyTyped, AgyTurnInv
  <1>2. UNCHANGED <<run, child>>
    BY DEF Agy!ReleaseTurn, Agy!RegisterWorker, Agy!AcquireSlot, Agy!CheckUnresolved, Agy!Gates,
           Agy!VerifyInit, Agy!InsertAttemptAndReserve, Agy!RecordStarted, Agy!Dispatching
  <1>3. /\ pc'[t] = "reject" => pc[t] \in AgyChildless
        /\ pc'[t] = "abort" => pc[t] \in AgyStarted
        /\ pc'[t] # "publish"
    BY <1>1
       DEF Agy!ReleaseTurn, Agy!RegisterWorker, Agy!AcquireSlot, Agy!CheckUnresolved, Agy!Gates,
           Agy!VerifyInit, Agy!InsertAttemptAndReserve, Agy!RecordStarted, Agy!Reject, Agy!Goto,
           AgyTyped, AgyChildless, AgyStarted
  <1>4. row[t].attempt # "missing" /\ row[t].attempt \notin Agy!Verdicts /\ row[t].turn # "rejected"
    <2>1. \/ Agy!ReleaseTurn(t)
          \/ pc[t] \in {"register", "dispatch", "unresolved", "gates", "init", "insert", "started"}
      BY DEF Agy!ReleaseTurn, Agy!RegisterWorker, Agy!AcquireSlot, Agy!CheckUnresolved, Agy!Gates,
             Agy!VerifyInit, Agy!InsertAttemptAndReserve, Agy!RecordStarted
    <2>2. Agy!ReleaseTurn(t) => pc[t] = "none"
      BY <1>1 DEF Agy!ReleaseTurn, AgyPhase
    <2> QED BY <2>1, <2>2, AgyUndecided DEF AgyUnwritten, AgyChildless
  <1>5. \/ row'[t].attempt = row[t].attempt /\ row'[t].turn \in {row[t].turn, "running"}
        \/ row[t].attempt = None /\ row'[t].attempt = "uncertain" /\ row'[t].turn = row[t].turn
    <2>1. CASE row' = row
      BY <2>1
    <2>2. CASE Agy!ReleaseTurn(t)
      <3> DEFINE r == [row[t] EXCEPT !.turn = "running"]
      <3>1. r \in AgyRows /\ r.turn = "running" /\ r.attempt = row[t].attempt /\ Agy!SetRow(t, r)
        BY <1>1, <2>2 DEF AgyRows, Agy!ReleaseTurn
      <3> HIDE DEF r
      <3> QED BY <1>1, <3>1, AgyRowSet DEF AgyRowIs
    <2>3. CASE Agy!InsertAttemptAndReserve(t) /\ row' # row
      <3> DEFINE r == [row[t] EXCEPT !.attempt = "uncertain", !.launch = "reserved"]
      <3>1. r \in AgyRows /\ r.turn = row[t].turn /\ r.attempt = "uncertain" /\ Agy!SetRow(t, r)
            /\ row[t].attempt = None
        BY <1>1, <2>3 DEF AgyRows, Agy!InsertAttemptAndReserve
      <3> HIDE DEF r
      <3> QED BY <1>1, <3>1, AgyRowSet DEF AgyRowIs
    <2>4. CASE Agy!RecordStarted(t) /\ row' # row
      <3> DEFINE r == [row[t] EXCEPT !.launch = "started"]
      <3>1. r \in AgyRows /\ r.turn = row[t].turn /\ r.attempt = row[t].attempt /\ Agy!SetRow(t, r)
        BY <1>1, <2>4 DEF AgyRows, Agy!RecordStarted
      <3> HIDE DEF r
      <3> QED BY <1>1, <3>1, AgyRowSet DEF AgyRowIs
    <2> QED BY <2>1, <2>2, <2>3, <2>4
            DEF Agy!RegisterWorker, Agy!AcquireSlot, Agy!CheckUnresolved, Agy!Gates, Agy!VerifyInit
  <1>6. row'[t].turn # "rejected"
    BY <1>4, <1>5
  <1>7. AgyTurnMoves(t)
    BY <1>2, <1>4, <1>5, <1>6, AgyAnswers
  <1>8. AgyGave(t)'
    <2>1. row'[t].attempt \notin Agy!Verdicts
      BY <1>4, <1>5 DEF Agy!Verdicts
    <2> QED BY <1>1, <1>2, <1>3, <2>1 DEF AgyGave, AgyPhase
  <1> QED BY <1>7, <1>8

\* A child is started only while no other one is up.
LEMMA AgyBegins ==
  ASSUME AgyInv, AgyInv', NEW t \in Agy!AgyTurns, OnlyAgy(t), AgyGave(t), Agy!StartChild(t)
  PROVE  AgyGave(t)' /\ AgyTurnMoves(t)
  <1>1. pc[t] = "start" /\ UNCHANGED <<row, run>> /\ AgyTyped
    BY DEF Agy!StartChild, Agy!Dispatching, AgyInv
  <1>2. /\ child[t].state = "none" /\ child[t].got = FALSE
        /\ row[t].turn # "rejected" /\ row[t].attempt \notin Agy!Verdicts \cup {"missing"}
    BY <1>1, AgyUndecided DEF AgyUnwritten, AgyChildless
  <1>3. CASE child' = child /\ Agy!Goto(t, "start_failed")
    <2>1. pc'[t] = "start_failed"
      BY <1>1, <1>3 DEF Agy!Goto, AgyTyped
    <2> QED BY <1>1, <1>2, <1>3, <2>1, AgyAnswers DEF AgyGave
  <1>4. CASE child' = [child EXCEPT ![t].state = "up"] /\ Agy!Goto(t, "started")
    <2>1. pc'[t] = "started"
      BY <1>1, <1>4 DEF Agy!Goto, AgyTyped
    <2>2. child'[t].state = "up" /\ child'[t].got = child[t].got
      BY <1>1, <1>4, AgyChildSet DEF AgyChildIs, AgyTyped, AgyChildren
    <2>3. ASSUME NEW u \in Agy!AgyTurns, child[u].state = "up" PROVE FALSE
      <3>1. u # t /\ child'[u].state = "up"
        BY <1>2, <2>3 DEF OnlyAgy
      <3>2. slot' = u /\ slot' = t
        BY <2>2, <3>1 DEF AgyInv, AgySlot
      <3> QED BY <3>1, <3>2
    <2>4. Agy!AnswerTo(t) = "none" /\ Agy!AnswerTo(t)' = "none"
      BY <1>1, <1>2 DEF Agy!AnswerTo
    <2>5. Agy!WorkOn(t) = "none" /\ Agy!WorkOn(t)' = "running"
      BY <1>2, <2>2 DEF Agy!WorkOn
    <2>6. AgyTurnMoves(t)
      BY <2>2, <2>3, <2>4, <2>5 DEF AgyTurnMoves, Moves, AgyNobody
    <2> QED BY <1>1, <1>2, <2>1, <2>2, <2>6 DEF AgyGave
  <1> QED BY <1>3, <1>4 DEF Agy!StartChild

\* An attempt is called missing when its child never was, or is gone.
LEMMA AgyDenies ==
  ASSUME AgyInv, AgyInv', NEW t \in Agy!AgyTurns, AgyGave(t),
         Agy!RecordStartFailed(t) \/ Agy!AbortMissing(t)
  PROVE  AgyGave(t)' /\ AgyTurnMoves(t)
  <1>1. AgyTyped /\ row[t] \in AgyRows /\ AgyPhase(t)
    BY DEF AgyInv, AgyTyped, AgyTurnInv
  <1>2. pc[t] \in {"start_failed", "missing"} /\ UNCHANGED <<run, child>> /\ pc'[t] \in {"reject", "gone"}
    BY <1>1 DEF Agy!RecordStartFailed, Agy!AbortMissing, Agy!Dispatching, Agy!Reject, Agy!WorkerEnds,
                Agy!Goto, AgyTyped
  <1>3. child[t].state \in {"none", "gone"}
    BY <1>1, <1>2 DEF AgyPhase, AgyChildless
  <1>4. row[t].attempt \notin Agy!Verdicts
    BY <1>2, AgyUndecided DEF AgyUnwritten, AgyChildless
  <1>5. /\ row'[t].turn = row[t].turn
        /\ row'[t].attempt = row[t].attempt \/ (row[t].attempt = "uncertain" /\ row'[t].attempt = "missing")
    <2>1. CASE row' = row
      BY <2>1
    <2>2. CASE Agy!RecordStartFailed(t) /\ row' # row
      <3> DEFINE a == IF row[t].attempt = "uncertain" THEN "missing" ELSE row[t].attempt
                 r == [row[t] EXCEPT !.launch = "start_failed", !.attempt = a]
      <3>1. Agy!SetRow(t, r)
        BY <1>1, <2>2 DEF Agy!RecordStartFailed, AgyRows
      <3>2. r \in AgyRows /\ r.turn = row[t].turn /\ r.attempt = a
        BY <1>1 DEF AgyRows
      <3> HIDE DEF r
      <3> QED BY <1>1, <3>1, <3>2, AgyRowSet DEF AgyRowIs
    <2>3. CASE Agy!AbortMissing(t) /\ row' # row
      <3> DEFINE r == [row[t] EXCEPT !.attempt = "missing"]
      <3>1. Agy!SetRow(t, r) /\ row[t].attempt = "uncertain"
        BY <1>1, <2>3 DEF Agy!AbortMissing
      <3>2. r \in AgyRows /\ r.turn = row[t].turn /\ r.attempt = "missing"
        BY <1>1 DEF AgyRows
      <3> HIDE DEF r
      <3> QED BY <1>1, <3>1, <3>2, AgyRowSet DEF AgyRowIs
    <2> QED BY <2>1, <2>2, <2>3
  <1>6. AgyTurnMoves(t)
    BY <1>2, <1>3, <1>5, AgyAnswers
  <1>7. row'[t].attempt \notin Agy!Verdicts
    BY <1>4, <1>5 DEF Agy!Verdicts
  <1> QED BY <1>2, <1>3, <1>6, <1>7 DEF AgyGave

\* The prompt is given to a child that is up; the run is of a child that got it.
LEMMA AgyGives ==
  ASSUME AgyInv, AgyInv', NEW t \in Agy!AgyTurns, AgyGave(t), Agy!WriteFirstByte(t) \/ Agy!PublishRun(t)
  PROVE  AgyGave(t)' /\ AgyTurnMoves(t)
  <1>1. AgyTyped /\ AgyPhase(t) /\ row' = row
    BY DEF AgyInv, AgyTurnInv, Agy!WriteFirstByte, Agy!PublishRun
  <1>2. CASE Agy!PublishRun(t)
    <2>1. pc[t] = "publish" /\ pc'[t] \in {"collect", "gone"} /\ child' = child
      BY <1>1, <1>2 DEF Agy!PublishRun, Agy!WorkerEnds, Agy!Goto, AgyTyped
    <2> QED BY <1>1, <2>1, AgyAnswers DEF AgyGave
  <1>3. CASE Agy!WriteFirstByte(t)
    <2>1. pc[t] = "write" /\ run' = run
      BY <1>3 DEF Agy!WriteFirstByte, Agy!Dispatching
    <2>2. child[t].got = FALSE /\ child[t].state \in {"up", "gone"}
      BY <2>1, AgyUndecided DEF AgyUnwritten, AgyStarted
    <2>3. CASE child' = child /\ Agy!Goto(t, "abort")
      <3>1. pc'[t] = "abort"
        BY <1>1, <2>3 DEF Agy!Goto, AgyTyped
      <3> QED BY <1>1, <2>1, <2>2, <2>3, <3>1, AgyAnswers DEF AgyGave
    <2>4. CASE /\ child[t].state = "up" /\ child' = [child EXCEPT ![t].got = TRUE]
               /\ Agy!Goto(t, "publish")
      <3>1. pc'[t] = "publish"
        BY <1>1, <2>4 DEF Agy!Goto, AgyTyped
      <3>2. child'[t].got = TRUE /\ child'[t].state = "up"
        BY <1>1, <2>4, AgyChildSet DEF AgyChildIs
      <3>3. /\ Agy!WorkOn(t) = "running" /\ Agy!WorkOn(t)' = "running"
            /\ Agy!AnswerTo(t)' = Agy!AnswerTo(t)
        BY <1>1, <2>4, <3>2 DEF Agy!WorkOn, Agy!AnswerTo
      <3>4. AgyTurnMoves(t)
        BY <2>2, <3>2, <3>3 DEF AgyTurnMoves, Moves
      <3> QED BY <3>1, <3>2, <3>4 DEF AgyGave
    <2> QED BY <1>3, <2>3, <2>4 DEF Agy!WriteFirstByte
  <1> QED BY <1>2, <1>3

\* A child ends: by itself, killed, or read to its end.
LEMMA AgyStops ==
  ASSUME AgyInv, AgyInv', NEW t \in Agy!AgyTurns, AgyGave(t),
         \/ Agy!AbortKill(t) \/ (\E e \in Agy!Events : Agy!ReadEvent(t, e)) \/ Agy!ReadMalformed(t)
         \/ Agy!ReadEnd(t) \/ Agy!Settle(t) \/ Agy!FinishRun(t) \/ Agy!CancelStep(t) \/ Agy!ChildExit(t)
  PROVE  AgyGave(t)' /\ AgyTurnMoves(t)
  <1>1. AgyTyped /\ AgyTurnInv(t) /\ child[t] \in AgyChildren /\ row[t] \in AgyRows /\ run[t] \in AgyRuns
    BY DEF AgyInv, AgyTyped
  <1>2. row'[t].attempt = row[t].attempt /\ row'[t].turn = row[t].turn
    <2>1. \/ row' = row \/ row' = [row EXCEPT ![t].launch = "dead"] \/ row' = [row EXCEPT ![t].accepted = TRUE]
      BY DEF Agy!AbortKill, Agy!ReadEvent, Agy!ReadMalformed, Agy!ReadEnd, Agy!Settle, Agy!FinishRun,
             Agy!CancelStep, Agy!TurnBound, Agy!Cancel, Agy!SendInterrupt, Agy!GraceKill, Agy!ChildExit,
             Agy!Running
    <2> QED BY <1>1, <2>1, AgyRowSet DEF AgyRowIs
  <1>3. child'[t].got = child[t].got /\ child'[t].state \in {child[t].state, "gone"}
    <2>1. CASE child' = child
      BY <2>1
    <2>2. CASE child' = [child EXCEPT ![t].state = "gone"]
      BY <1>1, <2>2, AgyChildSet DEF AgyChildIs, AgyChildren
    <2>3. ASSUME NEW e \in Agy!Events, NEW k \in BOOLEAN, Agy!Said(t, e, k)
          PROVE  child'[t].got = child[t].got /\ child'[t].state \in {child[t].state, "gone"}
      BY <1>1, <2>3, AgySaid DEF AgyChildIs
    <2>4. CASE \E e \in Agy!Events : Agy!ReadEvent(t, e)
      BY <2>3, <2>4 DEF Agy!ReadEvent, Agy!Drifts
    <2>5. CASE Agy!ReadMalformed(t)
      BY <2>3, <2>5 DEF Agy!ReadMalformed, Agy!Events
    <2>6. CASE Agy!FinishRun(t)
      <3> DEFINE d == IF row[t].attempt \in Agy!Verdicts THEN child[t].said ELSE {}
      <3>1. child' = [child EXCEPT ![t].said = d] /\ d \in SUBSET ({"bad", "accept"} \cup Agy!Results)
        BY <1>1, <2>6 DEF Agy!FinishRun, AgyTyped, AgyChildren
      <3> HIDE DEF d
      <3> QED BY <1>1, <3>1, AgyChildSet DEF AgyChildIs, AgyChildren
    <2> QED BY <2>1, <2>2, <2>4, <2>5, <2>6
            DEF Agy!AbortKill, Agy!ReadEnd, Agy!Settle, Agy!CancelStep, Agy!TurnBound, Agy!Cancel,
                Agy!SendInterrupt, Agy!GraceKill, Agy!ChildExit, Agy!Running
  <1>4. child'[t].state # child[t].state => child[t].state \in {"up", "orphan", "gone"}
    <2>1. ASSUME Agy!Live(t) PROVE child[t].state \in {"up", "gone"}
      BY <1>1, <2>1 DEF AgyTurnInv, AgyPhase, Agy!Live, AgyRuns
    <2>2. child' = child \/ pc[t] = "abort" \/ Agy!Live(t) \/ child[t].state \in {"up", "orphan"}
      BY DEF Agy!AbortKill, Agy!ReadEvent, Agy!ReadMalformed, Agy!ReadEnd, Agy!Settle, Agy!FinishRun,
             Agy!CancelStep, Agy!TurnBound, Agy!Cancel, Agy!SendInterrupt, Agy!GraceKill, Agy!ChildExit,
             Agy!Running, Agy!Live
    <2> QED BY <2>1, <2>2 DEF AgyGave
  <1>5. AgyTurnMoves(t)
    BY <1>2, <1>3, <1>4, AgyEnds
  <1>6. pc'[t] = pc[t] \/ pc'[t] = "missing"
    BY <1>1 DEF Agy!AbortKill, Agy!Goto, AgyTyped, Agy!ReadEvent, Agy!ReadMalformed, Agy!ReadEnd,
                Agy!Settle, Agy!FinishRun, Agy!CancelStep, Agy!TurnBound, Agy!Cancel, Agy!SendInterrupt,
                Agy!GraceKill, Agy!ChildExit, Agy!Running
  <1>7. run'[t].pc # "none" => run[t].pc # "none"
    <2>1. run' = run \/ run[t].pc # "none"
      BY DEF Agy!AbortKill, Agy!Dispatching, Agy!ReadEvent, Agy!ReadMalformed, Agy!ReadEnd, Agy!Settle,
             Agy!FinishRun, Agy!CancelStep, Agy!TurnBound, Agy!Cancel, Agy!SendInterrupt, Agy!GraceKill,
             Agy!ChildExit, Agy!Running
    <2> QED BY <2>1
  <1> QED BY <1>2, <1>3, <1>4, <1>5, <1>6, <1>7 DEF AgyGave

\* A verdict is recorded when the child that got the prompt is gone.
LEMMA AgyConcluded ==
  ASSUME AgyInv, AgyInv', NEW t \in Agy!AgyTurns, AgyGave(t), Agy!SetAttemptTerminal(t)
  PROVE  AgyGave(t)' /\ AgyTurnMoves(t)
  <1>1. AgyTyped /\ AgyPhase(t) /\ row[t] \in AgyRows
    BY DEF AgyInv, AgyTyped, AgyTurnInv
  <1>2. run[t].pc \in Agy!Verdicts /\ UNCHANGED <<pc, child>>
    BY DEF Agy!SetAttemptTerminal, Agy!Running
  <1>3. child[t].state = "gone" /\ child[t].got
    BY <1>1, <1>2 DEF AgyPhase, AgyGave, Agy!Verdicts
  <1>4. \/ row' = row
        \/ /\ row[t].attempt = "uncertain" /\ row'[t].turn = row[t].turn
           /\ row'[t].attempt \in Agy!Verdicts
    <2> DEFINE r == [row[t] EXCEPT !.attempt = run[t].pc]
    <2>1. \/ row' = row
          \/ row[t].attempt = "uncertain" /\ Agy!SetRow(t, r)
      BY DEF Agy!SetAttemptTerminal
    <2>2. r \in AgyRows /\ r.turn = row[t].turn /\ r.attempt = run[t].pc
      BY <1>1, <1>2 DEF AgyRows
    <2> HIDE DEF r
    <2> QED BY <1>1, <1>2, <2>1, <2>2, AgyRowSet DEF AgyRowIs
  <1>5. AgyTurnMoves(t)
    BY <1>2, <1>3, <1>4, AgyAnswers
  <1> QED BY <1>2, <1>3, <1>5 DEF AgyGave

\* What the supervisor, a reconciliation and a disposition record is the attempt's answer.
LEMMA AgyTells ==
  ASSUME AgyInv, AgyInv', NEW t \in Agy!AgyTurns, AgyGave(t), Agy!ServiceStep(t)
  PROVE  AgyGave(t)' /\ AgyTurnMoves(t)
  <1>1. AgyTyped /\ row[t] \in AgyRows
    BY DEF AgyInv, AgyTyped
  <1>2. UNCHANGED <<run, child>> /\ (pc'[t] = pc[t] \/ pc'[t] = "gone")
    BY <1>1
       DEF Agy!ServiceStep, Agy!RecordRejected, Agy!CollectUntilTerminal, Agy!Reconcile,
           Agy!DisposeBeforeWorker, Agy!ResolveTurnUncertainty, Agy!WorkerEnds, Agy!Goto, Agy!Observing,
           AgyTyped
  <1>3. CASE row' = row
    BY <1>2, <1>3, AgyAnswers DEF AgyGave
  <1>4. ASSUME NEW v \in {"rejected"} \cup Agy!Verdicts, Agy!Record(t, v),
               v = "rejected" => row[t].attempt = "missing" \/ child[t].state # "up",
               v \in Agy!Verdicts => row[t].attempt = v
        PROVE  AgyGave(t)' /\ AgyTurnMoves(t)
    <2>1. row'[t].attempt = row[t].attempt /\ row'[t].turn \in {row[t].turn, v}
      BY <1>4, AgyRecordIs DEF AgyRowIs
    <2>2. "rejected" \notin Agy!Verdicts
      BY DEF Agy!Verdicts
    <2>3. AgyTurnMoves(t)
      BY <1>2, <1>4, <2>1, <2>2, AgyAnswers
    <2> QED BY <1>2, <2>1, <2>3 DEF AgyGave
  <1>5. CASE Agy!RecordRejected(t) /\ row' # row
    <2>1. pc[t] = "reject" /\ Agy!Record(t, "rejected")
      BY <1>5 DEF Agy!RecordRejected
    <2>2. child[t].state # "up" /\ "rejected" \notin Agy!Verdicts
      BY <2>1 DEF AgyGave, Agy!Verdicts
    <2> QED BY <1>4, <2>1, <2>2
  <1>6. CASE (Agy!CollectUntilTerminal(t) \/ Agy!Reconcile(t)) /\ row' # row
    <2>1. PICK v : v = Agy!Evidence(t)
      OBVIOUS
    <2>2. v # None /\ Agy!Record(t, v)
      BY <1>6, <2>1 DEF Agy!CollectUntilTerminal, Agy!Reconcile
    <2>3. /\ v \in {"rejected"} \cup Agy!Verdicts /\ "rejected" \notin Agy!Verdicts
          /\ v = "rejected" => row[t].attempt = "missing"
          /\ v \in Agy!Verdicts => row[t].attempt = v
      BY <2>1, <2>2, AgyEvidence DEF Agy!Verdicts
    <2> QED BY <1>4, <2>2, <2>3
  <1>7. CASE Agy!ResolveTurnUncertainty(t)
    <2> DEFINE r == [row[t] EXCEPT !.disposed = TRUE, !.turn = "abandoned"]
    <2>1. Agy!SetRow(t, r) /\ row[t].turn = "running" /\ pc' = pc
      BY <1>7 DEF Agy!ResolveTurnUncertainty, Agy!Observing
    <2>2. r \in AgyRows /\ r.turn = "abandoned" /\ r.attempt = row[t].attempt
      BY <1>1 DEF AgyRows
    <2> HIDE DEF r
    <2>3. row'[t].turn = "abandoned" /\ row'[t].attempt = row[t].attempt
      BY <1>1, <2>1, <2>2, AgyRowSet DEF AgyRowIs
    <2>4. AgyTurnMoves(t)
      BY <1>2, <2>1, <2>3, AgyAnswers
    <2> QED BY <1>2, <2>1, <2>3, <2>4 DEF AgyGave
  <1>8. CASE Agy!DisposeBeforeWorker(t)
    BY <1>3, <1>8 DEF Agy!DisposeBeforeWorker
  <1> QED BY <1>3, <1>5, <1>6, <1>7, <1>8 DEF Agy!ServiceStep

\* A crash ends the work on the one turn whose child is up, and answers nothing.
LEMMA AgyLost ==
  ASSUME AgyInv, \A t \in Agy!AgyTurns : AgyGave(t), Agy!Crash
  PROVE  /\ \A t \in Agy!AgyTurns : AgyGave(t)'
         /\ UNCHANGED Agy!Native!vars \/ Agy!Native!Next
  <1>1. row' = row /\ AgyTyped
    BY DEF Agy!Crash, AgyInv
  <1>2. ASSUME NEW t \in Agy!AgyTurns
        PROVE  /\ child'[t].got = child[t].got
               /\ child'[t].state = IF child[t].state = "up" THEN "orphan" ELSE child[t].state
               /\ run'[t].pc = "none" /\ pc'[t] \in {"none", "gone"}
    <2>1. child[t] \in AgyChildren
      BY <1>1 DEF AgyTyped
    <2> QED BY <2>1 DEF Agy!Crash, Agy!NoRun, AgyChildren
  <1>3. \A t \in Agy!AgyTurns : AgyGave(t)'
    BY <1>1, <1>2 DEF AgyGave
  <1>4. \A t \in Agy!AgyTurns :
          /\ Agy!AnswerTo(t)' = Agy!AnswerTo(t)
          /\ child[t].state # "up" => Agy!WorkOn(t)' = Agy!WorkOn(t)
          /\ child[t].state = "up" => Agy!WorkOn(t) = "running" /\ Agy!WorkOn(t)' = "over"
    BY <1>1, <1>2 DEF Agy!AnswerTo, Agy!WorkOn
  <1> DEFINE W == [t \in Agy!AgyTurns |-> Agy!WorkOn(t)]
             D == [t \in Agy!AgyTurns |-> child[t].got]
             A == [t \in Agy!AgyTurns |-> Agy!AnswerTo(t)]
  <1>5. D' = D /\ A' = A
    BY <1>2, <1>4
  <1>6. CASE AgyNobody
    <2>1. W' = W
      BY <1>4, <1>6 DEF AgyNobody
    <2> QED BY <1>3, <1>5, <2>1 DEF Agy!Native!vars
  <1>7. CASE ~AgyNobody
    <2>1. PICK t \in Agy!AgyTurns : child[t].state = "up"
      BY <1>7 DEF AgyNobody
    <2>2. \A u \in Agy!AgyTurns \ {t} : child[u].state # "up"
      BY <2>1 DEF AgyInv, AgySlot
    <2>3. W[t] = "running" /\ W' = [W EXCEPT ![t] = "over"]
      BY <1>4, <2>1, <2>2
    <2>4. Agy!Native!End(t)
      BY <1>5, <2>3, Zenon DEF Agy!Native!End
    <2> QED BY <1>3, <2>4 DEF Agy!Native!Next
  <1> QED BY <1>3, <1>6, <1>7

AgyWhole == AgyInv /\ \A t \in Agy!AgyTurns : AgyGave(t)

\* Every step of the adapter.
LEMMA AgyNativeNext ==
  ASSUME AgyWhole, Agy!Next
  PROVE  AgyWhole' /\ (UNCHANGED Agy!Native!vars \/ Agy!Native!Next)
  <1>1. AgyInv /\ AgyInv' /\ AgyTyped /\ AgyTyped'
    BY AgyNext DEF AgyWhole, AgyInv
  <1>2. ASSUME NEW t \in Agy!AgyTurns,
               \/ Agy!DispatchStep(t) \/ Agy!RunStep(t) \/ Agy!CancelStep(t) \/ Agy!ServiceStep(t)
               \/ Agy!ChildExit(t)
        PROVE  AgyWhole' /\ (UNCHANGED Agy!Native!vars \/ Agy!Native!Next)
    <2>1. OnlyAgy(t) /\ AgyGave(t)
      BY <1>1, <1>2, AgyTouches DEF AgyWhole
    <2>2. AgyGave(t)' /\ AgyTurnMoves(t)
      BY <1>1, <1>2, <2>1, AgyWaits, AgyBegins, AgyDenies, AgyGives, AgyStops, AgyConcluded, AgyTells
         DEF Agy!DispatchStep, Agy!RunStep
    <2>3. \A u \in Agy!AgyTurns : AgyGave(u)'
      BY <2>1, <2>2 DEF AgyWhole, OnlyAgy, AgyGave
    <2> QED BY <1>1, <2>1, <2>2, <2>3, AgyMove DEF AgyWhole
  <1>3. CASE Agy!Crash
    BY <1>1, <1>3, AgyLost DEF AgyWhole
  <1> QED BY <1>2, <1>3 DEF Agy!Next

\* Nothing has begun in a new conversation.
LEMMA AgyNativeInit == ASSUME Agy!Init PROVE AgyWhole /\ Agy!Native!Init
  <1>1. \A t \in Agy!AgyTurns :
          /\ row[t].turn = "queued" /\ row[t].attempt = None /\ pc[t] = "none" /\ run[t].pc = "none"
          /\ child[t].state = "none" /\ child[t].got = FALSE
    BY DEF Agy!Init, Agy!NoRun
  <1>2. \A t \in Agy!AgyTurns : Agy!WorkOn(t) = "none" /\ Agy!AnswerTo(t) = "none" /\ AgyGave(t)
    BY <1>1, AgyNone DEF Agy!WorkOn, Agy!AnswerTo, AgyGave
  <1> QED BY <1>1, <1>2, AgyInit DEF Agy!Native!Init, AgyWhole

\* The agy adapter implements NativeTurns, for any number of turns and crashes: a child is
\* started once for a turn and while no other one is up in this instance, and a turn is answered
\* once, after its child if it had one; "absent" is the answer only of a turn whose prompt no
\* child got, and of none that a child will get (Dispatch, abortPreWrite, runTurn, settle,
\* Collect, Reconcile).
THEOREM AgyRefinesTurns == MCSpec => AgyImplementsTurns
  <1> DEFINE I == part = "agy" => AgyWhole
             Step == part = "agy" =>
                       UNCHANGED <<row, child>> \/ UNCHANGED Agy!Native!vars \/ Agy!Native!Next
  <1>1. MCInit => I /\ (part = "agy" => Agy!Native!Init)
    BY AgyNativeInit DEF MCInit
  <1>2. I /\ [MCNext]_mcVars => I' /\ [Step]_(Agy!vars)
    <2> SUFFICES ASSUME I, [MCNext]_mcVars
                 PROVE  I' /\ [Step]_(Agy!vars)
      OBVIOUS
    <2>1. CASE part = "agy" /\ Agy!Next /\ part' = part
      <3>1. AgyWhole
        BY <2>1
      <3>2. AgyWhole' /\ (UNCHANGED Agy!Native!vars \/ Agy!Native!Next)
        BY <2>1, <3>1, AgyNativeNext
      <3> QED BY <3>2
    <2>2. CASE UNCHANGED mcVars
      <3>1. UNCHANGED <<row, slot, pc, run, cancel, child, worker, early, instance, part>>
        BY <2>2 DEF mcVars, vars, runVars, childVars, agyVars
      <3>2. ASSUME AgyWhole PROVE AgyWhole'
        <4>1. AgyInv'
          BY <2>2, <3>2, AgyKept DEF AgyWhole
        <4>2. \A t \in Agy!AgyTurns : AgyGave(t)'
          BY <3>1, <3>2 DEF AgyWhole, AgyGave
        <4> QED BY <4>1, <4>2 DEF AgyWhole
      <3>3. UNCHANGED Agy!vars
        BY <3>1 DEF Agy!vars
      <3> HIDE DEF AgyWhole
      <3> QED BY <3>1, <3>2, <3>3
    <2>3. CASE part # "agy" /\ part' = part
      BY <2>3
    <2> QED BY <2>1, <2>2, <2>3 DEF MCNext
  <1> HIDE DEF I
  <1> QED BY <1>1, <1>2, PTL DEF MCSpec, mcVars, AgyImplementsTurns
=============================================================================
