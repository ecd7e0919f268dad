------------------------ MODULE ControllerLeaseProofs ------------------------
(***************************************************************************)
(* ControllerLease for every set of operation ids, every bound on          *)
(* generations, revisions, instances and handlers in flight.               *)
(*                                                                         *)
(* A step changes the rows in one of six ways, whoever takes it; the       *)
(* lemma RowCases says so once, and the invariant of the rows, the         *)
(* refinement and the action properties are proved of the six ways.        *)
(***************************************************************************)
EXTENDS ControllerLease, TLAPS

-----------------------------------------------------------------------------
(* The ways a step can change the rows and the journal.                    *)

\* A grant is installed: over a retired or unadopted one, or over the active one.
Installs(o) ==
  \E req \in Requests, S \in {{}, {"active"}} :
    /\ Unused(o) /\ req.cmd \in {"adopt", "handoff"}
    /\ S = {} => ~adopted
    /\ InstallGrant(o, req, S)

\* A grant in force, or the bootstrap credential, is revoked.
Retires(o, e) ==
  \E req \in Requests :
    /\ Unused(o) /\ req.cmd = "revoke"
    /\ status[e] \in {"active", "legacy"}
    /\ status' = [status EXCEPT ![e] = "revoked"]
    /\ online' = [online EXCEPT ![e] = FALSE]
    /\ episode' = [episode EXCEPT ![e] = 0]
    /\ runLease' = NoLease
    /\ adopted' = StaysAdopted(e)
    /\ RecordJournalEntry(o, req, 0)
    /\ UNCHANGED <<grantedBy, rev, owner>>

\* The active grant g starts a new episode.
Connects(o, g) ==
  \E req \in Requests :
    /\ Unused(o) /\ req.cmd = "connect" /\ req.gen = g
    /\ g > 0 /\ status[g] = "active"
    /\ rev[g] < MaxRev
    /\ rev' = [rev EXCEPT ![g] = @ + 1]
    /\ episode' = [episode EXCEPT ![g] = rev[g] + 1]
    /\ owner' = [owner EXCEPT ![g] = instance]
    /\ online' = [online EXCEPT ![g] = TRUE]
    /\ RecordJournalEntry(o, req, rev[g] + 1)
    /\ fresh' = fresh \cup {<<g, rev[g] + 1>>}
    /\ UNCHANGED <<status, grantedBy, runLease, adopted>>

\* The current episode of the active grant g ends.
Disconnects(o, g) ==
  \E req \in Requests, r \in Revs :
    /\ Unused(o) /\ req.cmd = "disconnect"
    /\ status[g] = "active" /\ online[g]
    /\ online' = [online EXCEPT ![g] = FALSE]
    /\ episode' = [episode EXCEPT ![g] = 0]
    /\ RecordJournalEntry(o, req, r)
    /\ UNCHANGED <<status, grantedBy, rev, owner, runLease, adopted>>

\* Only the receipt of an operation without effect on the rows is recorded.
Notes(o) ==
  \E req \in Requests :
    /\ Unused(o) /\ req.cmd \in {"recover", "disconnect"}
    /\ RecordJournalEntry(o, req, 0)
    /\ UNCHANGED rowVars

Keeps == UNCHANGED <<rowVars, journal>>

RowStep ==
  \/ \E o \in OpIDs :
       \/ Installs(o)
       \/ \E g \in Gens : Retires(o, g) \/ Connects(o, g) \/ Disconnects(o, g)
       \/ Notes(o)
  \/ Keeps

\* Zero is a generation and a revision.
LEMMA ZeroIn == 0 \in Gens /\ 0 \in Revs /\ Gens \subseteq Nat /\ Revs \subseteq Nat
  BY LeaseAssumption DEF Gens, Revs

\* Every step changes the rows in one of the six ways.
LEMMA RowCases == ASSUME TypeOK, Next PROVE RowStep
  <1>1. ASSUME NEW o \in OpIDs, NEW e \in Gens, NEW mode \in {"bootstrap", "recovery"}, NEW l \in known,
               AdoptController(o, mode, e, l)
        PROVE  RowStep
    <2> DEFINE req == Request("adopt", mode, e, NoOp, 0)
    <2>1. req \in Requests /\ req.cmd = "adopt"
      BY ZeroIn DEF Request, Requests
    <2> HIDE DEF req
    <2>2. CASE \E g \in Gens : ResolveGrantReplay(o, req, g)
      BY <2>2 DEF ResolveGrantReplay, RowStep, Keeps
    <2>3. CASE Unused(o) /\ ~adopted /\ InstallGrant(o, req, {})
      BY <2>1, <2>3 DEF RowStep, Installs
    <2> QED BY <1>1, <2>2, <2>3 DEF AdoptController, req
  <1>2. ASSUME NEW o \in OpIDs, NEW e \in Gens, NEW mode \in {"recovery", "controller"}, NEW l,
               RevokeController(o, mode, e, l)
        PROVE  RowStep
    <2> DEFINE req == Request("revoke", mode, e, NoOp, 0)
    <2>1. req \in Requests /\ req.cmd = "revoke"
      BY ZeroIn DEF Request, Requests
    <2> HIDE DEF req
    <2>2. CASE Replays(o, req) /\ UNCHANGED <<rowVars, journal>>
      BY <1>2, <2>2 DEF RevokeController, RowStep, Keeps
    <2>3. CASE ~(Replays(o, req) /\ UNCHANGED <<rowVars, journal>>)
      <3>1. status[e] \in {"active", "legacy"}
        BY <1>2, <2>3 DEF RevokeController, Classifies, NewestWith, req
      <3>2. Retires(o, e)
        BY <1>2, <2>1, <2>3, <3>1 DEF RevokeController, Retires, req
      <3> QED BY <3>2 DEF RowStep
    <2> QED BY <2>2, <2>3
  <1>3. ASSUME NEW o \in OpIDs, NEW src \in OpIDs, NEW e \in Gens,
               RecoverControllerCredential(o, src, e)
        PROVE  RowStep
    <2> DEFINE req == Request("recover", "recovery", e, src, 0)
    <2>1. req \in Requests /\ req.cmd = "recover"
      BY ZeroIn DEF Request, Requests
    <2> HIDE DEF req
    <2>3. UNCHANGED rowVars
      BY <1>3 DEF RecoverControllerCredential
    <2>4. CASE UNCHANGED journal
      BY <2>3, <2>4 DEF RowStep, Keeps
    <2>5. CASE Unused(o) /\ RecordJournalEntry(o, req, 0)
      BY <2>1, <2>3, <2>5 DEF RowStep, Notes
    <2> QED BY <1>3, <2>4, <2>5 DEF RecoverControllerCredential, req
  <1>4. ASSUME NEW o \in OpIDs, NEW e \in Gens, NEW l \in known, HandoffController(o, e, l)
        PROVE  RowStep
    <2> DEFINE req == Request("handoff", "controller", e, NoOp, 0)
    <2>1. req \in Requests /\ req.cmd = "handoff"
      BY ZeroIn DEF Request, Requests
    <2> HIDE DEF req
    <2>2. CASE \E g \in Gens : ResolveGrantReplay(o, req, g)
      BY <2>2 DEF ResolveGrantReplay, RowStep, Keeps
    <2>3. CASE Unused(o) /\ InstallGrant(o, req, {"active"})
      <3>1. {"active"} # {}
        OBVIOUS
      <3> QED BY <2>1, <2>3, <3>1 DEF RowStep, Installs
    <2> QED BY <1>4, <2>2, <2>3 DEF HandoffController, req
  <1>5. ASSUME NEW o \in OpIDs, NEW g \in Gens, NEW l \in known, NEW route \in Routes,
               ConnectRunController(o, route, g, l)
        PROVE  RowStep
    <2> DEFINE req == Request("connect", "controller", g, NoOp, 0)
    <2>1. req \in Requests /\ req.cmd = "connect" /\ req.gen = g
      BY ZeroIn DEF Request, Requests
    <2> HIDE DEF req
    <2>2. CASE Replays(o, req) /\ UNCHANGED <<rowVars, journal>>
      BY <1>5, <2>2 DEF ConnectRunController, RowStep, Keeps
    <2>3. CASE ~(Replays(o, req) /\ UNCHANGED <<rowVars, journal>>)
      <3>1. Connects(o, g)
        BY <1>5, <2>1, <2>3 DEF ConnectRunController, Connects, Classifies, req
      <3> QED BY <3>1 DEF RowStep
    <2> QED BY <2>2, <2>3
  <1>6. ASSUME NEW o \in OpIDs, NEW g \in Gens, NEW l \in known, NEW att \in Revs,
               DisconnectRunController(o, g, l, att)
        PROVE  RowStep
    <2> DEFINE req == Request("disconnect", "controller", g, NoOp, att)
    <2>1. req \in Requests /\ req.cmd = "disconnect"
      BY DEF Request, Requests
    <2> HIDE DEF req
    <2>2. status[g] = "active"
      BY <1>6 DEF DisconnectRunController, Classifies
    <2>3. CASE UNCHANGED <<rowVars, journal>>
      BY <2>3 DEF RowStep, Keeps
    <2>4. CASE /\ Unused(o) /\ Ends(g, att)
               /\ online' = [online EXCEPT ![g] = FALSE]
               /\ episode' = [episode EXCEPT ![g] = 0]
               /\ RecordJournalEntry(o, req, att)
               /\ UNCHANGED <<status, grantedBy, rev, owner, runLease, adopted>>
      <3>1. Disconnects(o, g)
        BY <2>1, <2>2, <2>4 DEF Disconnects, Ends
      <3> QED BY <3>1 DEF RowStep
    <2>5. CASE Unused(o) /\ RecordJournalEntry(o, req, 0) /\ UNCHANGED rowVars
      BY <2>1, <2>2, <2>5 DEF RowStep, Notes
    <2> QED BY <1>6, <2>3, <2>4, <2>5 DEF DisconnectRunController, req
  <1>7. ASSUME NEW l \in known, BeginDecision(l)
        PROVE  RowStep
    BY <1>7 DEF BeginDecision, RowStep, Keeps
  <1>8. ASSUME NEW t \in tasks, HandlerStep(t)
        PROVE  RowStep
    BY <1>8 DEF HandlerStep, RowStep, Keeps
  <1>9. ASSUME Restart
        PROVE  RowStep
    BY <1>9 DEF Restart, RowStep, Keeps
  <1>10. 0 \in Gens
    BY ZeroIn
  <1> QED BY <1>1, <1>2, <1>3, <1>4, <1>5, <1>6, <1>7, <1>8, <1>9, <1>10
          DEF Next, OperatorCommand, ControllerCommand

-----------------------------------------------------------------------------
(* The inductive invariant of the rows, for every choice of routes.        *)

\* The episode r of generation g is on record, or was.
Recorded(g, r) == status[g] # "none" /\ r <= rev[g]

\* Whatever is published, is about to be, or can be replayed is the name of an
\* episode that a connect of an installed generation committed.
EpisodesRecorded ==
  /\ attachment # NoAttachment => Recorded(attachment[1], attachment[2])
  /\ \A t \in tasks :
       /\ t.stage = "publish" => t.kind = "connect"
       /\ t.kind = "connect" => Recorded(t.gen, t.rev)
  /\ \A o \in OpIDs :
       journal[o] # NoEntry /\ journal[o].req.cmd = "connect" =>
         Recorded(journal[o].req.gen, journal[o].rev)

\* The bootstrap credential's generation is never in force, which is what makes
\* a revocation clear the adoption flag.
ProvenanceInactive == status[0] # "active"

\* Whoever answers with a secret has an attachment to invalidate first, and nobody but
\* these handlers and a disconnect invalidates; the bootstrap credential is known from
\* the start.
AnswersWait ==
  /\ 0 \in known
  /\ \A t \in tasks : t.stage = "clear" <=> t.kind \in {"retire", "again", "disconnect"}

RowInv == TypeOK /\ GrantInv /\ ProvenanceInactive /\ EpisodesRecorded /\ AnswersWait

\* The newest generation is the last one without a gap.
LEMMA NewestIs ==
  ASSUME TypeOK, GrantInv
  PROVE  /\ Newest \in Gens /\ Newest \in Nat /\ status[Newest] # "none"
         /\ \A g \in Gens : status[g] # "none" <=> g <= Newest
  <1>1. PICK n \in Gens : \A g \in Gens : status[g] # "none" <=> g <= n
    BY DEF GrantInv
  <1>2. n \in Nat /\ n <= n
    BY ZeroIn
  <1>3. /\ status[n] # "none"
        /\ \A h \in Gens : status[h] # "none" => h <= n
    BY <1>1, <1>2
  <1>4. /\ Newest \in Gens
        /\ status[Newest] # "none"
        /\ \A h \in Gens : status[h] # "none" => h <= Newest
    BY <1>3 DEF Newest
  <1>5. Newest = n
    BY <1>1, <1>3, <1>4, ZeroIn
  <1> QED BY <1>1, <1>3, <1>5, ZeroIn

\* At most one generation is in force, and then it is the newest.
LEMMA OneActive ==
  ASSUME TypeOK, GrantInv, NEW g \in Gens, status[g] = "active"
  PROVE  /\ g = Newest
         /\ \A h \in Gens : status[h] = "active" => h = g
  <1>1. \A h \in Gens : status[h] # "none" => h <= g
    BY DEF GrantInv
  <1>2. Newest \in Gens /\ status[Newest] # "none" /\ g <= Newest
    BY NewestIs
  <1>3. \A h \in Gens : status[h] = "active" => g <= h
    BY DEF GrantInv
  <1> QED BY <1>1, <1>2, <1>3, ZeroIn

\* An installed generation follows the newest one, and was not on record.
LEMMA NextGenIs ==
  ASSUME TypeOK, GrantInv, NextGen \in Gens
  PROVE  NextGen > 0 /\ status[NextGen] = "none" /\ \A g \in Gens : g <= NextGen <=> g <= Newest \/ g = NextGen
  <1>1. Newest \in Nat /\ NextGen = Newest + 1 /\ NextGen \in Nat
    BY NewestIs, ZeroIn DEF NextGen
  <1>2. \A h \in Gens : h \in Nat /\ (status[h] # "none" <=> h <= Newest)
    BY NewestIs, ZeroIn
  <1> QED BY <1>1, <1>2

\* An entry is an entry, and tells so.
LEMMA Journaled ==
  ASSUME TypeOK, NEW o \in OpIDs, Unused(o), NEW req \in Requests, NEW r \in Revs,
         RecordJournalEntry(o, req, r)
  PROVE  /\ journal' \in [OpIDs -> Entry \cup {NoEntry}]
         /\ journal'[o] # NoEntry /\ journal'[o].req = req /\ journal'[o].rev = r
         /\ \A p \in OpIDs : p # o => journal'[p] = journal[p]
         /\ \A p \in OpIDs : journal[p] # NoEntry => journal'[p] = journal[p]
  <1>1. [req |-> req, rev |-> r] \in Entry
    BY DEF Entry
  <1> QED BY <1>1, EntryAssumption DEF TypeOK, RecordJournalEntry, Unused

\* The columns and the journal have their types.
RowTyped ==
  /\ status \in [Gens -> {"none", "legacy", "active"} \cup Retired]
  /\ grantedBy \in [Gens -> OpIDs \cup {NoOp}]
  /\ online \in [Gens -> BOOLEAN]
  /\ episode \in [Gens -> Revs]
  /\ rev \in [Gens -> Revs]
  /\ owner \in [Gens -> Nat]
  /\ runLease \in Gens \cup {NoLease}
  /\ adopted \in BOOLEAN
  /\ journal \in [OpIDs -> Entry \cup {NoEntry}]

\* Each of the six ways keeps the types of the rows.
LEMMA RowTypesKept == ASSUME TypeOK, GrantInv, RowStep PROVE RowTyped'
  <1>1. ASSUME NEW o \in OpIDs, Installs(o) PROVE RowTyped'
    <2>1. PICK req \in Requests, S \in {{}, {"active"}} :
            /\ Unused(o) /\ req.cmd \in {"adopt", "handoff"}
            /\ S = {} => ~adopted
            /\ InstallGrant(o, req, S)
      BY <1>1 DEF Installs
    <2>2. status' \in [Gens -> {"none", "legacy", "active"} \cup Retired]
      BY <2>1 DEF InstallGrant, TypeOK, Retired
    <2>3. online' \in [Gens -> BOOLEAN] /\ adopted' \in BOOLEAN
      BY <2>1, Zenon DEF InstallGrant
    <2>4. episode' \in [Gens -> Revs] /\ rev' \in [Gens -> Revs] /\ owner' \in [Gens -> Nat]
      BY <2>1, ZeroIn DEF InstallGrant, TypeOK
    <2>5. grantedBy' \in [Gens -> OpIDs \cup {NoOp}] /\ runLease' \in Gens \cup {NoLease}
      BY <2>1 DEF InstallGrant, TypeOK
    <2>6. journal' \in [OpIDs -> Entry \cup {NoEntry}]
      BY <2>1, ZeroIn, Journaled DEF InstallGrant
    <2> QED BY <2>2, <2>3, <2>4, <2>5, <2>6 DEF RowTyped
  <1>2. ASSUME NEW o \in OpIDs, NEW e \in Gens, Retires(o, e) PROVE RowTyped'
    <2>1. journal' \in [OpIDs -> Entry \cup {NoEntry}]
      BY <1>2, ZeroIn, Journaled DEF Retires
    <2>2. adopted' \in BOOLEAN /\ online' \in [Gens -> BOOLEAN]
      BY <1>2, Zenon DEF Retires, StaysAdopted, TypeOK
    <2> QED BY <1>2, <2>1, <2>2, ZeroIn DEF Retires, RowTyped, TypeOK, Retired
  <1>3. ASSUME NEW o \in OpIDs, NEW g \in Gens, Connects(o, g) PROVE RowTyped'
    <2>1. rev[g] + 1 \in Revs
      BY <1>3, LeaseAssumption DEF Connects, Revs, TypeOK
    <2>2. journal' \in [OpIDs -> Entry \cup {NoEntry}]
      BY <1>3, <2>1, Journaled DEF Connects
    <2> QED BY <1>3, <2>1, <2>2 DEF Connects, RowTyped, TypeOK
  <1>4. ASSUME NEW o \in OpIDs, NEW g \in Gens, Disconnects(o, g) PROVE RowTyped'
    <2>1. journal' \in [OpIDs -> Entry \cup {NoEntry}]
      BY <1>4, Journaled DEF Disconnects
    <2> QED BY <1>4, <2>1, ZeroIn DEF Disconnects, RowTyped, TypeOK
  <1>6. ASSUME NEW o \in OpIDs, Notes(o) PROVE RowTyped'
    <2>1. journal' \in [OpIDs -> Entry \cup {NoEntry}]
      BY <1>6, ZeroIn, Journaled DEF Notes
    <2> QED BY <1>6, <2>1 DEF Notes, RowTyped, TypeOK, rowVars
  <1>7. ASSUME Keeps PROVE RowTyped'
    BY <1>7 DEF Keeps, RowTyped, TypeOK, rowVars
  <1> QED BY <1>1, <1>2, <1>3, <1>4, <1>6, <1>7 DEF RowStep

\* An installed grant is the only one in force, and nobody is connected yet.
LEMMA InstallKeepsGrants ==
  ASSUME TypeOK, GrantInv, ProvenanceInactive, NEW o \in OpIDs, Installs(o)
  PROVE  GrantInv' /\ ProvenanceInactive'
  <1>1. PICK req \in Requests, S \in {{}, {"active"}} :
          /\ Unused(o) /\ req.cmd \in {"adopt", "handoff"}
          /\ S = {} => ~adopted
          /\ InstallGrant(o, req, S)
    BY Installs(o) DEF Installs
  <1>2. /\ NextGen \in Gens /\ NextGen > 0 /\ status[NextGen] = "none"
        /\ \A g \in Gens : g <= NextGen <=> g <= Newest \/ g = NextGen
    BY <1>1, NextGenIs DEF InstallGrant
  <1>3. \A g \in Gens : status[g] # "none" <=> g <= Newest
    BY NewestIs
  <1> DEFINE n == NextGen
  <1>4. /\ n \in Gens /\ n > 0 /\ n \in Nat /\ status[n] = "none"
        /\ \A g \in Gens : g <= n <=> status[g] # "none" \/ g = n
    BY <1>2, <1>3, ZeroIn
  <1>5. /\ status' = [g \in Gens |->
               CASE g = n -> "active"
                 [] g # n /\ (status[g] \in S \/ (g = 0 /\ status[g] = "legacy")) -> "superseded"
                 [] OTHER -> status[g]]
        /\ grantedBy' = [grantedBy EXCEPT ![n] = o]
        /\ online' = [g \in Gens |-> online[g] /\ g # n /\ status[g] \notin S]
        /\ episode' = [g \in Gens |-> IF g = n \/ status[g] \in S THEN 0 ELSE episode[g]]
        /\ runLease' = n
        /\ adopted' = TRUE
        /\ RecordJournalEntry(o, req, 0)
    BY <1>1 DEF InstallGrant
  <1> HIDE DEF n
  <1>6. \A g \in Gens : g # n /\ status[g] = "active" => status[g] \in S
    BY <1>1 DEF GrantInv
  <1>7. \A g \in Gens : /\ status'[g] = "active" <=> g = n
                        /\ status'[g] # "none" <=> g <= n
                        /\ status'[g] # "legacy"
    BY <1>4, <1>5, <1>6 DEF GrantInv
  <1>8. \A g \in Gens : ~online'[g] /\ episode'[g] = 0
    <2> SUFFICES ASSUME NEW g \in Gens PROVE ~online'[g] /\ episode'[g] = 0
      OBVIOUS
    <2>1. online[g] => status[g] \in S
      BY <1>4, <1>6 DEF GrantInv
    <2>2. ~online[g] => episode[g] = 0
      BY DEF GrantInv
    <2> QED BY <1>5, <2>1, <2>2
  <1>9. /\ journal'[o] # NoEntry /\ journal'[o].req = req
        /\ \A p \in OpIDs : journal[p] # NoEntry => journal'[p] = journal[p]
    BY <1>1, <1>5, Journaled, ZeroIn
  <1>10. \A g \in Gens :
           g > 0 /\ status'[g] # "none" =>
             /\ grantedBy'[g] \in OpIDs
             /\ journal'[grantedBy'[g]] # NoEntry
             /\ journal'[grantedBy'[g]].req.cmd \in {"adopt", "handoff"}
    <2> SUFFICES ASSUME NEW g \in Gens, g > 0, status'[g] # "none"
                 PROVE  /\ grantedBy'[g] \in OpIDs
                        /\ journal'[grantedBy'[g]] # NoEntry
                        /\ journal'[grantedBy'[g]].req.cmd \in {"adopt", "handoff"}
      OBVIOUS
    <2>1. CASE g = n
      BY <1>1, <1>4, <1>5, <1>9, <2>1 DEF TypeOK
    <2>2. CASE g # n
      <3>1. status[g] # "none" /\ grantedBy'[g] = grantedBy[g]
        BY <1>4, <1>5, <1>7, <2>2 DEF TypeOK
      <3>2. /\ grantedBy[g] \in OpIDs
            /\ journal[grantedBy[g]] # NoEntry
            /\ journal[grantedBy[g]].req.cmd \in {"adopt", "handoff"}
        BY <3>1 DEF GrantInv
      <3> QED BY <1>9, <3>1, <3>2
    <2> QED BY <2>1, <2>2
  <1>11. \A g, h \in Gens : status'[g] = "active" /\ status'[h] # "none" => h <= g
    BY <1>7
  <1>12. \A g \in Gens : status'[g] \in {"active", "legacy"} <=> runLease' = g
    BY <1>5, <1>7
  <1>13. adopted' <=> \E g \in Gens : status'[g] = "active"
    BY <1>4, <1>5, <1>7
  <1>14. \E m \in Gens : \A g \in Gens : status'[g] # "none" <=> g <= m
    BY <1>4, <1>7
  <1>15. GrantInv'
    BY <1>7, <1>8, <1>10, <1>11, <1>12, <1>13, <1>14 DEF GrantInv
  <1>16. ProvenanceInactive'
    BY <1>4, <1>7, ZeroIn DEF ProvenanceInactive
  <1> QED BY <1>15, <1>16

\* A revocation takes the only grant in force out of force, and the adoption flag
\* with it.
LEMMA RetireKeepsGrants ==
  ASSUME TypeOK, GrantInv, ProvenanceInactive, NEW o \in OpIDs, NEW e \in Gens, Retires(o, e)
  PROVE  GrantInv' /\ ProvenanceInactive'
  <1>1. PICK req \in Requests :
          /\ Unused(o)
          /\ status[e] \in {"active", "legacy"}
          /\ status' = [status EXCEPT ![e] = "revoked"]
          /\ online' = [online EXCEPT ![e] = FALSE]
          /\ episode' = [episode EXCEPT ![e] = 0]
          /\ runLease' = NoLease
          /\ adopted' = (adopted /\ e = 0)
          /\ RecordJournalEntry(o, req, 0)
          /\ UNCHANGED <<grantedBy, rev>>
    BY DEF Retires, StaysAdopted
  <1>2. \A g \in Gens : status[g] \in {"active", "legacy"} => g = e
    <2>1. \A g \in Gens : status[g] \in {"active", "legacy"} => runLease = g
      BY DEF GrantInv
    <2> QED BY <1>1, <2>1
  <1>3. \A g \in Gens : /\ status'[g] \notin {"active", "legacy"}
                        /\ status'[g] # "none" <=> status[g] # "none"
    BY <1>1, <1>2 DEF TypeOK
  <1>4. \A g \in Gens : ~online'[g] /\ episode'[g] = 0
    <2> SUFFICES ASSUME NEW g \in Gens PROVE ~online'[g] /\ episode'[g] = 0
      OBVIOUS
    <2>1. g # e => ~online[g]
      BY <1>2 DEF GrantInv
    <2>2. ~online[g] => episode[g] = 0
      BY DEF GrantInv
    <2> QED BY <1>1, <2>1, <2>2 DEF TypeOK
  <1>5. ~adopted'
    <2>1. e = 0 => ~ \E g \in Gens : status[g] = "active"
      BY <1>1, <1>2 DEF ProvenanceInactive
    <2>2. e = 0 => ~adopted
      BY <2>1 DEF GrantInv
    <2> QED BY <1>1, <2>2
  <1>6. \A p \in OpIDs : journal[p] # NoEntry => journal'[p] = journal[p]
    BY <1>1, Journaled, ZeroIn
  <1>7. \A g \in Gens :
          g > 0 /\ status'[g] # "none" =>
            /\ grantedBy'[g] \in OpIDs
            /\ journal'[grantedBy'[g]] # NoEntry
            /\ journal'[grantedBy'[g]].req.cmd \in {"adopt", "handoff"}
    BY <1>1, <1>3, <1>6 DEF GrantInv
  <1>8. \E m \in Gens : \A g \in Gens : status'[g] # "none" <=> g <= m
    BY <1>3 DEF GrantInv
  <1>9. runLease' \notin Gens
    BY <1>1, LeaseAssumption
  <1>10. GrantInv'
    BY <1>3, <1>4, <1>5, <1>7, <1>8, <1>9 DEF GrantInv
  <1>11. ProvenanceInactive'
    BY <1>3, ZeroIn DEF ProvenanceInactive
  <1> QED BY <1>10, <1>11

\* A connect or a disconnect moves the episode of the active grant only.
LEMMA AttachKeepsGrants ==
  ASSUME TypeOK, GrantInv, ProvenanceInactive, NEW o \in OpIDs, NEW g \in Gens,
         Connects(o, g) \/ Disconnects(o, g)
  PROVE  GrantInv' /\ ProvenanceInactive'
  <1>1. /\ status[g] = "active" /\ UNCHANGED <<status, grantedBy, runLease, adopted>>
        /\ \A p \in OpIDs : journal[p] # NoEntry => journal'[p] = journal[p]
    <2>1. CASE Connects(o, g)
      <3>1. rev[g] + 1 \in Revs
        BY <2>1, LeaseAssumption DEF Connects, Revs, TypeOK
      <3> QED BY <2>1, <3>1, Journaled DEF Connects
    <2>2. CASE Disconnects(o, g)
      BY <2>2, Journaled DEF Disconnects
    <2> QED BY <2>1, <2>2
  <1>2. \A h \in Gens :
          /\ online'[h] => status[h] = "active" /\ episode'[h] = rev'[h] /\ rev'[h] > 0
          /\ ~online'[h] => episode'[h] = 0
    <2> SUFFICES ASSUME NEW h \in Gens
                 PROVE  /\ online'[h] => status[h] = "active" /\ episode'[h] = rev'[h] /\ rev'[h] > 0
                        /\ ~online'[h] => episode'[h] = 0
      OBVIOUS
    <2>1. /\ online[h] => status[h] = "active" /\ episode[h] = rev[h] /\ rev[h] > 0
          /\ ~online[h] => episode[h] = 0
      BY DEF GrantInv
    <2>2. CASE Connects(o, g)
      <3>1. /\ rev' = [rev EXCEPT ![g] = rev[g] + 1]
            /\ episode' = [episode EXCEPT ![g] = rev[g] + 1]
            /\ online' = [online EXCEPT ![g] = TRUE]
            /\ rev[g] \in Nat
        BY <2>2, ZeroIn DEF Connects, TypeOK
      <3> QED BY <1>1, <2>1, <3>1 DEF TypeOK
    <2>3. CASE Disconnects(o, g)
      <3>1. /\ rev' = rev
            /\ episode' = [episode EXCEPT ![g] = 0]
            /\ online' = [online EXCEPT ![g] = FALSE]
        BY <2>3 DEF Disconnects
      <3> QED BY <1>1, <2>1, <3>1 DEF TypeOK
    <2> QED BY <2>2, <2>3
  <1>3. \A h \in Gens :
          h > 0 /\ status'[h] # "none" =>
            /\ grantedBy'[h] \in OpIDs
            /\ journal'[grantedBy'[h]] # NoEntry
            /\ journal'[grantedBy'[h]].req.cmd \in {"adopt", "handoff"}
    BY <1>1 DEF GrantInv
  <1>4. GrantInv'
    BY <1>1, <1>2, <1>3 DEF GrantInv
  <1> QED BY <1>1, <1>4 DEF ProvenanceInactive

\* Each of the six ways keeps the rows and the run in agreement.
LEMMA GrantsKept ==
  ASSUME TypeOK, GrantInv, ProvenanceInactive, RowStep
  PROVE  GrantInv' /\ ProvenanceInactive'
  <1>1. ASSUME NEW o \in OpIDs, Notes(o) PROVE GrantInv' /\ ProvenanceInactive'
    <2>1. /\ UNCHANGED <<status, grantedBy, online, episode, rev, runLease, adopted>>
          /\ \A p \in OpIDs : journal[p] # NoEntry => journal'[p] = journal[p]
      BY <1>1, Journaled, ZeroIn DEF Notes, rowVars
    <2>2. \A h \in Gens :
            h > 0 /\ status'[h] # "none" =>
              /\ grantedBy'[h] \in OpIDs
              /\ journal'[grantedBy'[h]] # NoEntry
              /\ journal'[grantedBy'[h]].req.cmd \in {"adopt", "handoff"}
      BY <2>1 DEF GrantInv
    <2> QED BY <2>1, <2>2 DEF GrantInv, ProvenanceInactive
  <1>2. ASSUME Keeps PROVE GrantInv' /\ ProvenanceInactive'
    BY <1>2 DEF Keeps, rowVars, GrantInv, ProvenanceInactive
  <1> QED BY <1>1, <1>2, InstallKeepsGrants, RetireKeepsGrants, AttachKeepsGrants DEF RowStep

-----------------------------------------------------------------------------
(* Episodes: what is on record stays on record.                            *)

\* An episode on record stays so: revisions only grow, and they restart only
\* for a generation that had none.
LEMMA RecordedStays ==
  ASSUME TypeOK, GrantInv, RowStep, NEW g \in Gens, NEW r \in Revs, Recorded(g, r)
  PROVE  Recorded(g, r)'
  <1>1. status[g] # "none" /\ r <= rev[g] /\ r \in Nat /\ rev[g] \in Nat
    BY ZeroIn DEF Recorded, TypeOK
  <1>2. ASSUME NEW o \in OpIDs, Installs(o) PROVE Recorded(g, r)'
    <2>1. PICK req \in Requests, S \in {{}, {"active"}} : InstallGrant(o, req, S)
      BY <1>2 DEF Installs
    <2>2. g # NextGen
      BY <1>1, <2>1, NextGenIs DEF InstallGrant
    <2>3. status'[g] # "none"
      BY <1>1, <2>1, <2>2 DEF InstallGrant
    <2>4. rev'[g] = rev[g]
      BY <2>1, <2>2 DEF InstallGrant, TypeOK
    <2> QED BY <1>1, <2>3, <2>4 DEF Recorded
  <1>3. ASSUME NEW o \in OpIDs, NEW e \in Gens, Retires(o, e) PROVE Recorded(g, r)'
    BY <1>1, <1>3 DEF Retires, TypeOK, Recorded
  <1>4. ASSUME NEW o \in OpIDs, NEW e \in Gens, Connects(o, e) PROVE Recorded(g, r)'
    <2>1. rev' = [rev EXCEPT ![e] = rev[e] + 1] /\ status' = status
      BY <1>4 DEF Connects
    <2> QED BY <1>1, <2>1 DEF TypeOK, Recorded
  <1>5. ASSUME UNCHANGED <<status, rev>> PROVE Recorded(g, r)'
    BY <1>1, <1>5 DEF Recorded
  <1> QED BY <1>2, <1>3, <1>4, <1>5 DEF RowStep, Disconnects, Notes, Keeps, rowVars

\* A receipt of a connect names an episode on record.
ReceiptsRecorded ==
  \A o \in OpIDs :
    journal[o] # NoEntry /\ journal[o].req.cmd = "connect" =>
      Recorded(journal[o].req.gen, journal[o].rev)

\* What an entry of the journal consists of.
LEMMA EntryIs ==
  ASSUME NEW j \in Entry
  PROVE  j.req \in Requests /\ j.rev \in Revs /\ j.req.gen \in Gens
  BY DEF Entry, Requests

\* The receipts stay so.
LEMMA ReceiptsKept ==
  ASSUME TypeOK, GrantInv, ReceiptsRecorded, RowStep
  PROVE  ReceiptsRecorded'
  <1>1. ASSUME NEW p \in OpIDs, journal[p] # NoEntry, journal'[p] = journal[p],
               journal'[p].req.cmd = "connect"
        PROVE  Recorded(journal[p].req.gen, journal[p].rev)'
    <2>1. journal[p] \in Entry
      BY <1>1 DEF TypeOK
    <2>2. journal[p].req.gen \in Gens /\ journal[p].rev \in Revs
      BY <2>1, EntryIs
    <2>3. Recorded(journal[p].req.gen, journal[p].rev)
      BY <1>1 DEF ReceiptsRecorded
    <2>4. Recorded(journal[p].req.gen, journal[p].rev)'
      <3> DEFINE a == journal[p].req.gen
                 b == journal[p].rev
      <3>1. \A g \in Gens, r \in Revs : Recorded(g, r) => status'[g] # "none" /\ r <= rev'[g]
        BY RecordedStays DEF Recorded
      <3>2. status'[a] # "none" /\ b <= rev'[a]
        BY <2>2, <2>3, <3>1
      <3> QED BY <1>1, <3>2 DEF Recorded
    <2> QED BY <2>4
  <1>2. ASSUME NEW o \in OpIDs, NEW req \in Requests, NEW r \in Revs, Unused(o),
               RecordJournalEntry(o, req, r),
               req.cmd = "connect" => status'[req.gen] # "none" /\ r <= rev'[req.gen]
        PROVE  ReceiptsRecorded'
    <2>1. /\ journal'[o].req = req /\ journal'[o].rev = r
          /\ \A p \in OpIDs : p # o => journal'[p] = journal[p]
      BY <1>2, Journaled
    <2> SUFFICES ASSUME NEW p \in OpIDs, journal'[p] # NoEntry, journal'[p].req.cmd = "connect"
                 PROVE  Recorded(journal[p].req.gen, journal[p].rev)'
      BY DEF ReceiptsRecorded
    <2>2. CASE p = o
      BY <1>2, <2>1, <2>2 DEF Recorded
    <2>3. CASE p # o
      BY <1>1, <2>1, <2>3
    <2> QED BY <2>2, <2>3
  <1>3. ASSUME NEW o \in OpIDs, NEW g \in Gens, Connects(o, g) PROVE ReceiptsRecorded'
    <2>1. rev[g] + 1 \in Revs /\ rev[g] + 1 \in Nat
      BY <1>3, LeaseAssumption DEF Connects, Revs, TypeOK
    <2>2. PICK req \in Requests : /\ Unused(o) /\ req.gen = g
                                  /\ status[g] = "active" /\ UNCHANGED status
                                  /\ rev' = [rev EXCEPT ![g] = rev[g] + 1]
                                  /\ RecordJournalEntry(o, req, rev[g] + 1)
      BY <1>3 DEF Connects
    <2>3. PICK r \in Revs : r = rev[g] + 1
      BY <2>1
    <2>4. status'[g] # "none" /\ r <= rev'[g]
      BY <2>1, <2>2, <2>3 DEF TypeOK
    <2> QED BY <1>2, <2>2, <2>3, <2>4
  <1>4. ASSUME NEW o \in OpIDs, NEW req \in Requests, NEW r \in Revs, Unused(o),
               RecordJournalEntry(o, req, r), req.cmd # "connect"
        PROVE  ReceiptsRecorded'
    BY <1>2, <1>4
  <1>5. ASSUME UNCHANGED journal PROVE ReceiptsRecorded'
    BY <1>1, <1>5 DEF ReceiptsRecorded
  <1>6. ASSUME NEW o \in OpIDs, Installs(o) PROVE ReceiptsRecorded'
    BY <1>4, <1>6, ZeroIn DEF Installs, InstallGrant
  <1>7. ASSUME NEW o \in OpIDs, NEW g \in Gens, Retires(o, g) \/ Disconnects(o, g)
        PROVE  ReceiptsRecorded'
    BY <1>4, <1>7, ZeroIn DEF Retires, Disconnects
  <1>8. ASSUME NEW o \in OpIDs, Notes(o) PROVE ReceiptsRecorded'
    BY <1>4, <1>8, ZeroIn DEF Notes
  <1> QED BY <1>3, <1>5, <1>6, <1>7, <1>8 DEF RowStep, Keeps

-----------------------------------------------------------------------------
(* The ways a step can change the handlers in flight and the attachment.   *)

\* A connect was committed or replayed; only the session route publishes at once.
ConnectTask(t) ==
  \E g \in Gens, r \in Revs, stage \in {"rows", "publish"} :
    /\ t = Task("connect", stage, 0, g, r)
    /\ status'[g] # "none" /\ r <= rev'[g]
    /\ stage = "publish" => Routes \ {"run"} # {}

\* A decision was classified.
DecisionTask(t) == \E l \in Gens : t = Task("decision", "rows", l, 0, 0) /\ status[l] = "active"

\* An attachment has to be invalidated.
ClearTask(t) == \E kind \in {"retire", "again", "disconnect"}, g \in Gens, r \in Revs : t = Task(kind, "clear", 0, g, r)

\* The task s read the rows, read the adoption flag, could not read, or found itself
\* attached.
ReadsRows(s, t) ==
  /\ s.stage = "rows"
  /\ \E g \in ActiveGens :
       /\ online[g]
       /\ s.kind = "connect" => OwnEpisode(s, g)
       /\ t = [s EXCEPT !.stage = "adopted", !.gen = g, !.rev = episode[g]]

ReadsAdopted(s, t) ==
  /\ s.stage = "adopted"
  /\ t = [s EXCEPT !.stage = IF s.kind = "connect" THEN "publish" ELSE "check"]

FailsToRead(s, t) ==
  /\ s.stage \in {"rows", "adopted"} /\ s.kind = "connect"
  /\ t = [s EXCEPT !.stage = "unread"]

FindsAttached(s, t) ==
  /\ s.stage = "check" /\ AttachedEpisode(s)
  /\ t = [s EXCEPT !.stage = "decide"]

TaskFrom(s, t) ==
  ReadsRows(s, t) \/ ReadsAdopted(s, t) \/ FailsToRead(s, t) \/ FindsAttached(s, t)

TaskStep ==
  \A t \in tasks' :
    \/ t \in tasks
    \/ ConnectTask(t) \/ DecisionTask(t) \/ ClearTask(t)
    \/ \E s \in tasks : TaskFrom(s, t)

\* Either the attachment goes away or stays, or a task publishes its episode.
AttachStep ==
  \/ attachment' \in {attachment, NoAttachment}
  \/ \E t \in tasks : t.stage = "publish" /\ attachment' = <<t.gen, t.rev>>

\* The instance and the episodes it established.
InstanceStep ==
  \/ UNCHANGED instance /\ fresh \subseteq fresh' /\ fresh' \subseteq Gens \X Revs
  \/ Keeps /\ instance' = instance + 1 /\ attachment' = NoAttachment /\ tasks' = {} /\ fresh' = {}

\* What a spawned handler adds.
LEMMA Spawned ==
  ASSUME NEW u, Spawn(u), ConnectTask(u) \/ DecisionTask(u) \/ ClearTask(u)
  PROVE  TaskStep
  BY DEF Spawn, TaskStep

\* The step of a handler.
LEMMA HandlerCases ==
  ASSUME TypeOK, NEW t \in tasks, HandlerStep(t)
  PROVE  TaskStep /\ AttachStep /\ InstanceStep
  <1>1. InstanceStep
    BY DEF HandlerStep, InstanceStep, TypeOK
  <1>2. CASE ReadRows(t)
    <2>1. \A u \in tasks' : u \in tasks \/ ReadsRows(t, u)
      BY <1>2 DEF ReadRows, ReadsRows
    <2> QED BY <1>1, <1>2, <2>1 DEF TaskStep, TaskFrom, AttachStep, ReadRows
  <1>3. CASE ReadAdopted(t)
    <2>1. \A u \in tasks' : u \in tasks \/ ReadsAdopted(t, u)
      BY <1>3 DEF ReadAdopted, ReadsAdopted
    <2> QED BY <1>1, <1>3, <2>1 DEF TaskStep, TaskFrom, AttachStep, ReadAdopted
  <1>4. CASE CheckAttached(t)
    <2>1. \A u \in tasks' : u \in tasks \/ FindsAttached(t, u)
      BY <1>4 DEF CheckAttached, FindsAttached
    <2> QED BY <1>1, <1>4, <2>1 DEF TaskStep, TaskFrom, AttachStep, CheckAttached
  <1>5. CASE Publish(t)
    BY <1>1, <1>5 DEF Publish, TaskStep, AttachStep
  <1>6. CASE Decide(t) \/ RefuseDecision(t) \/ AnswerUnread(t) \/ Invalidate(t)
    BY <1>1, <1>6 DEF Decide, RefuseDecision, AnswerUnread, Invalidate, TaskStep, AttachStep
  <1>7. CASE ReadFails(t)
    <2>1. \A u \in tasks' : u \in tasks \/ FailsToRead(t, u)
      BY <1>7 DEF ReadFails, FailsToRead
    <2> QED BY <1>1, <1>7, <2>1 DEF TaskStep, TaskFrom, AttachStep, ReadFails
  <1> QED BY <1>2, <1>3, <1>4, <1>5, <1>6, <1>7 DEF HandlerStep

\* What a connect leaves its handler to do.
LEMMA ConnectCases ==
  ASSUME TypeOK, ReceiptsRecorded,
         NEW o \in OpIDs, NEW g \in Gens, NEW l \in known, NEW route \in Routes,
         ConnectRunController(o, route, g, l)
  PROVE  TaskStep /\ InstanceStep
  <1> DEFINE req == Request("connect", "controller", g, NoOp, 0)
             stage == IF route = "run" THEN "rows" ELSE "publish"
  <1>1. req.gen = g /\ req.cmd = "connect"
    BY DEF Request
  <1>2. stage \in {"rows", "publish"} /\ (stage = "publish" => Routes \ {"run"} # {})
    OBVIOUS
  <1>3. status[g] = "active" /\ instance' = instance
    BY DEF ConnectRunController, Classifies
  <1> HIDE DEF req, stage
  <1>4. CASE Replays(o, req) /\ Spawn(Task("connect", stage, 0, g, journal[o].rev))
             /\ UNCHANGED <<rowVars, journal, fresh>>
    <2>1. journal[o] \in Entry /\ journal[o].req.gen = g /\ journal[o].rev \in Revs
      <3>1. journal[o] \in Entry
        BY <1>4 DEF Replays, TypeOK
      <3> QED BY <1>1, <1>4, <3>1, EntryIs DEF Replays
    <2>2. Recorded(g, journal[o].rev)
      BY <1>1, <1>4, <2>1 DEF ReceiptsRecorded, Replays
    <2>3. status'[g] # "none" /\ journal[o].rev <= rev'[g]
      BY <1>4, <2>2 DEF Recorded, rowVars
    <2>4. ConnectTask(Task("connect", stage, 0, g, journal[o].rev))
      BY <1>2, <2>1, <2>3 DEF ConnectTask
    <2>5. InstanceStep
      BY <1>3, <1>4 DEF InstanceStep, TypeOK
    <2> QED BY <1>4, <2>4, <2>5, Spawned
  <1>5. CASE /\ rev[g] < MaxRev
             /\ rev' = [rev EXCEPT ![g] = rev[g] + 1]
             /\ fresh' = fresh \cup {<<g, rev[g] + 1>>}
             /\ Spawn(Task("connect", stage, 0, g, rev[g] + 1))
             /\ UNCHANGED status
    <2>1. rev[g] + 1 \in Revs /\ rev[g] + 1 \in Nat
      BY <1>5, LeaseAssumption DEF Revs, TypeOK
    <2>2. status'[g] # "none" /\ rev[g] + 1 <= rev'[g]
      BY <1>3, <1>5, <2>1 DEF TypeOK
    <2>3. ConnectTask(Task("connect", stage, 0, g, rev[g] + 1))
      BY <1>2, <2>1, <2>2 DEF ConnectTask
    <2>4. InstanceStep
      BY <1>3, <1>5, <2>1 DEF InstanceStep, TypeOK
    <2> QED BY <1>5, <2>3, <2>4, Spawned
  <1> QED BY <1>4, <1>5 DEF ConnectRunController, req, stage

\* What every step does to the handlers, the attachment and the instance.
LEMMA MemoryCases ==
  ASSUME TypeOK, ReceiptsRecorded, Next
  PROVE  TaskStep /\ AttachStep /\ InstanceStep
  <1>1. ASSUME UNCHANGED memVars PROVE AttachStep /\ InstanceStep
    BY <1>1 DEF memVars, AttachStep, InstanceStep, TypeOK
  <1>2. ASSUME UNCHANGED tasks PROVE TaskStep
    BY <1>2 DEF TaskStep
  <1>3. ASSUME NEW kind \in {"retire", "again"}, NEW g \in Gens, Spawn(Task(kind, "clear", 0, g, 0))
        PROVE  TaskStep
    <2>1. ClearTask(Task(kind, "clear", 0, g, 0))
      BY ZeroIn DEF ClearTask
    <2> QED BY <1>3, <2>1, Spawned
  <1>4. ASSUME NEW o \in OpIDs, OperatorCommand(o)
        PROVE  TaskStep /\ AttachStep /\ InstanceStep
    BY <1>1, <1>2, <1>3, <1>4, ZeroIn
       DEF OperatorCommand, AdoptController, RevokeController, RecoverControllerCredential
  <1>5. ASSUME NEW o \in OpIDs, NEW l \in known, NEW g \in Gens,
               HandoffController(o, g, l) \/ RevokeController(o, "controller", g, l)
        PROVE  TaskStep /\ AttachStep /\ InstanceStep
    BY <1>1, <1>3, <1>5, ZeroIn DEF HandoffController, RevokeController, InstallGrant, Carried
  <1>6. ASSUME NEW o \in OpIDs, NEW l \in known, NEW g \in Gens, NEW route \in Routes,
               ConnectRunController(o, route, g, l)
        PROVE  TaskStep /\ AttachStep /\ InstanceStep
    <2>1. attachment' = attachment
      BY <1>6 DEF ConnectRunController
    <2> QED BY <1>6, <2>1, ConnectCases DEF AttachStep
  <1>7. ASSUME NEW o \in OpIDs, NEW l \in known, NEW g \in Gens, NEW att \in Revs,
               DisconnectRunController(o, g, l, att)
        PROVE  TaskStep /\ AttachStep /\ InstanceStep
    <2>1. ASSUME NEW r \in Revs, Spawn(Task("disconnect", "clear", 0, g, r)) PROVE TaskStep
      <3>1. ClearTask(Task("disconnect", "clear", 0, g, r))
        BY DEF ClearTask
      <3> QED BY <2>1, <3>1, Spawned
    <2>2. journal[o] # NoEntry => journal[o].rev \in Revs
      BY EntryIs DEF TypeOK
    <2> QED BY <1>1, <1>2, <1>7, <2>1, <2>2 DEF DisconnectRunController, Replays
  <1>8. ASSUME NEW l \in known, BeginDecision(l) PROVE TaskStep /\ AttachStep /\ InstanceStep
    <2>1. DecisionTask(Task("decision", "rows", l, 0, 0))
      BY <1>8 DEF DecisionTask, BeginDecision, Classifies, TypeOK
    <2> QED BY <1>1, <1>8, <2>1, Spawned DEF BeginDecision
  <1>9. ASSUME Restart PROVE TaskStep /\ AttachStep /\ InstanceStep
    BY <1>9 DEF Restart, TaskStep, AttachStep, InstanceStep, Keeps
  <1> QED BY <1>4, <1>5, <1>6, <1>7, <1>8, <1>9, HandlerCases DEF Next, ControllerCommand

\* What a handler turns into, field by field.
LEMMA TaskFromIs ==
  ASSUME TypeOK, NEW s \in tasks, NEW t, TaskFrom(s, t)
  PROVE  /\ t \in Tasks /\ t.kind = s.kind /\ t.lease = s.lease
         /\ t.gen \in Gens /\ t.rev \in Revs
         /\ t.stage # "rows" /\ t.stage # "clear" /\ s.stage # "clear"
         /\ t.stage # "adopted" => t.gen = s.gen /\ t.rev = s.rev
         /\ t.stage = "unread" => t.kind = "connect"
         /\ t.stage = "publish" => s.stage = "adopted" /\ t.kind = "connect"
         /\ t.stage = "check" => t.kind # "connect"
         /\ t.stage = "decide" <=> s.stage = "check"
         /\ t.stage = "adopted" =>
              /\ s.stage = "rows"
              /\ status[t.gen] = "active" /\ online[t.gen] /\ t.rev = episode[t.gen]
              /\ t.kind = "connect" => s.gen = t.gen /\ s.rev = t.rev /\ owner[t.gen] = instance
  <1>1. s \in Tasks
    BY DEF TypeOK
  <1>2. CASE ReadsRows(s, t)
    <2>1. PICK g \in ActiveGens :
            /\ online[g]
            /\ s.kind = "connect" => OwnEpisode(s, g)
            /\ t = [s EXCEPT !.stage = "adopted", !.gen = g, !.rev = episode[g]]
      BY <1>2 DEF ReadsRows
    <2>2. g \in Gens /\ status[g] = "active" /\ episode[g] \in Revs
      BY DEF ActiveGens, TypeOK
    <2>3. t \in Tasks /\ t.kind = s.kind /\ t.lease = s.lease /\ t.gen = g /\ t.rev = episode[g] /\ t.stage = "adopted"
      BY <1>1, <2>1, <2>2 DEF Tasks
    <2> QED BY <1>2, <2>1, <2>2, <2>3 DEF ReadsRows, OwnEpisode
  <1>3. CASE ReadsAdopted(s, t)
    BY <1>1, <1>3 DEF ReadsAdopted, Tasks
  <1>4. CASE FindsAttached(s, t)
    BY <1>1, <1>4 DEF FindsAttached, Tasks
  <1>5. CASE FailsToRead(s, t)
    BY <1>1, <1>5 DEF FailsToRead, Tasks
  <1> QED BY <1>2, <1>3, <1>4, <1>5 DEF TaskFrom

\* The fields of a task.
LEMMA TaskIs ==
  ASSUME NEW kind \in {"connect", "decision", "retire", "again", "disconnect"},
         NEW stage \in {"rows", "adopted", "publish", "unread", "check", "decide", "clear"},
         NEW l \in Gens, NEW g \in Gens, NEW r \in Revs
  PROVE  LET t == Task(kind, stage, l, g, r)
         IN  /\ t \in Tasks /\ t.kind = kind /\ t.stage = stage
             /\ t.lease = l /\ t.gen = g /\ t.rev = r
  BY DEF Task, Tasks

\* A new handler is a handler of one of the three sorts.
LEMMA NewTaskIs ==
  ASSUME NEW t
  PROVE  /\ ConnectTask(t) => /\ t \in Tasks /\ t.kind = "connect"
                              /\ t.stage \in {"rows", "publish"}
                              /\ status'[t.gen] # "none" /\ t.rev <= rev'[t.gen]
                              /\ t.stage = "publish" => Routes \ {"run"} # {}
         /\ DecisionTask(t) => /\ t \in Tasks /\ t.kind = "decision" /\ t.stage = "rows"
                               /\ t.lease \in Gens /\ status[t.lease] = "active"
         /\ ClearTask(t) => t \in Tasks /\ t.kind \in {"retire", "again", "disconnect"} /\ t.stage = "clear"
  <1>1. ASSUME ConnectTask(t)
        PROVE  /\ t \in Tasks /\ t.kind = "connect"
               /\ t.stage \in {"rows", "publish"}
               /\ status'[t.gen] # "none" /\ t.rev <= rev'[t.gen]
               /\ t.stage = "publish" => Routes \ {"run"} # {}
    BY <1>1, ZeroIn DEF ConnectTask, Task, Tasks
  <1>2. ASSUME DecisionTask(t)
        PROVE  /\ t \in Tasks /\ t.kind = "decision" /\ t.stage = "rows"
               /\ t.lease \in Gens /\ status[t.lease] = "active"
    BY <1>2, ZeroIn DEF DecisionTask, Task, Tasks
  <1>3. ASSUME ClearTask(t)
        PROVE  t \in Tasks /\ t.kind \in {"retire", "again", "disconnect"} /\ t.stage = "clear"
    BY <1>3, ZeroIn DEF ClearTask, Task, Tasks
  <1> QED BY <1>1, <1>2, <1>3

\* A step tells, or is about to tell, only what was told already or is in force.
SecretStep ==
  /\ known \subseteq known' /\ known' \subseteq Gens
  /\ \A g \in Disclosed' \ Disclosed : status'[g] = "active"

\* One secret more is told, or is put into a handler's answer.
LEMMA SecretTold ==
  ASSUME TypeOK, AnswersWait, NEW g \in Gens, g \in Disclosed \/ status'[g] = "active",
         \/ Tell(g) /\ \A t \in tasks' : t \in tasks \/ t.kind \notin {"retire", "again"}
         \/ UNCHANGED known /\ \A t \in tasks' : t \in tasks \/ t.gen = g
  PROVE  SecretStep
  <1>1. known \subseteq known' /\ known' \subseteq known \cup {g} /\ known \subseteq Gens
    BY DEF Tell, TypeOK
  <1>2. \A t \in tasks' : t.kind \in {"retire", "again"} => t.gen \in Disclosed \/ t.gen = g
    BY DEF Disclosed
  <1>3. \A h \in Disclosed' : h \in Disclosed \/ h = g
    BY <1>1, <1>2 DEF Disclosed
  <1> QED BY <1>1, <1>3 DEF SecretStep

\* Nothing is told.
LEMMA SecretKept ==
  ASSUME TypeOK, UNCHANGED known, \A t \in tasks' : t \in tasks \/ t.kind \notin {"retire", "again"}
  PROVE  SecretStep
  BY DEF SecretStep, Disclosed, TypeOK

\* A new grant is in force, and the answer may carry its secret.
LEMMA GrantTold ==
  ASSUME TypeOK, GrantInv, AnswersWait, NEW o, NEW req, NEW S, InstallGrant(o, req, S),
         \/ Tell(NextGen) /\ UNCHANGED tasks
         \/ Spawn(Task("retire", "clear", 0, NextGen, 0)) /\ UNCHANGED known
  PROVE  SecretStep
  <1>1. NextGen \in Gens /\ status'[NextGen] = "active"
    BY DEF InstallGrant
  <1>2. \A t \in tasks' : t \in tasks \/ (t.gen = NextGen /\ UNCHANGED known)
    BY DEF Spawn, Task
  <1> HIDE DEF NextGen
  <1> QED BY <1>1, <1>2, SecretTold

\* A replay carries what it is allowed to.
LEMMA ReplayTold ==
  ASSUME TypeOK, AnswersWait, UNCHANGED status, NEW g \in Gens,
         \/ Tell(Carried(g)) /\ UNCHANGED tasks
         \/ Spawn(Task("again", "clear", 0, Carried(g), 0)) /\ UNCHANGED known
  PROVE  SecretStep
  <1>1. Carried(g) \in Gens /\ (Carried(g) \in Disclosed \/ status'[Carried(g)] = "active")
    BY ZeroIn DEF Carried, Disclosable, Disclosed, AnswersWait
  <1>2. \A t \in tasks' : t \in tasks \/ (t.gen = Carried(g) /\ UNCHANGED known)
    BY DEF Spawn, Task
  <1> HIDE DEF Carried
  <1> QED BY <1>1, <1>2, SecretTold

\* What every step tells.
LEMMA SecretCases ==
  ASSUME TypeOK, GrantInv, AnswersWait, Next
  PROVE  SecretStep
  <1>1. ASSUME NEW o \in OpIDs, NEW e \in Gens, NEW mode, NEW l, AdoptController(o, mode, e, l)
        PROVE  SecretStep
    BY <1>1, GrantTold, ReplayTold DEF AdoptController, ResolveGrantReplay, rowVars
  <1>2. ASSUME NEW o \in OpIDs, NEW e \in Gens, NEW l, HandoffController(o, e, l)
        PROVE  SecretStep
    BY <1>2, GrantTold, ReplayTold DEF HandoffController, ResolveGrantReplay, rowVars
  <1>3. ASSUME NEW o \in OpIDs, NEW e \in Gens, NEW mode, NEW l, RevokeController(o, mode, e, l)
        PROVE  SecretStep
    <2>1. UNCHANGED known /\ \A t \in tasks' : t \in tasks \/ t.gen = 0
      BY <1>3 DEF RevokeController, Spawn, Task
    <2>2. 0 \in Gens /\ 0 \in Disclosed
      BY ZeroIn DEF AnswersWait, Disclosed
    <2> QED BY <2>1, <2>2, SecretTold
  <1>4. ASSUME NEW o \in OpIDs, NEW src \in OpIDs, NEW e \in Gens, RecoverControllerCredential(o, src, e)
        PROVE  SecretStep
    BY <1>4, SecretTold DEF RecoverControllerCredential, Disclosable, rowVars
  <1>5. ASSUME NEW o \in OpIDs, NEW g \in Gens, NEW l, NEW route, ConnectRunController(o, route, g, l)
        PROVE  SecretStep
    BY <1>5, SecretKept DEF ConnectRunController, Spawn, Task
  <1>6. ASSUME NEW o \in OpIDs, NEW g \in Gens, NEW l, NEW att, DisconnectRunController(o, g, l, att)
        PROVE  SecretStep
    BY <1>6, SecretKept DEF DisconnectRunController, Spawn, Task
  <1>7. ASSUME NEW l, BeginDecision(l) PROVE SecretStep
    BY <1>7, SecretKept DEF BeginDecision, Spawn, Task
  <1>8. ASSUME NEW t \in tasks, HandlerStep(t) PROVE SecretStep
    <2>1. CASE Invalidate(t) /\ t.kind = "disconnect"
      BY <2>1, SecretKept DEF Invalidate
    <2>2. CASE Invalidate(t) /\ t.kind # "disconnect"
      <3>1. t.gen \in Gens /\ t.kind \in {"connect", "decision", "retire", "again"} /\ t.stage = "clear"
        BY <2>2 DEF Invalidate, TypeOK, Tasks
      <3>2. CASE t.kind \in {"retire", "again"}
        <4>1. t.gen \in Disclosed
          BY <3>2 DEF Disclosed
        <4>2. Tell(t.gen) /\ tasks' \subseteq tasks
          BY <2>2 DEF Invalidate
        <4> QED BY <3>1, <4>1, <4>2, SecretTold
      <3>3. CASE t.kind \in {"connect", "decision"}
        BY <1>8, <3>1, <3>3 DEF AnswersWait
      <3> QED BY <3>1, <3>2, <3>3
    <2>3. CASE ~Invalidate(t)
      <3>1. UNCHANGED known
        BY <1>8, <2>3 DEF HandlerStep, ReadRows, ReadAdopted, ReadFails, AnswerUnread, Publish, CheckAttached,
           Decide, RefuseDecision
      <3>2. \A u \in tasks' : u \in tasks \/ TaskFrom(t, u)
        BY <1>8, <2>3 DEF HandlerStep, ReadRows, ReadAdopted, ReadFails, AnswerUnread, Publish, CheckAttached,
           Decide, RefuseDecision, TaskFrom, ReadsRows, ReadsAdopted, FailsToRead, FindsAttached
      <3>3. \A u \in tasks' : u \in tasks \/ u.kind \notin {"retire", "again"}
        BY <3>2, TaskFromIs DEF AnswersWait
      <3> QED BY <3>1, <3>3, SecretKept
    <2> QED BY <2>1, <2>2, <2>3
  <1>9. ASSUME Restart PROVE SecretStep
    BY <1>9, SecretKept DEF Restart
  <1> QED BY <1>1, <1>2, <1>3, <1>4, <1>5, <1>6, <1>7, <1>8, <1>9, ZeroIn
          DEF Next, OperatorCommand, ControllerCommand

\* Types are kept, and so is the order of invalidation and answer.
LEMMA TypesKept ==
  ASSUME TypeOK, GrantInv, ReceiptsRecorded, AnswersWait, Next
  PROVE  TypeOK' /\ AnswersWait'
  <1>1. RowTyped' /\ TaskStep /\ AttachStep /\ InstanceStep /\ SecretStep
    BY RowCases, RowTypesKept, MemoryCases, SecretCases
  <1>2. tasks' \subseteq Tasks
    BY <1>1, NewTaskIs, TaskFromIs DEF TaskStep, TypeOK
  <1>3. attachment' \in (Gens \X Revs) \cup {NoAttachment}
    BY <1>1 DEF AttachStep, TypeOK, Tasks
  <1>4. instance' \in Nat /\ fresh' \subseteq Gens \X Revs
    BY <1>1 DEF InstanceStep, TypeOK
  <1>5. known' \subseteq Gens /\ 0 \in known'
    BY <1>1 DEF SecretStep, AnswersWait
  <1>6. \A t \in tasks' : t.stage = "clear" <=> t.kind \in {"retire", "again", "disconnect"}
    BY <1>1, NewTaskIs, TaskFromIs DEF TaskStep, AnswersWait
  <1> QED BY <1>1, <1>2, <1>3, <1>4, <1>5, <1>6 DEF TypeOK, RowTyped, AnswersWait

\* Episodes that are published, about to be, or can be replayed, stay on record.
LEMMA EpisodesKept ==
  ASSUME TypeOK, GrantInv, EpisodesRecorded, Next
  PROVE  EpisodesRecorded'
  <1>1. ReceiptsRecorded
    BY DEF EpisodesRecorded, ReceiptsRecorded
  <1>2. RowStep /\ TaskStep /\ AttachStep
    BY <1>1, RowCases, MemoryCases
  <1>3. ReceiptsRecorded'
    BY <1>1, <1>2, ReceiptsKept
  <1>4. \A g \in Gens, r \in Revs : Recorded(g, r) => status'[g] # "none" /\ r <= rev'[g]
    BY <1>2, RecordedStays DEF Recorded
  <1>5. \A t \in tasks : t \in Tasks /\ t.gen \in Gens /\ t.rev \in Revs
    BY DEF TypeOK, Tasks
  <1>6. ASSUME NEW t \in tasks', t.kind = "connect"
        PROVE  status'[t.gen] # "none" /\ t.rev <= rev'[t.gen]
    <2>1. CASE t \in tasks
      BY <1>4, <1>5, <1>6, <2>1 DEF EpisodesRecorded
    <2>2. CASE \E s \in tasks : TaskFrom(s, t)
      <3>1. PICK s \in tasks : TaskFrom(s, t)
        BY <2>2
      <3>2. s.gen = t.gen /\ s.rev = t.rev /\ s.kind = "connect"
        BY <1>6, <3>1, TaskFromIs
      <3> QED BY <1>4, <1>5, <3>2 DEF EpisodesRecorded
    <2>3. CASE ConnectTask(t) \/ DecisionTask(t) \/ ClearTask(t)
      BY <1>6, <2>3, NewTaskIs
    <2> QED BY <1>2, <2>1, <2>2, <2>3 DEF TaskStep
  <1>7. ASSUME NEW t \in tasks', t.stage = "publish" PROVE t.kind = "connect"
    BY <1>2, <1>7, NewTaskIs, TaskFromIs DEF TaskStep, EpisodesRecorded
  <1>8. ASSUME attachment' # NoAttachment
        PROVE  status'[attachment'[1]] # "none" /\ attachment'[2] <= rev'[attachment'[1]]
    <2>1. CASE attachment' = attachment
      <3>1. attachment[1] \in Gens /\ attachment[2] \in Revs
        BY <1>8, <2>1 DEF TypeOK
      <3> QED BY <1>4, <1>8, <2>1, <3>1 DEF EpisodesRecorded
    <2>2. CASE \E t \in tasks : t.stage = "publish" /\ attachment' = <<t.gen, t.rev>>
      BY <1>4, <1>5, <2>2 DEF EpisodesRecorded
    <2> QED BY <1>2, <1>8, <2>1, <2>2 DEF AttachStep
  <1> QED BY <1>3, <1>6, <1>7, <1>8 DEF EpisodesRecorded, ReceiptsRecorded, Recorded

-----------------------------------------------------------------------------
(* The theorems about the rows, for every choice of routes.                *)

\* A run as CreateRun leaves it satisfies the invariant.
LEMMA RowInvInit == Init => RowInv
  <1> SUFFICES ASSUME Init PROVE RowInv
    OBVIOUS
  <1>1. TypeOK
    <2>1. online \in [Gens -> BOOLEAN] /\ adopted \in BOOLEAN
      BY Zenon DEF Init
    <2> QED BY <2>1, ZeroIn DEF Init, TypeOK
  <1>2. \A g \in Gens : g \in Nat /\ (status[g] # "none" <=> g = 0) /\ status[g] # "active" /\ ~online[g] /\ episode[g] = 0
    BY ZeroIn DEF Init
  <1>3. \A g \in Gens : status[g] # "none" <=> g <= 0
    BY <1>2
  <1>4. GrantInv
    BY <1>2, <1>3, ZeroIn DEF Init, GrantInv
  <1>5. EpisodesRecorded
    BY DEF Init, EpisodesRecorded
  <1>6. ProvenanceInactive /\ AnswersWait
    BY <1>2, ZeroIn DEF Init, ProvenanceInactive, AnswersWait
  <1> QED BY <1>1, <1>4, <1>5, <1>6 DEF RowInv

\* So does every step.
LEMMA RowInvNext == RowInv /\ [Next]_vars => RowInv'
  <1>1. ASSUME RowInv, Next PROVE RowInv'
    <2>1. ReceiptsRecorded /\ RowStep
      BY <1>1, RowCases DEF RowInv, EpisodesRecorded, ReceiptsRecorded
    <2> QED BY <1>1, <2>1, TypesKept, GrantsKept, EpisodesKept DEF RowInv
  <1>2. ASSUME RowInv, UNCHANGED vars PROVE RowInv'
    BY <1>2 DEF RowInv, TypeOK, GrantInv, ProvenanceInactive, EpisodesRecorded, Recorded, AnswersWait,
       vars, rowVars, memVars
  <1> QED BY <1>1, <1>2

\* Whatever operations, replays, handlers and restarts come in whatever order, the
\* lease rows, the run's authority columns and the journal agree on who is in
\* force, on every route.
THEOREM GrantsAlwaysAgree == Spec => [](TypeOK /\ GrantInv)
  <1>1. RowInv => TypeOK /\ GrantInv
    BY DEF RowInv
  <1> QED BY <1>1, RowInvInit, RowInvNext, PTL DEF Spec

\* A generation that was superseded or revoked never comes back, and no response
\* carries the secret of one that is not in force.
THEOREM RetiredStayRetired == Spec => RetiredForGood
  <1>1. ASSUME RowInv, Next
        PROVE  /\ \A g \in Gens : status[g] \in Retired =>
                    status'[g] = status[g] /\ ~online'[g] /\ runLease' # g
               /\ \A g \in Disclosed' \ Disclosed : status'[g] = "active"
    <2>1. RowStep /\ TypeOK' /\ GrantInv'
      BY <1>1, RowCases, RowInvNext DEF RowInv
    <2>2. ASSUME NEW o \in OpIDs, Installs(o)
          PROVE  \A g \in Gens : status[g] \in Retired => status'[g] = status[g]
      <3>1. PICK req \in Requests, S \in {{}, {"active"}} : InstallGrant(o, req, S)
        BY <2>2 DEF Installs
      <3>2. status[NextGen] = "none" /\ NextGen \in Gens
        BY <1>1, <3>1, NextGenIs DEF RowInv, InstallGrant
      <3> QED BY <3>1, <3>2 DEF InstallGrant, Retired
    <2>3. ASSUME NEW o \in OpIDs, NEW e \in Gens, Retires(o, e)
          PROVE  \A g \in Gens : status[g] \in Retired => status'[g] = status[g]
      BY <1>1, <2>3 DEF Retires, Retired, RowInv, TypeOK
    <2>4. \A g \in Disclosed' \ Disclosed : status'[g] = "active"
      BY <1>1, SecretCases DEF RowInv, SecretStep
    <2>5. \A g \in Gens : status[g] \in Retired => status'[g] = status[g]
      BY <2>1, <2>2, <2>3 DEF RowStep, Connects, Disconnects, Notes, Keeps, rowVars
    <2>6. \A g \in Gens : status'[g] \in Retired => ~online'[g] /\ runLease' # g
      BY <2>1 DEF GrantInv, Retired
    <2> QED BY <2>4, <2>5, <2>6
  <1>2. RowInv /\ [Next]_vars =>
          [/\ \A g \in Gens :
                status[g] \in Retired =>
                  /\ status'[g] = status[g]
                  /\ ~online'[g]
                  /\ runLease' # g
           /\ \A g \in Disclosed' \ Disclosed : status'[g] = "active"]_vars
    BY <1>1
  <1> QED BY <1>2, RowInvInit, RowInvNext, PTL DEF Spec, RetiredForGood

\* The publication of the current episode is never outranked by what is published
\* already, of whatever generation, in whatever order and over whatever route.
THEOREM CurrentEpisodesGetPublished == Spec => CurrentIsPublished
  <1>1. ASSUME RowInv, NEW t \in tasks, Publish(t), CurrentEpisode(t.gen, t.rev)
        PROVE  attachment' = <<t.gen, t.rev>>
    <2>1. t.gen \in Gens /\ t.rev \in Revs
      BY <1>1 DEF RowInv, TypeOK, Tasks
    <2>2. /\ status[t.gen] = "active" /\ t.rev = rev[t.gen]
          /\ t.gen \in Nat /\ t.rev \in Nat
      BY <1>1, <2>1, ZeroIn DEF RowInv, GrantInv, CurrentEpisode
    <2>3. ASSUME attachment # NoAttachment
          PROVE  /\ attachment[1] \in Nat /\ attachment[2] \in Nat
                 /\ attachment[1] <= t.gen
                 /\ attachment[1] = t.gen => attachment[2] <= t.rev
      <3>1. attachment[1] \in Gens /\ attachment[2] \in Revs
        BY <1>1, <2>3 DEF RowInv, TypeOK
      <3>2. status[attachment[1]] # "none" /\ attachment[2] <= rev[attachment[1]]
        BY <1>1, <2>3 DEF RowInv, EpisodesRecorded, Recorded
      <3>3. attachment[1] <= t.gen
        BY <1>1, <2>1, <2>2, <3>1, <3>2 DEF RowInv, GrantInv
      <3> QED BY <2>2, <3>1, <3>2, <3>3, ZeroIn
    <2>4. ~Outranks(<<t.gen, t.rev>>)
      BY <2>2, <2>3 DEF Outranks
    <2> QED BY <1>1, <2>4 DEF Publish
  <1>2. RowInv /\ [Next]_vars =>
          [\A t \in tasks :
             Publish(t) /\ CurrentEpisode(t.gen, t.rev) => attachment' = <<t.gen, t.rev>>]_vars
    BY <1>1
  <1> QED BY <1>2, RowInvInit, RowInvNext, PTL DEF Spec, CurrentIsPublished

-----------------------------------------------------------------------------
(* The refinement of RunGrant.                                             *)

\* What NewestIs says, to be said of the next state as well.
NewestLast ==
  /\ Newest \in Gens /\ Newest \in Nat /\ status[Newest] # "none"
  /\ \A g \in Gens : status[g] # "none" <=> g <= Newest

\* The newest generation is the last one, in the next state too.
LEMMA NewestIsNext == TypeOK' /\ GrantInv' => NewestLast'
  <1>1. TypeOK /\ GrantInv => NewestLast
    BY NewestIs DEF NewestLast
  <1> QED BY <1>1, PTL

\* The newest generation stays the newest unless one is installed.
LEMMA NewestStays ==
  ASSUME TypeOK, GrantInv, TypeOK', GrantInv',
         \A g \in Gens : status'[g] # "none" <=> status[g] # "none"
  PROVE  Newest' = Newest
  <1>1. /\ Newest \in Gens /\ Newest \in Nat /\ status[Newest] # "none"
        /\ \A g \in Gens : status[g] # "none" <=> g <= Newest
    BY NewestIs
  <1>2. /\ Newest' \in Gens /\ Newest' \in Nat /\ status'[Newest'] # "none"
        /\ \A g \in Gens : status'[g] # "none" <=> g <= Newest'
    BY NewestIsNext DEF NewestLast
  <1> QED BY <1>1, <1>2

\* Every step of the rows is a step of the grant or leaves it alone.
LEMMA RowStepMapped ==
  ASSUME RowInv, RowInv', RowStep
  PROVE  [Grant!GrantNext]_(Grant!grantVars)
  <1> USE DEF Grant!grantVars
  <1>0. /\ TypeOK /\ GrantInv /\ ProvenanceInactive /\ TypeOK' /\ GrantInv' /\ ProvenanceInactive'
        /\ 0 \in Gens
    BY ZeroIn DEF RowInv
  <1>1. ASSUME NEW o \in OpIDs, Installs(o) PROVE Grant!GrantNext
    <2>1. PICK req \in Requests, S \in {{}, {"active"}} : InstallGrant(o, req, S)
      BY <1>1 DEF Installs
    <2>2. /\ NextGen \in Gens /\ NextGen > 0 /\ NextGen = Newest + 1 /\ NextGen <= MaxGen
          /\ Newest \in Nat
      BY <1>0, <2>1, NextGenIs, NewestIs, LeaseAssumption DEF InstallGrant, NextGen, Gens
    <2>3. status'[NextGen] = "active" /\ ~online'[NextGen]
      BY <2>1, <2>2 DEF InstallGrant
    <2>4. Newest' = NextGen /\ ~(\E h \in Gens : online'[h])
      <3>1. NextGen = Newest' /\ \A h \in Gens : status'[h] = "active" => h = NextGen
        <4>1. /\ Newest' \in Gens /\ Newest' \in Nat /\ status'[Newest'] # "none"
              /\ \A g \in Gens : status'[g] # "none" <=> g <= Newest'
          BY <1>0, NewestIsNext DEF NewestLast
        <4>2. \A g, h \in Gens : status'[g] = "active" /\ status'[h] # "none" => h <= g
          BY <1>0 DEF GrantInv
        <4> QED BY <2>2, <2>3, <4>1, <4>2, ZeroIn
      <3>2. \A h \in Gens : online'[h] => status'[h] = "active"
        BY <1>0 DEF GrantInv
      <3> QED BY <2>3, <3>1, <3>2
    <2>5. status'[0] # "legacy"
      BY <1>0, <2>1, <2>2 DEF InstallGrant
    <2>6. Newest < MaxGen /\ Newest' = Newest + 1
      BY <2>2, <2>4, LeaseAssumption
    <2>7. Grant!Install
      BY <2>2, <2>3, <2>4, <2>5, <2>6 DEF Grant!Install
    <2> QED BY <2>7 DEF Grant!GrantNext, Grant!Adopt, Grant!Handoff
  <1>2. ASSUME NEW o \in OpIDs, NEW e \in Gens, Retires(o, e) PROVE Grant!GrantNext
    <2>1. /\ status[e] \in {"active", "legacy"}
          /\ status' = [status EXCEPT ![e] = "revoked"]
          /\ online' = [online EXCEPT ![e] = FALSE]
          /\ runLease' = NoLease
      BY <1>2 DEF Retires
    <2>2. Newest' = Newest
      BY <1>0, <2>1, NewestStays DEF TypeOK
    <2>3. ~(\E g \in Gens : status'[g] = "active") /\ ~(\E g \in Gens : online'[g])
      <3>1. \A g \in Gens : status'[g] # "active"
        BY <1>0, <2>1, LeaseAssumption DEF GrantInv
      <3> QED BY <1>0, <3>1 DEF GrantInv
    <2>4. CASE status[e] = "active"
      <3>1. e # 0 /\ status'[0] = status[0]
        BY <1>0, <2>1, <2>4 DEF ProvenanceInactive, TypeOK
      <3>2. Grant!Revoke
        BY <2>2, <2>3, <2>4, <3>1 DEF Grant!Revoke
      <3> QED BY <3>2 DEF Grant!GrantNext
    <2>5. CASE status[e] = "legacy"
      <3>1. e = 0 /\ \A g \in Gens : status[g] # "active"
        BY <1>0, <2>5, ZeroIn DEF GrantInv, ProvenanceInactive
      <3>2. ~(\E g \in Gens : status[g] = "active") /\ ~(\E g \in Gens : online[g])
        BY <1>0, <3>1 DEF GrantInv
      <3>3. status'[0] # "legacy"
        BY <2>1, <3>1 DEF RowInv, TypeOK
      <3>4. Grant!RevokeLegacy
        BY <2>2, <2>3, <2>5, <3>1, <3>2, <3>3 DEF Grant!RevokeLegacy
      <3> QED BY <3>4 DEF Grant!GrantNext
    <2> QED BY <2>1, <2>4, <2>5
  <1>3. ASSUME NEW o \in OpIDs, NEW g \in Gens, Connects(o, g) PROVE Grant!GrantNext
    <2>1. status[g] = "active" /\ status' = status /\ online' = [online EXCEPT ![g] = TRUE]
      BY <1>3 DEF Connects
    <2>2. Newest' = Newest
      BY <1>0, <2>1, NewestStays
    <2>3. online'[g]
      BY <1>0, <2>1 DEF TypeOK
    <2>4. Grant!Connect
      BY <2>1, <2>2, <2>3 DEF Grant!Connect
    <2> QED BY <2>4 DEF Grant!GrantNext
  <1>4. ASSUME NEW o \in OpIDs, NEW g \in Gens, Disconnects(o, g) PROVE Grant!GrantNext
    <2>1. status[g] = "active" /\ online[g] /\ status' = status /\ online' = [online EXCEPT ![g] = FALSE]
      BY <1>4 DEF Disconnects
    <2>2. Newest' = Newest
      BY <1>0, <2>1, NewestStays
    <2>3. \A h \in Gens : ~online'[h]
      BY <1>0, <2>1, OneActive DEF GrantInv, TypeOK
    <2>4. Grant!Disconnect
      BY <2>1, <2>2, <2>3 DEF Grant!Disconnect
    <2> QED BY <2>4 DEF Grant!GrantNext
  <1>5. ASSUME UNCHANGED rowVars PROVE UNCHANGED Grant!grantVars
    <2>1. Newest' = Newest
      BY <1>0, <1>5, NewestStays DEF rowVars
    <2> QED BY <1>5, <2>1 DEF rowVars
  <1> QED BY <1>1, <1>2, <1>3, <1>4, <1>5 DEF RowStep, Notes, Keeps

\* The rows, credentials, replays and recoveries implement the abstract grant that
\* the session store is built on.
THEOREM LeaseImplementsGrant == Spec => ImplementsGrant
  <1>1. Init => Grant!GrantInit
    <2> SUFFICES ASSUME Init PROVE Grant!GrantInit
      OBVIOUS
    <2>1. RowInv
      BY RowInvInit
    <2>2. Newest \in Nat /\ Newest \in Gens /\ status[Newest] # "none"
      BY <2>1, NewestIs DEF RowInv
    <2>3. Newest = 0
      BY <2>2 DEF Init
    <2>4. ~(\E g \in Gens : status[g] = "active") /\ ~(\E g \in Gens : online[g]) /\ status[0] = "legacy"
      BY ZeroIn DEF Init
    <2> QED BY <2>3, <2>4 DEF Grant!GrantInit
  <1>2. RowInv /\ RowInv' /\ [Next]_vars => [Grant!GrantNext]_(Grant!grantVars)
    <2>1. ASSUME RowInv, RowInv', Next PROVE [Grant!GrantNext]_(Grant!grantVars)
      BY <2>1, RowCases, RowStepMapped DEF RowInv
    <2>2. ASSUME RowInv, RowInv', UNCHANGED vars PROVE UNCHANGED Grant!grantVars
      <3>1. Newest' = Newest
        BY <2>2, NewestStays DEF RowInv, vars, rowVars
      <3> QED BY <2>2, <3>1 DEF vars, rowVars, Grant!grantVars
    <2> QED BY <2>1, <2>2
  <1> QED BY <1>1, <1>2, RowInvInit, RowInvNext, PTL DEF Spec, ImplementsGrant, Grant!GrantSpec

-----------------------------------------------------------------------------
(* Fresh authority, when every connect takes the run route.                *)

\* What has been in force is in force or retired, and what is retired stays so.
LEMMA OnceInForce ==
  ASSUME RowInv, RowStep, NEW g \in Gens
  PROVE  /\ status[g] \in {"active"} \cup Retired => status'[g] \in {"active"} \cup Retired
         /\ status[g] \in Retired => status'[g] \in Retired
  <1>1. ASSUME NEW o \in OpIDs, Installs(o)
        PROVE  /\ status[g] \in {"active"} \cup Retired => status'[g] \in {"active"} \cup Retired
               /\ status[g] \in Retired => status'[g] \in Retired
    <2>1. PICK req \in Requests, S \in {{}, {"active"}} : InstallGrant(o, req, S)
      BY <1>1 DEF Installs
    <2>2. status[NextGen] = "none"
      BY <2>1, NextGenIs DEF RowInv, InstallGrant
    <2> QED BY <2>1, <2>2 DEF InstallGrant, Retired
  <1>2. ASSUME NEW o \in OpIDs, NEW e \in Gens, Retires(o, e)
        PROVE  /\ status[g] \in {"active"} \cup Retired => status'[g] \in {"active"} \cup Retired
               /\ status[g] \in Retired => status'[g] \in Retired
    BY <1>2 DEF Retires, Retired, RowInv, TypeOK
  <1>3. ASSUME UNCHANGED status
        PROVE  /\ status[g] \in {"active"} \cup Retired => status'[g] \in {"active"} \cup Retired
               /\ status[g] \in Retired => status'[g] \in Retired
    BY <1>3
  <1> QED BY <1>1, <1>2, <1>3 DEF RowStep, Connects, Disconnects, Notes, Keeps, rowVars

\* The connected episodes that carry this instance's name are its own.
OwnersFresh ==
  /\ \A g \in Gens : owner[g] <= instance
  /\ \A g \in Gens : online[g] /\ owner[g] = instance => <<g, episode[g]>> \in fresh

\* They stay so, in whichever way the rows change; a new instance owns none of them.
LEMMA OwnersKept ==
  ASSUME RowInv, OwnersFresh, RowStep, InstanceStep, RowInv'
  PROVE  OwnersFresh'
  <1>1. \A g \in Gens : owner[g] \in Nat /\ instance \in Nat /\ owner[g] <= instance
    BY DEF RowInv, TypeOK, OwnersFresh
  <1>2. CASE Keeps /\ instance' = instance + 1
    BY <1>1, <1>2 DEF Keeps, rowVars, OwnersFresh
  <1>3. ASSUME instance' = instance, fresh \subseteq fresh' PROVE OwnersFresh'
    <2>1. ASSUME NEW o \in OpIDs, Installs(o) PROVE OwnersFresh'
      <3>1. PICK req \in Requests, S \in {{}, {"active"}} :
              (S = {} => ~adopted) /\ InstallGrant(o, req, S)
        BY <2>1 DEF Installs
      <3>2. \A g \in Gens : owner'[g] \in {owner[g], 0}
        BY <3>1 DEF InstallGrant, RowInv, TypeOK
      <3>3. \A g \in Gens : online[g] => adopted /\ status[g] = "active"
        BY DEF RowInv, GrantInv
      <3>4. \A g \in Gens : ~online'[g]
        BY <3>1, <3>3 DEF InstallGrant
      <3> QED BY <1>1, <1>3, <3>2, <3>4 DEF OwnersFresh
    <2>2. ASSUME NEW o \in OpIDs, NEW e \in Gens, Connects(o, e) PROVE OwnersFresh'
      <3>1. /\ episode' = [episode EXCEPT ![e] = rev[e] + 1]
            /\ owner' = [owner EXCEPT ![e] = instance]
            /\ online' = [online EXCEPT ![e] = TRUE]
            /\ <<e, rev[e] + 1>> \in fresh'
        BY <2>2 DEF Connects
      <3>2. episode'[e] = rev[e] + 1 /\ owner'[e] = instance
        BY <3>1 DEF RowInv, TypeOK
      <3>3. \A g \in Gens : g # e => owner'[g] = owner[g] /\ episode'[g] = episode[g] /\ online'[g] = online[g]
        BY <3>1 DEF RowInv, TypeOK
      <3>4. \A g \in Gens : owner'[g] <= instance'
        BY <1>1, <1>3, <3>2, <3>3
      <3>5. \A g \in Gens : online'[g] /\ owner'[g] = instance' => <<g, episode'[g]>> \in fresh'
        BY <1>3, <3>1, <3>2, <3>3 DEF OwnersFresh
      <3> QED BY <3>4, <3>5 DEF OwnersFresh
    <2>3. ASSUME NEW o \in OpIDs, NEW e \in Gens, Retires(o, e) \/ Disconnects(o, e) PROVE OwnersFresh'
      <3>1. /\ episode' = [episode EXCEPT ![e] = 0]
            /\ online' = [online EXCEPT ![e] = FALSE]
            /\ owner' = owner
        BY <2>3 DEF Retires, Disconnects
      <3>2. ~online'[e] /\ \A g \in Gens : g # e => episode'[g] = episode[g] /\ online'[g] = online[g]
        BY <3>1 DEF RowInv, TypeOK
      <3> QED BY <1>3, <3>1, <3>2 DEF OwnersFresh
    <2>4. ASSUME UNCHANGED rowVars PROVE OwnersFresh'
      BY <1>3, <2>4 DEF rowVars, OwnersFresh
    <2> QED BY <2>1, <2>2, <2>3, <2>4 DEF RowStep, Notes, Keeps
  <1> QED BY <1>2, <1>3 DEF InstanceStep

\* What FreshInv says of one handler.
TaskFresh(t) ==
  /\ t.kind = "connect" => t.stage \in {"rows", "adopted", "publish", "unread"}
  /\ t.kind = "decision" =>
       /\ t.stage \in {"rows", "adopted", "check", "decide"}
       /\ status[t.lease] \in {"active"} \cup Retired
       /\ t.stage # "rows" => t.gen = t.lease \/ status[t.lease] \in Retired
  /\ t.kind \in {"retire", "again", "disconnect"} => t.stage = "clear"
  /\ t.kind = "connect" /\ t.stage \in {"adopted", "publish"} => <<t.gen, t.rev>> \in fresh
  /\ t.stage = "decide" => <<t.gen, t.rev>> \in fresh

\* A handler that waits stays in order while others step.
LEMMA TaskStaysFresh ==
  ASSUME RowInv, RowStep, NEW t \in Tasks, fresh \subseteq fresh', TaskFresh(t)
  PROVE  TaskFresh(t)'
  <1>1. t.lease \in Gens
    BY DEF Tasks
  <1> QED BY <1>1, OnceInForce DEF TaskFresh

\* A handler that takes its next step is in order afterwards.
LEMMA TaskFromFresh ==
  ASSUME RowInv, OwnersFresh, attachment # NoAttachment => attachment \in fresh,
         NEW s \in tasks, NEW t, TaskFrom(s, t), TaskFresh(s)
  PROVE  TaskFresh(t)
  <1>1. /\ s \in Tasks /\ t \in Tasks /\ t.kind = s.kind /\ t.lease = s.lease
        /\ t.gen \in Gens /\ t.rev \in Revs
        /\ t.stage # "rows" /\ t.stage # "clear" /\ s.stage # "clear"
        /\ t.stage # "adopted" => t.gen = s.gen /\ t.rev = s.rev
        /\ t.stage = "unread" => t.kind = "connect"
        /\ t.stage = "publish" => s.stage = "adopted" /\ t.kind = "connect"
        /\ t.stage = "check" => t.kind # "connect"
        /\ t.stage = "decide" <=> s.stage = "check"
        /\ t.stage = "adopted" =>
             /\ s.stage = "rows"
             /\ status[t.gen] = "active" /\ online[t.gen] /\ t.rev = episode[t.gen]
             /\ t.kind = "connect" => owner[t.gen] = instance
    BY TaskFromIs DEF RowInv, TypeOK
  <1>2. /\ t.kind \in {"connect", "decision", "retire", "again", "disconnect"}
        /\ t.stage \in {"adopted", "publish", "unread", "check", "decide"}
        /\ t.lease \in Gens
    BY <1>1 DEF Tasks
  <1>3. t.kind \notin {"retire", "again", "disconnect"}
    BY <1>1 DEF TaskFresh
  <1>4. CASE t.stage = "adopted"
    <2>1. t.kind = "connect" => <<t.gen, t.rev>> \in fresh
      BY <1>1, <1>4 DEF OwnersFresh
    <2>2. t.kind = "decision" => /\ status[t.lease] \in {"active"} \cup Retired
                                 /\ t.gen = t.lease \/ status[t.lease] \in Retired
      BY <1>1, <1>2, <1>4, OneActive DEF TaskFresh, RowInv
    <2> QED BY <1>2, <1>3, <1>4, <2>1, <2>2 DEF TaskFresh
  <1>5. CASE t.stage = "publish"
    BY <1>1, <1>2, <1>3, <1>5 DEF TaskFresh
  <1>6. CASE t.stage = "check"
    <2>1. s.stage = "adopted"
      BY <1>1, <1>6 DEF TaskFrom, ReadsRows, ReadsAdopted, FailsToRead, FindsAttached, Tasks
    <2> QED BY <1>1, <1>2, <1>3, <1>6, <2>1 DEF TaskFresh
  <1>7. CASE t.stage = "decide"
    <2>1. s.stage = "check"
      BY <1>1, <1>7
    <2>2. attachment = <<s.gen, s.rev>>
      BY <2>1 DEF TaskFrom, ReadsRows, ReadsAdopted, FailsToRead, FindsAttached, AttachedEpisode
    <2>3. <<t.gen, t.rev>> \in fresh
      BY <1>1, <1>7, <2>2, LeaseAssumption
    <2> QED BY <1>1, <1>2, <1>3, <1>7, <2>1, <2>3 DEF TaskFresh
  <1>8. CASE t.stage = "unread"
    BY <1>1, <1>3, <1>8 DEF TaskFresh
  <1> QED BY <1>2, <1>4, <1>5, <1>6, <1>7, <1>8

\* The attachment is an episode of this instance, and so is what a handler is
\* about to publish or to decide on.
LEMMA FreshKept ==
  ASSUME Routes \subseteq {"run"}, RowInv, FreshInv, Next, RowInv'
  PROVE  FreshInv'
  <1>1. /\ OwnersFresh /\ \A t \in tasks : TaskFresh(t)
        /\ attachment # NoAttachment => attachment \in fresh
    BY DEF FreshInv, OwnersFresh, TaskFresh
  <1>2. RowStep /\ TaskStep /\ AttachStep /\ InstanceStep
    BY RowCases, MemoryCases DEF RowInv, EpisodesRecorded, ReceiptsRecorded
  <1>3. OwnersFresh'
    BY <1>1, <1>2, OwnersKept
  <1>4. CASE attachment' = NoAttachment /\ tasks' = {}
    BY <1>3, <1>4 DEF FreshInv, OwnersFresh
  <1>5. CASE fresh \subseteq fresh'
    <2>1. attachment' # NoAttachment => attachment' \in fresh'
      <3>1. ASSUME NEW t \in tasks, t.stage = "publish" PROVE <<t.gen, t.rev>> \in fresh
        <4>1. t.kind = "connect"
          BY <3>1 DEF RowInv, EpisodesRecorded
        <4> QED BY <1>1, <3>1, <4>1 DEF TaskFresh
      <3> QED BY <1>1, <1>2, <1>5, <3>1 DEF AttachStep
    <2>2. ASSUME NEW t \in Tasks, TaskFresh(t) PROVE TaskFresh(t)'
      BY <1>2, <1>5, <2>2, TaskStaysFresh
    <2>3. ASSUME NEW t \in tasks' PROVE TaskFresh(t)'
      <3>1. CASE t \in tasks
        BY <1>1, <2>2, <3>1 DEF RowInv, TypeOK
      <3>2. CASE \E s \in tasks : TaskFrom(s, t)
        <4>1. PICK s \in tasks : TaskFrom(s, t)
          BY <3>2
        <4>2. t \in Tasks /\ TaskFresh(t)
          BY <1>1, <4>1, TaskFromIs, TaskFromFresh DEF RowInv
        <4> QED BY <2>2, <4>2
      <3>3. CASE ConnectTask(t)
        <4>1. t \in Tasks /\ t.kind = "connect" /\ t.stage = "rows"
          BY <3>3, NewTaskIs
        <4> QED BY <4>1 DEF TaskFresh
      <3>4. CASE DecisionTask(t)
        <4>1. t \in Tasks /\ t.kind = "decision" /\ t.stage = "rows" /\ status[t.lease] = "active"
          BY <3>4, NewTaskIs
        <4>2. TaskFresh(t)
          BY <4>1 DEF TaskFresh
        <4> QED BY <2>2, <4>1, <4>2
      <3>5. CASE ClearTask(t)
        <4>1. t \in Tasks /\ t.kind \in {"retire", "again", "disconnect"} /\ t.stage = "clear"
          BY <3>5, NewTaskIs
        <4> QED BY <4>1 DEF TaskFresh
      <3> QED BY <1>2, <3>1, <3>2, <3>3, <3>4, <3>5 DEF TaskStep
    <2> QED BY <1>3, <2>1, <2>3 DEF FreshInv, OwnersFresh, TaskFresh
  <1> QED BY <1>2, <1>4, <1>5 DEF InstanceStep

\* On the run route the lease's invariants hold for every number of operations,
\* generations, episodes, instances and handlers: in particular an attachment is
\* an episode that the running instance established itself.  (The session route
\* publishes a replayed receipt of an earlier instance: there this is false.)
THEOREM LeaseAlwaysSound == ASSUME Routes \subseteq {"run"} PROVE Spec => []LeaseInv
  <1>1. Init => FreshInv
    BY ZeroIn DEF Init, FreshInv
  <1>2. RowInv /\ FreshInv /\ RowInv' /\ [Next]_vars => FreshInv'
    <2>1. ASSUME RowInv, FreshInv, RowInv', Next PROVE FreshInv'
      BY <2>1, FreshKept
    <2>2. ASSUME FreshInv, UNCHANGED vars PROVE FreshInv'
      BY <2>2 DEF FreshInv, vars, rowVars, memVars
    <2> QED BY <2>1, <2>2
  <1>3. RowInv /\ FreshInv => LeaseInv
    BY DEF RowInv, LeaseInv
  <1> QED BY <1>1, <1>2, <1>3, RowInvInit, RowInvNext, PTL DEF Spec

\* Then a decision is made only by a controller that connected while this instance
\* was running: neither a persisted connection nor a replayed connect of an earlier
\* instance authorizes one.
THEOREM DecisionsNeedFreshAuthority == ASSUME Routes \subseteq {"run"} PROVE Spec => DecisionsFresh
  <1>1. ASSUME LeaseInv, NEW t \in tasks, Decide(t) PROVE \E r \in Revs : <<t.lease, r>> \in fresh
    <2>1. /\ t \in Tasks /\ t.stage = "decide" /\ status[t.lease] = "active" /\ t.rev \in Revs
          /\ t.kind \in {"connect", "decision", "retire", "again", "disconnect"}
      BY <1>1 DEF LeaseInv, TypeOK, Decide, Admissible, Classifies, Tasks
    <2>2. t.kind = "decision" /\ <<t.gen, t.rev>> \in fresh
      BY <1>1, <2>1 DEF LeaseInv, FreshInv
    <2>3. t.gen = t.lease
      BY <1>1, <2>1, <2>2 DEF LeaseInv, FreshInv, Retired
    <2> QED BY <2>1, <2>2, <2>3
  <1>2. LeaseInv /\ [Next]_vars =>
          [\A t \in tasks : Decide(t) => \E r \in Revs : <<t.lease, r>> \in fresh]_vars
    BY <1>1
  <1> QED BY <1>2, LeaseAlwaysSound, PTL DEF Spec, DecisionsFresh
=============================================================================
