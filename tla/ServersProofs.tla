---------------------------- MODULE ServersProofs ----------------------------
(***************************************************************************)
(* What holds of the turns of codex and of opencode, for any number of     *)
(* turns, children, pumps and faults.                                      *)
(***************************************************************************)
EXTENDS MCServers, FiniteSetTheorems, SequenceTheorems, WellFoundedInduction, TLAPS

mcVars == <<vars, opencodeOnly, part>>

-----------------------------------------------------------------------------
(* Codex: the state in which a turn can be.                                *)

RolloutEntry == [turn : Turns, kind : {"open", "drift", "completed"}]

CodexRow ==
  [turn : {"queued", "open", "failed", "completed", "cancelled"},
   attempt : {None, "uncertain", "missing"} \cup Terminals,
   terminal : BOOLEAN, launch : {None, "reserved", "started", "dead"},
   bound : BOOLEAN, absent : BOOLEAN, baseline : Nat]

CodexPcs ==
  {"none", "slot", "start", "probe", "stopping", "insert", "reserve", "started", "write",
   "ack", "await", "run", "notify", "finish", "idle", "done"}
CodexOutcomes == {None, "rejected", "unknown", "accepted", "lost"}
CodexDisp ==
  [pc : CodexPcs, outcome : CodexOutcomes, child : Gens \cup {None},
   live : BOOLEAN, seen : BOOLEAN]
CodexNative ==
  [state : {"none", "received", "refused", "running"} \cup Terminals,
   tap : {"none", "open", "closed"}, queue : Seq({"started"} \cup Terminals)]
CodexResponses ==
  {NoResp} \cup [pc : {"classify", "stop"}, turn : Turns]

CodexTyped ==
  /\ row \in [Turns -> CodexRow]
  /\ disp \in [Turns -> CodexDisp]
  /\ cancel \in [Turns -> {"none", "waiting", "stopping", "confirmed"}]
  /\ nat \in [Turns -> CodexNative]
  /\ resp \in CodexResponses
  /\ rollout \in Seq(RolloutEntry)
  /\ protected \in BOOLEAN
  /\ ServerTypeOK

\* The native turn is under way; the child has taken it up.
BusyNative(n) == n.state \in {"received", "running"}
BegunNative(n) == n.state \in {"running"} \cup Terminals

\* The dispatch up to the request: the rows say so, and the child knows nothing of the turn.
Early(r, d, n) ==
  /\ d.pc \in {"slot", "start", "probe", "stopping", "insert"} => r.turn = "open"
  /\ d.pc \in {"none", "slot", "start", "probe", "stopping", "insert"} =>
       r.attempt = None /\ r.launch = None /\ ~d.live
  /\ d.pc \in {"reserve", "started"} =>
       /\ r.turn = "open" /\ r.attempt = "uncertain" /\ ~d.live
       /\ r.launch \in {None, "reserved"}
  /\ d.pc = "write" => r.turn = "open" /\ r.attempt = "uncertain" /\ d.live
  /\ d.pc \in {"none", "slot", "start", "probe", "stopping", "insert", "reserve", "started", "write"} =>
       n.state = "none" /\ ~r.terminal /\ d.outcome = None

\* From the request on: a run that is registered, of a turn that has been sent.
Late(r, d, n) ==
  /\ r.turn = "queued" <=> d.pc = "none"
  /\ d.pc \in {"ack", "await"} => r.turn = "open" /\ d.live /\ d.outcome = None
  /\ d.pc = "ack" => n.state # "none"
  /\ d.pc \in {"await", "run", "notify", "finish", "idle"} => BegunNative(n)

\* What is known of a turn is so: its notifications, rows, outcome and cancellation.
KnownTrue(r, d, n, c) ==
  /\ \A i \in DOMAIN n.queue : n.queue[i] \in Terminals => n.state = n.queue[i]
  /\ n.state \in {"none", "received", "refused"} => n.queue = <<>>
  /\ r.attempt \in Terminals => r.terminal /\ n.state = r.attempt
  /\ BusyNative(n) => r.attempt = "uncertain"
  /\ d.outcome = "rejected" => n.state \in {"none", "refused"}
  /\ c = "confirmed" => n.state = "interrupted"

CodexTurnIs(r, d, n, c) == Early(r, d, n) /\ Late(r, d, n) /\ KnownTrue(r, d, n, c)

Busy(t) == BusyNative(nat[t])
Begun(t) == BegunNative(nat[t])

\* Turns are released in order, one at a time, each when no native turn is under way.
CodexOrder ==
  \A t, u \in Turns :
    /\ row[t].turn = "queued" /\ t < u => row[u].turn = "queued"
    /\ row[t].turn = "open" /\ t # u => row[u].turn # "open" /\ ~Busy(u)
    /\ row[t].turn = "open" /\ t < u => row[u].turn = "queued"
    /\ Busy(t) /\ t # u => ~Busy(u)
    /\ Busy(t) /\ t < u => nat[u].state = "none"

\* The rollout is written by turns that began, in the order of the turns, and a record of
\* completion is of a turn that completed.
RolloutTrue ==
  /\ \A i, j \in DOMAIN rollout : i < j => rollout[i].turn <= rollout[j].turn
  /\ \A i \in DOMAIN rollout :
       /\ Begun(rollout[i].turn)
       /\ rollout[i].kind = "completed" => nat[rollout[i].turn].state = "completed"

CodexInv ==
  /\ CodexTyped
  /\ \A t \in Turns : CodexTurnIs(row[t], disp[t], nat[t], cancel[t])
  /\ CodexOrder
  /\ RolloutTrue
  /\ resp.pc = "classify" => Begun(resp.turn)

CodexPart == part = "codex" => CodexInv

-----------------------------------------------------------------------------
(* Codex: facts about the state.                                           *)

RowIs(t, r) == row' \in [Turns -> CodexRow] /\ row'[t] = r /\ \A u \in Turns \ {t} : row'[u] = row[u]
DispIs(t, d) == disp' \in [Turns -> CodexDisp] /\ disp'[t] = d /\ \A u \in Turns \ {t} : disp'[u] = disp[u]
NatIs(t, n) == nat' \in [Turns -> CodexNative] /\ nat'[t] = n /\ \A u \in Turns \ {t} : nat'[u] = nat[u]
CancelIs(t, c) ==
  /\ cancel' \in [Turns -> {"none", "waiting", "stopping", "confirmed"}]
  /\ cancel'[t] = c /\ \A u \in Turns \ {t} : cancel'[u] = cancel[u]

\* A row that is set, or kept.
LEMMA RowSet ==
  ASSUME CodexTyped, NEW t \in Turns, NEW r \in CodexRow, row' = [row EXCEPT ![t] = r]
  PROVE  RowIs(t, r)
  BY DEF CodexTyped, RowIs

\* A dispatch that is set.
LEMMA DispSet ==
  ASSUME CodexTyped, NEW t \in Turns, NEW d \in CodexDisp, disp' = [disp EXCEPT ![t] = d]
  PROVE  DispIs(t, d)
  BY DEF CodexTyped, DispIs

\* A native turn that is set.
LEMMA NatSet ==
  ASSUME CodexTyped, NEW t \in Turns, NEW n \in CodexNative, nat' = [nat EXCEPT ![t] = n]
  PROVE  NatIs(t, n)
  BY DEF CodexTyped, NatIs

\* What is left alone.
LEMMA CodexKept ==
  ASSUME CodexTyped, NEW t \in Turns
  PROVE  /\ UNCHANGED row => RowIs(t, row[t])
         /\ UNCHANGED disp => DispIs(t, disp[t])
         /\ UNCHANGED nat => NatIs(t, nat[t])
         /\ UNCHANGED cancel => CancelIs(t, cancel[t])
  BY DEF CodexTyped, RowIs, DispIs, NatIs, CancelIs

\* How a turn's row may move: it stays, it is settled, or it is released or refused in its order.
TurnMoves(t, r) ==
  \/ r.turn = row[t].turn
  \/ row[t].turn # "queued" /\ r.turn \notin {"queued", "open"}
  \/ /\ row[t].turn = "queued" /\ r.turn # "queued"
     /\ \A u \in Turns : row[u].turn # "open" /\ (u < t => row[u].turn # "queued")
     /\ r.turn = "open" => \A u \in Turns : ~Busy(u)

\* How a native turn may move: on, and from nothing only while its turn is open.
NatMoves(t, n) ==
  /\ BusyNative(n) => Busy(t) \/ row[t].turn = "open"
  /\ n.state # "none" => nat[t].state # "none" \/ row[t].turn = "open"
  /\ Begun(t) => BegunNative(n)
  /\ nat[t].state = "completed" => n.state = "completed"

\* The order survives a step of one turn.
LEMMA OrderKept ==
  ASSUME CodexInv, NEW t \in Turns, NEW r, NEW n, RowIs(t, r), NatIs(t, n), TurnMoves(t, r), NatMoves(t, n)
  PROVE  CodexOrder'
  <1>1. \A u \in Turns : row[u].turn = "queued" => nat[u].state = "none"
    BY DEF CodexInv, CodexTurnIs, Early, Late
  <1> SUFFICES ASSUME NEW v \in Turns, NEW w \in Turns
               PROVE  /\ row'[v].turn = "queued" /\ v < w => row'[w].turn = "queued"
                      /\ row'[v].turn = "open" /\ v # w => row'[w].turn # "open" /\ ~Busy(w)'
                      /\ row'[v].turn = "open" /\ v < w => row'[w].turn = "queued"
                      /\ Busy(v)' /\ v # w => ~Busy(w)'
                      /\ Busy(v)' /\ v < w => nat'[w].state = "none"
    BY DEF CodexOrder
  <1>2. v \in Int /\ w \in Int /\ t \in Int
    BY DEF Turns
  <1>3. /\ row'[v].turn = IF v = t THEN r.turn ELSE row[v].turn
        /\ row'[w].turn = IF w = t THEN r.turn ELSE row[w].turn
        /\ nat'[v].state = IF v = t THEN n.state ELSE nat[v].state
        /\ nat'[w].state = IF w = t THEN n.state ELSE nat[w].state
    BY DEF RowIs, NatIs
  <1>4. /\ Busy(v)' <=> IF v = t THEN BusyNative(n) ELSE Busy(v)
        /\ Busy(w)' <=> IF w = t THEN BusyNative(n) ELSE Busy(w)
    BY <1>3 DEF Busy, BusyNative
  <1>5. \A u \in Turns : Busy(u) => nat[u].state # "none"
    BY DEF Busy, BusyNative
  <1>7. CodexOrder
    BY DEF CodexInv
  <1>9. row'[v].turn = "queued" /\ v < w => row'[w].turn = "queued"
    BY <1>2, <1>3, <1>7 DEF CodexOrder, TurnMoves
  <1>10. row'[v].turn = "open" /\ v # w => row'[w].turn # "open"
    BY <1>2, <1>3, <1>7 DEF CodexOrder, TurnMoves
  <1>11. row'[v].turn = "open" /\ v # w => ~Busy(w)'
    <2>1. CASE v = t
      BY <1>3, <1>4, <1>7, <2>1 DEF CodexOrder, TurnMoves
    <2>2. CASE v # t /\ w = t
      BY <1>3, <1>4, <1>7, <2>2 DEF CodexOrder, NatMoves
    <2>3. CASE v # t /\ w # t
      BY <1>3, <1>4, <1>7, <2>3 DEF CodexOrder
    <2> QED BY <2>1, <2>2, <2>3
  <1>12. row'[v].turn = "open" /\ v < w => row'[w].turn = "queued"
    BY <1>2, <1>3, <1>7 DEF CodexOrder, TurnMoves
  <1>13. Busy(v)' /\ v # w => ~Busy(w)'
    BY <1>2, <1>4, <1>7 DEF CodexOrder, NatMoves
  <1>14. Busy(v)' /\ v < w => nat'[w].state = "none"
    BY <1>1, <1>2, <1>3, <1>4, <1>7 DEF CodexOrder, NatMoves
  <1> QED BY <1>9, <1>10, <1>11, <1>12, <1>13, <1>14

\* The entries of the rollout.
LEMMA EntriesAre ==
  ASSUME CodexInv
  PROVE  /\ rollout \in Seq(RolloutEntry) /\ Len(rollout) \in Nat /\ DOMAIN rollout = 1 .. Len(rollout)
         /\ \A i \in DOMAIN rollout :
              rollout[i] \in RolloutEntry /\ rollout[i].turn \in Turns /\ rollout[i].turn \in Int
  <1>1. rollout \in Seq(RolloutEntry)
    BY DEF CodexInv, CodexTyped
  <1>2. /\ Len(rollout) \in Nat /\ DOMAIN rollout = 1 .. Len(rollout)
        /\ \A i \in DOMAIN rollout : rollout[i] \in RolloutEntry
    BY <1>1, LenProperties
  <1> QED BY <1>1, <1>2 DEF RolloutEntry, Turns

\* A step of one turn.
LEMMA CodexChanges ==
  ASSUME CodexInv, NEW t \in Turns, NEW r, NEW d, NEW n, NEW c,
         RowIs(t, r), DispIs(t, d), NatIs(t, n), CancelIs(t, c),
         CodexTurnIs(r, d, n, c), TurnMoves(t, r), NatMoves(t, n), ServerTypeOK',
         UNCHANGED <<rollout, protected>>,
         resp' \in CodexResponses, resp'.pc = "classify" => Begun(resp'.turn)
  PROVE  CodexInv'
  <1>1. CodexTyped'
    BY DEF CodexInv, CodexTyped, RowIs, DispIs, NatIs, CancelIs
  <1>2. ASSUME NEW u \in Turns PROVE CodexTurnIs(row[u], disp[u], nat[u], cancel[u])'
    <2>1. CodexTurnIs(row[u], disp[u], nat[u], cancel[u])' <=> CodexTurnIs(row'[u], disp'[u], nat'[u], cancel'[u])
      BY DEF CodexTurnIs, Early, Late, KnownTrue, BusyNative, BegunNative
    <2>2. CASE u = t
      BY <2>1, <2>2 DEF RowIs, DispIs, NatIs, CancelIs
    <2>3. CASE u # t
      <3>1. row'[u] = row[u] /\ disp'[u] = disp[u] /\ nat'[u] = nat[u] /\ cancel'[u] = cancel[u]
        BY <2>3 DEF RowIs, DispIs, NatIs, CancelIs
      <3> QED BY <2>1, <3>1 DEF CodexInv
    <2> QED BY <2>2, <2>3
  <1>3. CodexOrder'
    BY OrderKept
  <1>4. ASSUME NEW u \in Turns
        PROVE  (Begun(u) => Begun(u)') /\ (nat[u].state = "completed" => nat'[u].state = "completed")
    <2>1. CASE u = t
      BY <2>1 DEF NatIs, NatMoves, Begun, BegunNative
    <2>2. CASE u # t
      BY <2>2 DEF NatIs, Begun, BegunNative
    <2> QED BY <2>1, <2>2
  <1>5. RolloutTrue'
    <2>1. RolloutTrue /\ \A i \in DOMAIN rollout : rollout[i].turn \in Turns
      BY EntriesAre DEF CodexInv
    <2> QED BY <1>4, <2>1 DEF RolloutTrue
  <1>6. resp'.pc = "classify" => Begun(resp.turn)'
    <2>1. resp'.pc = "classify" => resp'.turn \in Turns
      BY DEF CodexResponses, NoResp
    <2>2. Begun(resp.turn)' <=> BegunNative(nat'[resp'.turn])
      BY DEF Begun, BegunNative
    <2>3. \A u \in Turns : Begun(u)' <=> BegunNative(nat'[u])
      BY DEF Begun, BegunNative
    <2> QED BY <1>4, <2>1, <2>2, <2>3
  <1> QED BY <1>1, <1>2, <1>3, <1>5, <1>6 DEF CodexInv

\* What a step of the manager of children keeps.
LEMMA ServerTyped ==
  ASSUME ServerTypeOK,
         \/ UNCHANGED serverVars \/ MarkBusy \/ MarkIdle \/ Stop \/ Launch \/ LaunchFails
         \/ TimerFires \/ Park \/ ServerCrash
         \/ \E g \in Gens : StreamBreaks(g) \/ Poison(g) \/ Exit(g, "up") \/ Exit(g, "ending")
  PROVE  ServerTypeOK'
  <1> USE DEF ServerTypeOK
  <1>1. CASE UNCHANGED serverVars
    BY <1>1 DEF serverVars
  <1>2. CASE MarkBusy
    BY <1>2 DEF MarkBusy, processVars
  <1>3. CASE MarkIdle
    BY <1>3 DEF MarkIdle, processVars
  <1>4. ASSUME Unregister PROVE /\ child' \in Gens \cup {None} /\ generation' = generation /\ fatal' = fatal
                                /\ conn' \in [Gens -> {"none", "open", "done"}]
                                /\ proc' \in [Gens -> {"none", "up", "ending", "exited"}]
    BY <1>4 DEF Unregister, Terminate, processVars
  <1>5. CASE Stop
    BY <1>4, <1>5 DEF Stop
  <1>6. CASE Launch
    <2>1. generation + 1 \in Gens
      BY <1>6, CodexServerAssumption DEF Launch, Gens
    <2> QED BY <1>6, <2>1, CodexServerAssumption DEF Launch, Gens
  <1>7. CASE LaunchFails
    BY <1>7, CodexServerAssumption DEF LaunchFails, Gens
  <1>8. CASE TimerFires
    BY <1>8 DEF TimerFires, processVars
  <1>9. CASE Park
    <2>1. CASE busy
      BY <1>9, <2>1 DEF Park, processVars
    <2>2. CASE ~busy
      BY <1>4, <1>9, <2>2 DEF Park
    <2> QED BY <2>1, <2>2
  <1>10. CASE ServerCrash
    BY <1>10 DEF ServerCrash
  <1>11. ASSUME NEW g \in Gens, StreamBreaks(g) \/ Exit(g, "up") \/ Exit(g, "ending") PROVE ServerTypeOK'
    BY <1>11 DEF StreamBreaks, Exit
  <1>12. ASSUME NEW g \in Gens, Poison(g) PROVE ServerTypeOK'
    BY <1>12 DEF Poison
  <1> QED BY <1>1, <1>2, <1>3, <1>5, <1>6, <1>7, <1>8, <1>9, <1>10, <1>11, <1>12

\* A step of one turn that leaves the requests and the cancellation alone.
LEMMA CodexSteps ==
  ASSUME CodexInv, NEW t \in Turns, NEW r, NEW d, NEW n,
         RowIs(t, r), DispIs(t, d), NatIs(t, n), CodexTurnIs(r, d, n, cancel[t]),
         TurnMoves(t, r), NatMoves(t, n), ServerTypeOK', UNCHANGED <<cancel, resp, rollout, protected>>
  PROVE  CodexInv'
  <1>1. CancelIs(t, cancel[t])
    BY CodexKept DEF CodexInv
  <1>2. resp' \in CodexResponses /\ (resp'.pc = "classify" => Begun(resp'.turn))
    BY DEF CodexInv, CodexTyped
  <1> QED BY <1>1, <1>2, CodexChanges

\* The values of one turn.
LEMMA CodexAt ==
  ASSUME CodexInv, NEW t \in Turns
  PROVE  /\ CodexTyped /\ ServerTypeOK /\ row[t] \in CodexRow /\ disp[t] \in CodexDisp /\ nat[t] \in CodexNative
         /\ Early(row[t], disp[t], nat[t]) /\ Late(row[t], disp[t], nat[t])
         /\ KnownTrue(row[t], disp[t], nat[t], cancel[t])
         /\ NatMoves(t, nat[t])
  BY DEF CodexInv, CodexTyped, CodexTurnIs, NatMoves, Busy, Begun

\* A refused dispatch: of a turn the child has not taken.
LEMMA CodexRejects ==
  ASSUME CodexInv, NEW t \in Turns, NEW r \in CodexRow, Rejected(t, r),
         UNCHANGED <<nat, cancel, resp, rollout, protected>>, ServerTypeOK',
         nat[t].state \in {"none", "refused"}, r.attempt \notin Terminals,
         \/ row[t].turn = "open"
         \/ /\ row[t].turn = "queued"
            /\ \A u \in Turns : row[u].turn # "open" /\ (u < t => row[u].turn # "queued")
  PROVE  CodexInv'
  <1> DEFINE q == [r EXCEPT !.turn = "failed"]
             d == [disp[t] EXCEPT !.pc = "done", !.outcome = "rejected", !.live = FALSE]
  <1>1. row[t] \in CodexRow /\ disp[t] \in CodexDisp /\ CodexTyped
    BY CodexAt
  <1>2. q \in CodexRow /\ q.turn = "failed" /\ q.attempt = r.attempt
    BY DEF CodexRow
  <1>3. d \in CodexDisp /\ d.pc = "done" /\ d.outcome = "rejected"
    BY <1>1 DEF CodexDisp, CodexPcs, CodexOutcomes
  <1>4. row' = [row EXCEPT ![t] = q] /\ disp' = [disp EXCEPT ![t] = d]
    BY <1>1 DEF Rejected, SetRow, CodexTyped
  <1> HIDE DEF q, d
  <1>5. RowIs(t, q) /\ DispIs(t, d) /\ NatIs(t, nat[t])
    BY <1>1, <1>2, <1>3, <1>4, RowSet, DispSet, CodexKept
  <1>6. CodexTurnIs(q, d, nat[t], cancel[t])
    BY <1>2, <1>3, CodexAt DEF CodexTurnIs, Early, Late, KnownTrue, BusyNative
  <1>7. TurnMoves(t, q) /\ NatMoves(t, nat[t])
    BY <1>2, CodexAt DEF TurnMoves
  <1> QED BY <1>5, <1>6, <1>7, CodexSteps

-----------------------------------------------------------------------------
(* Codex: Dispatch.                                                        *)

CodexRest == UNCHANGED <<cancel, resp, rollout, protected>>

\* The release of a turn, or its refusal because an attempt is unresolved.
LEMMA CodexDispatch ==
  ASSUME CodexInv, NEW t \in Turns, Dispatch(t), UNCHANGED protected
  PROVE  CodexInv'
  <1>1. /\ row[t].turn = "queued"
        /\ \A u \in Turns : row[u].turn # "open" /\ (u < t => row[u].turn # "queued")
        /\ CodexRest /\ UNCHANGED nat /\ UNCHANGED serverVars
    BY DEF Dispatch, Other, CodexRest
  <1>2. row[t] \in CodexRow /\ disp[t] \in CodexDisp /\ CodexTyped /\ ServerTypeOK
    BY CodexAt
  <1>3. ServerTypeOK'
    BY <1>1, <1>2, ServerTyped
  <1>4. disp[t].pc = "none" /\ row[t].attempt = None /\ nat[t].state = "none"
    BY <1>1, CodexAt DEF Early, Late
  <1>5. CASE HasUnresolvedAttempts
    <2>1. Rejected(t, row[t])
      BY <1>5 DEF Dispatch
    <2>2. row[t].attempt \notin Terminals
      BY <1>4, CodexAssumption DEF Terminals
    <2> QED BY <1>1, <1>2, <1>3, <1>4, <2>1, <2>2, CodexRejects DEF CodexRest
  <1>6. CASE ~HasUnresolvedAttempts
    <2> DEFINE r == [row[t] EXCEPT !.turn = "open"]
               d == [disp[t] EXCEPT !.pc = "slot"]
    <2>1. row' = [row EXCEPT ![t] = r] /\ disp' = [disp EXCEPT ![t] = d]
      BY <1>2, <1>6 DEF Dispatch, SetRow, Goto, CodexTyped
    <2>2. r \in CodexRow /\ r.turn = "open" /\ r.attempt = None /\ r.launch = row[t].launch /\ r.terminal = row[t].terminal
      BY <1>2, <1>4 DEF CodexRow
    <2>3. d \in CodexDisp /\ d.pc = "slot" /\ d.outcome = disp[t].outcome /\ d.live = disp[t].live
      BY <1>2 DEF CodexDisp, CodexPcs
    <2> HIDE DEF r, d
    <2>4. RowIs(t, r) /\ DispIs(t, d) /\ NatIs(t, nat[t])
      BY <1>1, <1>2, <2>1, <2>2, <2>3, RowSet, DispSet, CodexKept
    <2>5. CodexTurnIs(r, d, nat[t], cancel[t])
      BY <1>4, <2>2, <2>3, CodexAt, CodexAssumption DEF CodexTurnIs, Early, Late, KnownTrue, BusyNative, Terminals
    <2>6. \A u \in Turns : ~Busy(u)
      BY <1>6, CodexAt DEF HasUnresolvedAttempts, KnownTrue, Busy
    <2>7. TurnMoves(t, r) /\ NatMoves(t, nat[t])
      BY <1>1, <2>2, <2>6, CodexAt DEF TurnMoves
    <2> QED BY <1>1, <1>3, <2>4, <2>5, <2>7, CodexSteps DEF CodexRest
  <1> QED BY <1>5, <1>6

\* A step of the dispatch that moves it on, while the child has not been asked.
LEMMA CodexGoes ==
  ASSUME CodexInv, NEW t \in Turns, NEW d \in CodexDisp, disp' = [disp EXCEPT ![t] = d],
         UNCHANGED <<row, nat>>, CodexRest, ServerTypeOK', CodexTurnIs(row[t], d, nat[t], cancel[t])
  PROVE  CodexInv'
  <1>1. RowIs(t, row[t]) /\ DispIs(t, d) /\ NatIs(t, nat[t])
    BY CodexAt, DispSet, CodexKept
  <1>2. TurnMoves(t, row[t]) /\ NatMoves(t, nat[t])
    BY CodexAt DEF TurnMoves
  <1> QED BY <1>1, <1>2, CodexSteps DEF CodexRest

\* The steps before the attempt is inserted.
LEMMA CodexSlot ==
  ASSUME CodexInv, NEW t \in Turns, UNCHANGED protected,
         AcquireSlot(t) \/ Ineligible(t) \/ StartChild(t) \/ Probe(t) \/ Stopped(t)
  PROVE  CodexInv'
  <1>1. disp[t].pc \in {"slot", "start", "probe", "stopping"} /\ CodexRest /\ UNCHANGED nat
    BY DEF AcquireSlot, Ineligible, StartChild, Probe, Stopped, Other, CodexRest
  <1>2. row[t] \in CodexRow /\ disp[t] \in CodexDisp /\ CodexTyped /\ ServerTypeOK
    BY CodexAt
  <1>3. row[t].turn = "open" /\ row[t].attempt = None /\ nat[t].state = "none" /\ row[t].attempt \notin Terminals
    BY <1>1, CodexAt, CodexAssumption DEF Early, Terminals
  <1>4. ServerTypeOK'
    BY <1>2, ServerTyped DEF AcquireSlot, Ineligible, StartChild, Probe, Stopped
  <1>5. CASE Rejected(t, row[t])
    BY <1>1, <1>2, <1>3, <1>4, <1>5, CodexRejects DEF CodexRest
  <1>6. ASSUME NEW p \in {"start", "insert", "stopping"}, Goto(t, p), UNCHANGED row PROVE CodexInv'
    <2> DEFINE d == [disp[t] EXCEPT !.pc = p]
    <2>1. disp' = [disp EXCEPT ![t] = d]
      BY <1>2, <1>6 DEF Goto, CodexTyped
    <2>2. d \in CodexDisp /\ d.pc = p /\ d.outcome = disp[t].outcome /\ d.live = disp[t].live
      BY <1>2, <1>6 DEF CodexDisp, CodexPcs
    <2> HIDE DEF d
    <2>3. CodexTurnIs(row[t], d, nat[t], cancel[t])
      BY <1>1, <1>3, <2>2, CodexAt DEF CodexTurnIs, Early, Late, KnownTrue
    <2> QED BY <1>1, <1>4, <1>6, <2>1, <2>2, <2>3, CodexGoes
  <1>7. ASSUME NEW g \in Gens \cup {None}, disp' = [disp EXCEPT ![t].pc = "probe", ![t].child = g], UNCHANGED row
        PROVE  CodexInv'
    <2> DEFINE d == [disp[t] EXCEPT !.pc = "probe", !.child = g]
    <2>1. disp' = [disp EXCEPT ![t] = d]
      BY <1>2, <1>7 DEF CodexTyped
    <2>2. d \in CodexDisp /\ d.pc = "probe" /\ d.outcome = disp[t].outcome /\ d.live = disp[t].live
      BY <1>2, <1>7 DEF CodexDisp, CodexPcs
    <2> HIDE DEF d
    <2>3. CodexTurnIs(row[t], d, nat[t], cancel[t])
      BY <1>1, <1>3, <2>2, CodexAt DEF CodexTurnIs, Early, Late, KnownTrue
    <2> QED BY <1>1, <1>4, <1>7, <2>1, <2>2, <2>3, CodexGoes
  <1>8. CASE AcquireSlot(t)
    BY <1>5, <1>6, <1>8 DEF AcquireSlot
  <1>9. CASE Ineligible(t)
    BY <1>5, <1>9 DEF Ineligible
  <1>10. CASE StartChild(t)
    <2>1. child' \in Gens \cup {None}
      BY <1>4 DEF ServerTypeOK
    <2> QED BY <1>5, <1>7, <1>10, <2>1 DEF StartChild
  <1>11. CASE Probe(t)
    BY <1>6, <1>11 DEF Probe
  <1>12. CASE Stopped(t)
    BY <1>5, <1>12 DEF Stopped
  <1> QED BY <1>8, <1>9, <1>10, <1>11, <1>12

\* The attempt and the launch are recorded.
LEMMA CodexRecords ==
  ASSUME CodexInv, NEW t \in Turns, UNCHANGED protected,
         InsertAttempt(t) \/ ReserveLaunch(t) \/ RecordStarted(t)
  PROVE  CodexInv'
  <1>1. disp[t].pc \in {"insert", "reserve", "started"} /\ CodexRest /\ UNCHANGED nat
    BY DEF InsertAttempt, ReserveLaunch, RecordStarted, Other, CodexRest
  <1>2. row[t] \in CodexRow /\ disp[t] \in CodexDisp /\ CodexTyped /\ ServerTypeOK
    BY CodexAt
  <1>3. /\ row[t].turn = "open" /\ row[t].attempt \in {None, "uncertain"} /\ nat[t].state = "none"
        /\ row[t].attempt \notin Terminals /\ ~row[t].terminal /\ disp[t].outcome = None
    BY <1>1, CodexAt, CodexAssumption DEF Early, Terminals
  <1>4. ServerTypeOK'
    BY <1>2, ServerTyped DEF InsertAttempt, ReserveLaunch, RecordStarted
  <1>5. CASE Rejected(t, row[t])
    BY <1>1, <1>2, <1>3, <1>4, <1>5, CodexRejects DEF CodexRest
  <1>6. ASSUME NEW r \in CodexRow, NEW d \in CodexDisp, row' = [row EXCEPT ![t] = r],
               disp' = [disp EXCEPT ![t] = d],
               r.turn = "open", r.attempt = "uncertain", ~r.terminal,
               d.outcome = None,
               \/ d.pc \in {"reserve", "started"} /\ ~d.live /\ r.launch \in {None, "reserved"}
               \/ d.pc = "write" /\ d.live
        PROVE  CodexInv'
    <2>1. RowIs(t, r) /\ DispIs(t, d) /\ NatIs(t, nat[t])
      BY <1>1, <1>2, <1>6, RowSet, DispSet, CodexKept
    <2>2. CodexTurnIs(r, d, nat[t], cancel[t])
      BY <1>3, <1>6, CodexAt, CodexAssumption DEF CodexTurnIs, Early, Late, KnownTrue, BusyNative, Terminals
    <2>3. TurnMoves(t, r) /\ NatMoves(t, nat[t])
      BY <1>3, <1>6, CodexAt DEF TurnMoves
    <2> QED BY <1>1, <1>4, <2>1, <2>2, <2>3, CodexSteps DEF CodexRest
  <1>7. ASSUME InsertAttempt(t), ~Rejected(t, row[t]) PROVE CodexInv'
    <2> DEFINE b == IF materialized THEN Len(rollout) ELSE 0
               r == [row[t] EXCEPT !.attempt = "uncertain", !.baseline = b]
               d == [disp[t] EXCEPT !.pc = "reserve"]
    <2>1. b \in Nat
      BY EntriesAre
    <2>2. row' = [row EXCEPT ![t] = r] /\ disp' = [disp EXCEPT ![t] = d] /\ disp[t].pc = "insert"
      BY <1>2, <1>7 DEF InsertAttempt, SetRow, Goto, CodexTyped
    <2> HIDE DEF b
    <2>3. /\ r \in CodexRow /\ r.turn = row[t].turn /\ r.attempt = "uncertain" /\ r.terminal = row[t].terminal
          /\ r.launch = row[t].launch
      BY <1>2, <2>1 DEF CodexRow
    <2>4. d \in CodexDisp /\ d.pc = "reserve" /\ d.outcome = disp[t].outcome /\ d.live = disp[t].live
      BY <1>2 DEF CodexDisp, CodexPcs
    <2> HIDE DEF r, d
    <2>5. row[t].launch = None /\ ~disp[t].live
      BY <2>2, CodexAt DEF Early
    <2> QED BY <1>3, <1>6, <2>2, <2>3, <2>4, <2>5
  <1>8. ASSUME ReserveLaunch(t), ~Rejected(t, row[t]) PROVE CodexInv'
    <2> DEFINE r == [row[t] EXCEPT !.launch = "reserved"]
               d == [disp[t] EXCEPT !.pc = "started"]
    <2>1. row' = [row EXCEPT ![t] = r] /\ disp' = [disp EXCEPT ![t] = d] /\ disp[t].pc = "reserve"
      BY <1>2, <1>8 DEF ReserveLaunch, SetRow, Goto, CodexTyped
    <2>2. /\ r \in CodexRow /\ r.turn = row[t].turn /\ r.attempt = row[t].attempt /\ r.terminal = row[t].terminal
          /\ r.launch = "reserved"
      BY <1>2 DEF CodexRow
    <2>3. d \in CodexDisp /\ d.pc = "started" /\ d.outcome = disp[t].outcome /\ d.live = disp[t].live
      BY <1>2 DEF CodexDisp, CodexPcs
    <2> HIDE DEF r, d
    <2>4. row[t].attempt = "uncertain" /\ ~disp[t].live
      BY <2>1, CodexAt DEF Early
    <2> QED BY <1>3, <1>6, <2>1, <2>2, <2>3, <2>4
  <1>9. ASSUME RecordStarted(t) PROVE CodexInv'
    <2>1. disp[t].pc = "started" /\ row[t].attempt = "uncertain" /\ ~disp[t].live
      BY <1>9, CodexAt DEF RecordStarted, Early
    <2>2. CASE Unknown(t, FALSE) /\ UNCHANGED row
      <3> DEFINE d == [disp[t] EXCEPT !.pc = "done", !.outcome = "unknown", !.live = FALSE]
      <3>1. disp' = [disp EXCEPT ![t] = d]
        BY <1>2, <2>2 DEF Unknown, CodexTyped
      <3>2. d \in CodexDisp /\ d.pc = "done" /\ d.outcome = "unknown" /\ d.live = FALSE
        BY <1>2 DEF CodexDisp, CodexPcs, CodexOutcomes
      <3> HIDE DEF d
      <3>3. CodexTurnIs(row[t], d, nat[t], cancel[t])
        BY <1>3, <3>2, CodexAt DEF CodexTurnIs, Early, Late, KnownTrue
      <3> QED BY <1>1, <1>4, <2>2, <3>1, <3>2, <3>3, CodexGoes
    <2>3. CASE ~(Unknown(t, FALSE) /\ UNCHANGED row)
      <3> DEFINE r == [row[t] EXCEPT !.launch = "started"]
                 d == [disp[t] EXCEPT !.pc = "write", !.live = TRUE]
      <3>1. row' = [row EXCEPT ![t] = r] /\ disp' = [disp EXCEPT ![t] = d]
        BY <1>2, <1>9, <2>3 DEF RecordStarted, SetRow, CodexTyped
      <3>2. r \in CodexRow /\ r.turn = row[t].turn /\ r.attempt = row[t].attempt /\ r.terminal = row[t].terminal
        BY <1>2 DEF CodexRow
      <3>3. d \in CodexDisp /\ d.pc = "write" /\ d.outcome = disp[t].outcome /\ d.live = TRUE
        BY <1>2 DEF CodexDisp, CodexPcs
      <3> HIDE DEF r, d
      <3> QED BY <1>3, <1>6, <2>1, <3>1, <3>2, <3>3
    <2> QED BY <2>2, <2>3
  <1> QED BY <1>5, <1>7, <1>8, <1>9

\* A native turn that stays where it is.
LEMMA NatStays ==
  ASSUME NEW t \in Turns, NEW n, n.state = nat[t].state
  PROVE  NatMoves(t, n)
  BY DEF NatMoves, Busy, Begun, BusyNative, BegunNative

\* One notification is taken: it is true, and so are those that are left.
LEMMA TakeOne ==
  ASSUME CodexInv, NEW t \in Turns, nat[t].queue # <<>>, nat' = [nat EXCEPT ![t].queue = Tail(@)]
  PROVE  LET n == [nat[t] EXCEPT !.queue = Tail(@)]
         IN  /\ NatIs(t, n) /\ n.state = nat[t].state /\ NatMoves(t, n) /\ nat[t].state # "none"
             /\ KnownTrue(row[t], disp[t], n, cancel[t])
             /\ Head(nat[t].queue) \in {"started"} \cup Terminals
             /\ Head(nat[t].queue) \in Terminals => nat[t].state = Head(nat[t].queue)
  <1> DEFINE q == nat[t].queue
             n == [nat[t] EXCEPT !.queue = Tail(q)]
  <1>1. nat[t] \in CodexNative /\ KnownTrue(row[t], disp[t], nat[t], cancel[t]) /\ CodexTyped
    BY CodexAt
  <1>2. q \in Seq({"started"} \cup Terminals)
    BY <1>1 DEF CodexNative
  <1>3. /\ Head(q) \in {"started"} \cup Terminals /\ Tail(q) \in Seq({"started"} \cup Terminals)
        /\ Len(Tail(q)) = Len(q) - 1 /\ \A i \in 1 .. Len(Tail(q)) : Tail(q)[i] = q[i + 1]
    BY <1>2, HeadTailProperties
  <1>4. /\ Len(q) \in Nat /\ DOMAIN q = 1 .. Len(q) /\ DOMAIN Tail(q) = 1 .. Len(Tail(q))
        /\ Len(Tail(q)) \in Nat
    BY <1>2, <1>3, LenProperties
  <1>5. \A i \in DOMAIN Tail(q) : i + 1 \in DOMAIN q /\ Tail(q)[i] = q[i + 1]
    BY <1>3, <1>4
  <1>6. Head(q) = q[1] /\ 1 \in DOMAIN q
    BY <1>2, <1>3, <1>4
  <1>7. \A i \in DOMAIN q : q[i] \in Terminals => nat[t].state = q[i]
    BY <1>1 DEF KnownTrue
  <1>8. nat' = [nat EXCEPT ![t] = n]
    BY <1>1 DEF CodexTyped
  <1>9. n \in CodexNative /\ n.state = nat[t].state /\ n.queue = Tail(q)
    BY <1>1, <1>3 DEF CodexNative
  <1>10. nat[t].state \notin {"none", "received", "refused"}
    BY <1>1 DEF KnownTrue
  <1> HIDE DEF n, q
  <1>11. \A i \in DOMAIN n.queue : n.queue[i] \in Terminals => n.state = n.queue[i]
    BY <1>5, <1>7, <1>9
  <1>12. KnownTrue(row[t], disp[t], n, cancel[t])
    BY <1>1, <1>9, <1>10, <1>11 DEF KnownTrue, BusyNative
  <1>13. NatIs(t, n) /\ NatMoves(t, n)
    BY <1>1, <1>8, <1>9, NatSet, NatStays
  <1>14. Head(q) \in Terminals => nat[t].state = Head(q)
    BY <1>6, <1>7
  <1> QED BY <1>3, <1>9, <1>10, <1>12, <1>13, <1>14 DEF n, q

\* An outcome that is not known: the turn stays open.
LEMMA CodexUnknown ==
  ASSUME CodexInv, NEW t \in Turns, NEW live \in BOOLEAN, NEW n, Unknown(t, live),
         UNCHANGED row, CodexRest, ServerTypeOK', NatIs(t, n), n.state = nat[t].state,
         KnownTrue(row[t], disp[t], n, cancel[t]), disp[t].pc # "none"
  PROVE  CodexInv'
  <1> DEFINE d == [disp[t] EXCEPT !.pc = "done", !.outcome = "unknown", !.live = live]
  <1>1. row[t] \in CodexRow /\ disp[t] \in CodexDisp /\ CodexTyped
    BY CodexAt
  <1>2. disp' = [disp EXCEPT ![t] = d]
    BY <1>1 DEF Unknown, CodexTyped
  <1>3. d \in CodexDisp /\ d.pc = "done" /\ d.outcome = "unknown"
    BY <1>1 DEF CodexDisp, CodexPcs, CodexOutcomes
  <1> HIDE DEF d
  <1>4. RowIs(t, row[t]) /\ DispIs(t, d)
    BY <1>1, <1>2, <1>3, DispSet, CodexKept
  <1>5. CodexTurnIs(row[t], d, n, cancel[t])
    BY <1>3, CodexAt DEF CodexTurnIs, Early, Late, KnownTrue
  <1>6. TurnMoves(t, row[t]) /\ NatMoves(t, n)
    BY NatStays DEF TurnMoves
  <1> QED BY <1>4, <1>5, <1>6, CodexSteps DEF CodexRest

\* The request is written, or is not.
LEMMA CodexWrites ==
  ASSUME CodexInv, NEW t \in Turns, UNCHANGED protected, WriteTurnStart(t)
  PROVE  CodexInv'
  <1>1. disp[t].pc = "write" /\ CodexRest
    BY DEF WriteTurnStart, Other, CodexRest
  <1>2. row[t] \in CodexRow /\ disp[t] \in CodexDisp /\ nat[t] \in CodexNative /\ CodexTyped /\ ServerTypeOK
    BY CodexAt
  <1>3. /\ row[t].turn = "open" /\ row[t].attempt = "uncertain" /\ nat[t].state = "none"
        /\ ~row[t].terminal /\ disp[t].outcome = None /\ disp[t].live
    BY <1>1, CodexAt DEF Early
  <1>4. ServerTypeOK'
    BY <1>2, ServerTyped DEF WriteTurnStart
  <1>5. CASE Unknown(t, FALSE) /\ UNCHANGED <<row, nat>>
    <2>1. NatIs(t, nat[t]) /\ KnownTrue(row[t], disp[t], nat[t], cancel[t])
      BY <1>2, <1>5, CodexKept, CodexAt
    <2> QED BY <1>1, <1>4, <1>5, <2>1, CodexUnknown
  <1>6. CASE Rejected(t, [row[t] EXCEPT !.launch = "dead", !.attempt = "missing"]) /\ UNCHANGED nat
    <2> DEFINE r == [row[t] EXCEPT !.launch = "dead", !.attempt = "missing"]
    <2>1. r \in CodexRow /\ r.attempt = "missing" /\ Rejected(t, r)
      BY <1>2, <1>6 DEF CodexRow
    <2>2. r.attempt \notin Terminals
      BY <2>1 DEF Terminals
    <2> HIDE DEF r
    <2> QED BY <1>1, <1>3, <1>4, <1>6, <2>1, <2>2, CodexRejects DEF CodexRest
  <1>7. CASE nat' = [nat EXCEPT ![t].state = "received"] /\ Goto(t, "ack") /\ UNCHANGED row
    <2> DEFINE n == [nat[t] EXCEPT !.state = "received"]
               d == [disp[t] EXCEPT !.pc = "ack"]
    <2>1. nat' = [nat EXCEPT ![t] = n] /\ disp' = [disp EXCEPT ![t] = d]
      BY <1>2, <1>7 DEF Goto, CodexTyped
    <2>2. n \in CodexNative /\ n.state = "received" /\ n.queue = nat[t].queue
      BY <1>2 DEF CodexNative
    <2>3. d \in CodexDisp /\ d.pc = "ack" /\ d.outcome = None /\ d.live
      BY <1>2, <1>3 DEF CodexDisp, CodexPcs
    <2> HIDE DEF n, d
    <2>4. RowIs(t, row[t]) /\ DispIs(t, d) /\ NatIs(t, n)
      BY <1>2, <1>7, <2>1, <2>2, <2>3, CodexKept, DispSet, NatSet
    <2>5. nat[t].queue = <<>> /\ cancel[t] # "confirmed"
      BY <1>3, CodexAt DEF KnownTrue
    <2>6. n.queue = <<>> /\ DOMAIN n.queue = {}
      BY <2>2, <2>5
    <2>7. KnownTrue(row[t], d, n, cancel[t])
      BY <1>3, <2>2, <2>3, <2>5, <2>6, CodexAssumption DEF KnownTrue, Terminals
    <2>8. Early(row[t], d, n) /\ Late(row[t], d, n)
      BY <1>3, <2>2, <2>3 DEF Early, Late
    <2>9. TurnMoves(t, row[t]) /\ NatMoves(t, n)
      BY <1>3, <2>2 DEF TurnMoves, NatMoves, Begun, BegunNative, Terminals
    <2> QED BY <1>1, <1>4, <2>4, <2>7, <2>8, <2>9, CodexSteps DEF CodexRest, CodexTurnIs
  <1> QED BY <1>5, <1>6, <1>7 DEF WriteTurnStart

\* The child refused, or nobody knows.
LEMMA CodexAnswers ==
  ASSUME CodexInv, NEW t \in Turns, UNCHANGED protected, TurnStartRefused(t) \/ TurnStartUnknown(t)
  PROVE  CodexInv'
  <1>1. disp[t].pc = "ack" /\ CodexRest /\ UNCHANGED nat /\ MarkIdle
    BY DEF TurnStartRefused, TurnStartUnknown, Other, CodexRest
  <1>2. row[t] \in CodexRow /\ nat[t] \in CodexNative /\ CodexTyped /\ ServerTypeOK
    BY CodexAt
  <1>3. row[t].turn = "open"
    BY <1>1, CodexAt DEF Late
  <1>4. ServerTypeOK'
    BY <1>1, <1>2, ServerTyped
  <1>5. CASE TurnStartUnknown(t)
    <2>1. NatIs(t, nat[t]) /\ KnownTrue(row[t], disp[t], nat[t], cancel[t])
      BY <1>1, <1>2, CodexKept, CodexAt
    <2>2. Unknown(t, FALSE) /\ UNCHANGED row
      BY <1>5 DEF TurnStartUnknown
    <2> QED BY <1>1, <1>4, <2>1, <2>2, CodexUnknown
  <1>6. CASE TurnStartRefused(t)
    <2> DEFINE r == [row[t] EXCEPT !.launch = "dead", !.attempt = "missing"]
    <2>1. r \in CodexRow /\ r.attempt = "missing" /\ Rejected(t, r) /\ nat[t].state = "refused"
      BY <1>2, <1>6 DEF CodexRow, TurnStartRefused
    <2>2. r.attempt \notin Terminals
      BY <2>1 DEF Terminals
    <2> HIDE DEF r
    <2> QED BY <1>1, <1>3, <1>4, <2>1, <2>2, CodexRejects DEF CodexRest
  <1> QED BY <1>5, <1>6

\* The route is installed.
LEMMA CodexRoute ==
  ASSUME CodexInv, NEW t \in Turns, UNCHANGED protected, InstallTurnRoute(t)
  PROVE  CodexInv'
  <1> DEFINE n == [nat[t] EXCEPT !.tap = "open"]
             d == [disp[t] EXCEPT !.pc = "await"]
  <1>1. row[t] \in CodexRow /\ disp[t] \in CodexDisp /\ nat[t] \in CodexNative /\ CodexTyped /\ ServerTypeOK
    BY CodexAt
  <1>2. /\ disp[t].pc = "ack" /\ CodexRest /\ UNCHANGED row
        /\ nat' = [nat EXCEPT ![t] = n] /\ disp' = [disp EXCEPT ![t] = d]
        /\ nat[t].state \notin {"none", "received", "refused"}
    BY <1>1 DEF InstallTurnRoute, Other, CodexRest, Goto, CodexTyped
  <1>3. ServerTypeOK'
    BY <1>1, ServerTyped DEF InstallTurnRoute
  <1>4. n \in CodexNative /\ n.state = nat[t].state /\ n.queue = nat[t].queue
    BY <1>1 DEF CodexNative
  <1>5. d \in CodexDisp /\ d.pc = "await" /\ d.outcome = disp[t].outcome /\ d.live = disp[t].live
    BY <1>1 DEF CodexDisp, CodexPcs
  <1> HIDE DEF n, d
  <1>6. RowIs(t, row[t]) /\ DispIs(t, d) /\ NatIs(t, n)
    BY <1>1, <1>2, <1>4, <1>5, CodexKept, DispSet, NatSet
  <1>7. BegunNative(n)
    BY <1>1, <1>2, <1>4 DEF BegunNative, CodexNative
  <1>8. CodexTurnIs(row[t], d, n, cancel[t])
    BY <1>2, <1>4, <1>5, <1>7, CodexAt DEF CodexTurnIs, Early, Late, KnownTrue, BusyNative
  <1>9. TurnMoves(t, row[t]) /\ NatMoves(t, n)
    BY <1>4, NatStays DEF TurnMoves
  <1> QED BY <1>2, <1>3, <1>6, <1>8, <1>9, CodexSteps DEF CodexRest

\* The turn is accepted, with a native id or without.
LEMMA CodexAwaits ==
  ASSUME CodexInv, NEW t \in Turns, UNCHANGED protected, AwaitTurnStarted(t) \/ BindFails(t)
  PROVE  CodexInv'
  <1>1. row[t] \in CodexRow /\ disp[t] \in CodexDisp /\ nat[t] \in CodexNative /\ CodexTyped /\ ServerTypeOK
    BY CodexAt
  <1>2. disp[t].pc = "await" /\ CodexRest
    BY DEF AwaitTurnStarted, BindFails, Other, CodexRest
  <1>3. row[t].turn = "open" /\ BegunNative(nat[t]) /\ KnownTrue(row[t], disp[t], nat[t], cancel[t])
    BY <1>2, CodexAt DEF Late
  <1>4. ServerTypeOK'
    BY <1>1, ServerTyped DEF AwaitTurnStarted, BindFails
  <1>5. CASE BindFails(t)
    <2> DEFINE n == [nat[t] EXCEPT !.queue = Tail(@)]
    <2>1. Unknown(t, TRUE) /\ UNCHANGED row /\ nat[t].queue # <<>> /\ nat' = [nat EXCEPT ![t].queue = Tail(@)]
      BY <1>5 DEF BindFails
    <2>2. NatIs(t, n) /\ n.state = nat[t].state /\ KnownTrue(row[t], disp[t], n, cancel[t])
      BY <2>1, TakeOne
    <2> HIDE DEF n
    <2> QED BY <1>2, <1>4, <2>1, <2>2, CodexUnknown
  <1>6. ASSUME NEW n, NatIs(t, n), n.state = nat[t].state, KnownTrue(row[t], disp[t], n, cancel[t]),
               NEW r0 \in CodexRow, FirstAcceptance(t, r0), r0.turn = row[t].turn,
               r0.attempt = row[t].attempt, r0.terminal = row[t].terminal,
               disp' = [disp EXCEPT ![t].pc = "run", ![t].outcome = "accepted"]
        PROVE  CodexInv'
    <2> DEFINE d == [disp[t] EXCEPT !.pc = "run", !.outcome = "accepted"]
    <2>1. d \in CodexDisp /\ d.pc = "run" /\ d.outcome = "accepted"
      BY <1>1 DEF CodexDisp, CodexPcs, CodexOutcomes
    <2>2. DispIs(t, d)
      <3>1. disp' = [disp EXCEPT ![t] = d]
        BY <1>1, <1>6 DEF CodexTyped
      <3> HIDE DEF d
      <3> QED BY <1>1, <2>1, <3>1, DispSet
    <2> HIDE DEF d
    <2>3. ASSUME NEW r \in CodexRow, row' = [row EXCEPT ![t] = r], r.turn = row[t].turn,
                 r.attempt = row[t].attempt, r.terminal = row[t].terminal
          PROVE  CodexInv'
      <3>1. RowIs(t, r)
        BY <1>1, <2>3, RowSet
      <3>2. KnownTrue(r, d, n, cancel[t])
        BY <1>6, <2>1, <2>3 DEF KnownTrue
      <3>3. Early(r, d, n) /\ Late(r, d, n)
        BY <1>3, <1>6, <2>1, <2>3 DEF Early, Late, BegunNative
      <3>4. TurnMoves(t, r) /\ NatMoves(t, n)
        BY <1>6, <2>3, NatStays DEF TurnMoves
      <3> QED BY <1>2, <1>4, <1>6, <2>2, <3>1, <3>2, <3>3, <3>4, CodexSteps DEF CodexRest, CodexTurnIs
    <2>4. CASE SetRow(t, r0)
      BY <1>6, <2>3, <2>4 DEF SetRow
    <2>5. CASE SetRow(t, [r0 EXCEPT !.baseline = Len(rollout)])
      <3> DEFINE r == [r0 EXCEPT !.baseline = Len(rollout)]
      <3>1. Len(rollout) \in Nat
        BY EntriesAre
      <3>2. /\ r \in CodexRow /\ r.turn = r0.turn /\ r.attempt = r0.attempt /\ r.terminal = r0.terminal
        BY <1>6, <3>1 DEF CodexRow
      <3>3. row' = [row EXCEPT ![t] = r]
        BY <2>5 DEF SetRow
      <3> HIDE DEF r
      <3> QED BY <1>6, <2>3, <3>2, <3>3
    <2> QED BY <1>6, <2>4, <2>5 DEF FirstAcceptance
  <1>7. CASE AwaitTurnStarted(t)
    <2>1. disp' = [disp EXCEPT ![t].pc = "run", ![t].outcome = "accepted"]
      BY <1>7 DEF AwaitTurnStarted
    <2>2. CASE UNCHANGED nat /\ FirstAcceptance(t, row[t])
      <3>1. NatIs(t, nat[t])
        BY <1>1, <2>2, CodexKept
      <3> QED BY <1>1, <1>3, <1>6, <2>1, <2>2, <3>1
    <2>3. CASE /\ nat[t].queue # <<>>
               /\ nat' = [nat EXCEPT ![t].queue = Tail(@)]
               /\ FirstAcceptance(t, [row[t] EXCEPT !.bound = Head(nat[t].queue) = "started"])
      <3> DEFINE n == [nat[t] EXCEPT !.queue = Tail(@)]
                 b == Head(nat[t].queue) = "started"
                 r == [row[t] EXCEPT !.bound = b]
      <3>1. NatIs(t, n) /\ n.state = nat[t].state /\ KnownTrue(row[t], disp[t], n, cancel[t])
        BY <2>3, TakeOne
      <3>2. b \in BOOLEAN
        OBVIOUS
      <3>3. FirstAcceptance(t, r)
        BY <2>3
      <3> HIDE DEF n, b
      <3>4. /\ r \in CodexRow /\ r.turn = row[t].turn /\ r.attempt = row[t].attempt /\ r.terminal = row[t].terminal
        BY <1>1, <3>2 DEF CodexRow
      <3> HIDE DEF r
      <3> QED BY <1>6, <2>1, <3>1, <3>3, <3>4
    <2> QED BY <1>7, <2>2, <2>3 DEF AwaitTurnStarted
  <1> QED BY <1>5, <1>7

-----------------------------------------------------------------------------
(* Codex: the turn loop.                                                   *)

\* A verdict is committed only when the child has reached it.
LEMMA CodexTerminal ==
  ASSUME CodexInv, NEW t \in Turns, NEW status \in Terminals, NEW n, Terminal(t, status),
         disp[t].pc = "run", NatIs(t, n), n.state = nat[t].state, nat[t].state = status,
         KnownTrue(row[t], disp[t], n, cancel[t]), CodexRest
  PROVE  CodexInv'
  <1>1. row[t] \in CodexRow /\ disp[t] \in CodexDisp /\ CodexTyped /\ ServerTypeOK /\ Late(row[t], disp[t], nat[t])
    BY CodexAt
  <1>2. ServerTypeOK'
    BY <1>1, ServerTyped DEF Terminal
  <1>3. ASSUME NEW r, NEW p \in {"notify", "finish"}, RowIs(t, r), Goto(t, p), r \in CodexRow,
               r.turn = row[t].turn,
               r = row[t] \/ r.attempt = "uncertain" \/ (r.attempt = status /\ r.terminal)
        PROVE  CodexInv'
    <2> DEFINE d == [disp[t] EXCEPT !.pc = p]
    <2>1. disp' = [disp EXCEPT ![t] = d]
      BY <1>1, <1>3 DEF Goto, CodexTyped
    <2>2. d \in CodexDisp /\ d.pc = p /\ d.outcome = disp[t].outcome
      BY <1>1, <1>3 DEF CodexDisp, CodexPcs
    <2> HIDE DEF d
    <2>3. DispIs(t, d)
      BY <1>1, <2>1, <2>2, DispSet
    <2>4. Early(r, d, n) /\ Late(r, d, n)
      BY <1>1, <1>3, <2>2 DEF Early, Late, BegunNative
    <2>5. ~BusyNative(n) /\ "uncertain" \notin Terminals
      BY DEF BusyNative, Terminals
    <2>6. KnownTrue(r, d, n, cancel[t])
      BY <1>3, <2>2, <2>5 DEF KnownTrue
    <2>7. TurnMoves(t, r) /\ NatMoves(t, n)
      BY <1>3, NatStays DEF TurnMoves
    <2> QED BY <1>2, <1>3, <2>3, <2>4, <2>6, <2>7, CodexSteps DEF CodexRest, CodexTurnIs
  <1>4. CASE SetRow(t, [row[t] EXCEPT !.terminal = TRUE, !.attempt = status]) /\ Goto(t, "notify")
    <2> DEFINE r == [row[t] EXCEPT !.terminal = TRUE, !.attempt = status]
    <2>1. r \in CodexRow /\ r.turn = row[t].turn /\ r.attempt = status /\ r.terminal
      BY <1>1 DEF CodexRow
    <2>2. row' = [row EXCEPT ![t] = r]
      BY <1>4 DEF SetRow
    <2> HIDE DEF r
    <2>3. RowIs(t, r)
      BY <1>1, <2>1, <2>2, RowSet
    <2> QED BY <1>3, <1>4, <2>1, <2>3
  <1>5. CASE Goto(t, "finish") /\ UNCHANGED row
    BY <1>1, <1>3, <1>5, CodexKept
  <1>6. CASE SetRow(t, [row[t] EXCEPT !.attempt = "uncertain"]) /\ Goto(t, "finish")
    <2> DEFINE r == [row[t] EXCEPT !.attempt = "uncertain"]
    <2>1. r \in CodexRow /\ r.turn = row[t].turn /\ r.attempt = "uncertain"
      BY <1>1 DEF CodexRow
    <2>2. row' = [row EXCEPT ![t] = r]
      BY <1>6 DEF SetRow
    <2> HIDE DEF r
    <2>3. RowIs(t, r)
      BY <1>1, <2>1, <2>2, RowSet
    <2> QED BY <1>3, <1>6, <2>1, <2>3
  <1> QED BY <1>4, <1>5, <1>6 DEF Terminal

\* The loop takes a notification, or sees that no more will come.
LEMMA CodexConsumes ==
  ASSUME CodexInv, NEW t \in Turns, UNCHANGED protected, Consume(t)
  PROVE  CodexInv'
  <1>1. disp[t].pc = "run" /\ CodexRest
    BY DEF Consume, Other, CodexRest
  <1>2. row[t] \in CodexRow /\ disp[t] \in CodexDisp /\ nat[t] \in CodexNative /\ CodexTyped /\ ServerTypeOK
    BY CodexAt
  <1>3. CASE /\ nat[t].queue # <<>>
             /\ nat' = [nat EXCEPT ![t].queue = Tail(@)]
             /\ IF Head(nat[t].queue) = "started"
                THEN UNCHANGED <<row, disp>> /\ UNCHANGED serverVars
                ELSE Terminal(t, Head(nat[t].queue))
    <2> DEFINE n == [nat[t] EXCEPT !.queue = Tail(@)]
               h == Head(nat[t].queue)
    <2>1. /\ NatIs(t, n) /\ n.state = nat[t].state /\ NatMoves(t, n)
          /\ KnownTrue(row[t], disp[t], n, cancel[t])
          /\ h \in {"started"} \cup Terminals
          /\ h \in Terminals => nat[t].state = h
      BY <1>3, TakeOne
    <2>2. IF h = "started" THEN UNCHANGED <<row, disp>> /\ UNCHANGED serverVars ELSE Terminal(t, h)
      BY <1>3
    <2> HIDE DEF n, h
    <2>3. CASE h = "started"
      <3>1. RowIs(t, row[t]) /\ DispIs(t, disp[t]) /\ ServerTypeOK'
        BY <1>2, <2>2, <2>3, CodexKept, ServerTyped
      <3>2. Early(row[t], disp[t], n) /\ Late(row[t], disp[t], n)
        BY <1>1, <2>1, CodexAt DEF Early, Late, BegunNative
      <3>3. TurnMoves(t, row[t])
        BY DEF TurnMoves
      <3> QED BY <1>1, <2>1, <3>1, <3>2, <3>3, CodexSteps DEF CodexRest, CodexTurnIs
    <2>4. CASE h # "started"
      BY <1>1, <2>1, <2>2, <2>4, CodexTerminal
    <2> QED BY <2>3, <2>4
  <1>4. CASE /\ SetRow(t, [row[t] EXCEPT !.launch = "dead"])
             /\ Goto(t, "finish") /\ UNCHANGED nat /\ UNCHANGED serverVars
    <2> DEFINE r == [row[t] EXCEPT !.launch = "dead"]
               d == [disp[t] EXCEPT !.pc = "finish"]
    <2>1. row' = [row EXCEPT ![t] = r] /\ disp' = [disp EXCEPT ![t] = d]
      BY <1>2, <1>4 DEF SetRow, Goto, CodexTyped
    <2>2. r \in CodexRow /\ r.turn = row[t].turn /\ r.attempt = row[t].attempt /\ r.terminal = row[t].terminal
      BY <1>2 DEF CodexRow
    <2>3. d \in CodexDisp /\ d.pc = "finish" /\ d.outcome = disp[t].outcome
      BY <1>2 DEF CodexDisp, CodexPcs
    <2> HIDE DEF r, d
    <2>4. RowIs(t, r) /\ DispIs(t, d) /\ NatIs(t, nat[t]) /\ ServerTypeOK'
      BY <1>2, <1>4, <2>1, <2>2, <2>3, RowSet, DispSet, CodexKept, ServerTyped
    <2>5. CodexTurnIs(r, d, nat[t], cancel[t])
      BY <1>1, <2>2, <2>3, CodexAt DEF CodexTurnIs, Early, Late, KnownTrue
    <2>6. TurnMoves(t, r) /\ NatMoves(t, nat[t])
      BY <2>2, NatStays DEF TurnMoves
    <2> QED BY <1>1, <2>4, <2>5, <2>6, CodexSteps DEF CodexRest
  <1> QED BY <1>3, <1>4 DEF Consume

\* The end of the loop.
LEMMA CodexFinishes ==
  ASSUME CodexInv, NEW t \in Turns, UNCHANGED protected,
         NotifyTerminal(t) \/ FinishTurn(t) \/ FinishIdle(t)
  PROVE  CodexInv'
  <1>1. /\ disp[t].pc \in {"notify", "finish", "idle"} /\ CodexRest /\ UNCHANGED row
    BY DEF NotifyTerminal, FinishTurn, FinishIdle, Other, CodexRest
  <1>2. row[t] \in CodexRow /\ disp[t] \in CodexDisp /\ nat[t] \in CodexNative /\ CodexTyped /\ ServerTypeOK
    BY CodexAt
  <1>3. ServerTypeOK'
    BY <1>2, ServerTyped DEF NotifyTerminal, FinishTurn, FinishIdle
  <1>4. ASSUME NEW d \in CodexDisp, NEW n, disp' = [disp EXCEPT ![t] = d], NatIs(t, n), n.state = nat[t].state,
               n.queue = nat[t].queue \/ n.queue = <<>>, d.pc \in {"finish", "idle", "done"}, d.outcome = disp[t].outcome
        PROVE  CodexInv'
    <2>1. DispIs(t, d) /\ RowIs(t, row[t])
      BY <1>1, <1>2, <1>4, DispSet, CodexKept
    <2>2. Early(row[t], d, n) /\ Late(row[t], d, n)
      BY <1>1, <1>4, CodexAt DEF Early, Late, BegunNative
    <2>3. DOMAIN <<>> = {}
      OBVIOUS
    <2>4. \A i \in DOMAIN n.queue : n.queue[i] \in Terminals => n.state = n.queue[i]
      BY <1>4, <2>3, CodexAt DEF KnownTrue
    <2>5. KnownTrue(row[t], d, n, cancel[t])
      BY <1>4, <2>4, CodexAt DEF KnownTrue, BusyNative
    <2>6. TurnMoves(t, row[t]) /\ NatMoves(t, n)
      BY <1>4, NatStays DEF TurnMoves
    <2> QED BY <1>1, <1>3, <1>4, <2>1, <2>2, <2>5, <2>6, CodexSteps DEF CodexRest, CodexTurnIs
  <1>5. CASE NotifyTerminal(t)
    <2> DEFINE d == [disp[t] EXCEPT !.pc = "finish", !.seen = TRUE]
    <2>1. disp' = [disp EXCEPT ![t] = d] /\ NatIs(t, nat[t])
      BY <1>2, <1>5, CodexKept DEF NotifyTerminal, CodexTyped
    <2>2. d \in CodexDisp /\ d.pc = "finish" /\ d.outcome = disp[t].outcome
      BY <1>2 DEF CodexDisp, CodexPcs
    <2> HIDE DEF d
    <2> QED BY <1>4, <2>1, <2>2
  <1>6. CASE FinishTurn(t)
    <2> DEFINE d == [disp[t] EXCEPT !.pc = "idle", !.live = FALSE]
               n == [nat[t] EXCEPT !.tap = "closed", !.queue = <<>>]
    <2>1. disp' = [disp EXCEPT ![t] = d] /\ nat' = [nat EXCEPT ![t] = n]
      BY <1>2, <1>6 DEF FinishTurn, CodexTyped
    <2>2. d \in CodexDisp /\ d.pc = "idle" /\ d.outcome = disp[t].outcome
      BY <1>2 DEF CodexDisp, CodexPcs
    <2>3. <<>> \in Seq({"started"} \cup Terminals)
      OBVIOUS
    <2>4. n \in CodexNative /\ n.state = nat[t].state /\ n.queue = <<>>
      BY <1>2, <2>3 DEF CodexNative
    <2> HIDE DEF d, n
    <2>5. NatIs(t, n)
      BY <1>2, <2>1, <2>4, NatSet
    <2> QED BY <1>4, <2>1, <2>2, <2>4, <2>5
  <1>7. CASE FinishIdle(t)
    <2> DEFINE d == [disp[t] EXCEPT !.pc = "done"]
    <2>1. disp' = [disp EXCEPT ![t] = d] /\ NatIs(t, nat[t])
      BY <1>2, <1>7, CodexKept DEF FinishIdle, Goto, CodexTyped
    <2>2. d \in CodexDisp /\ d.pc = "done" /\ d.outcome = disp[t].outcome
      BY <1>2 DEF CodexDisp, CodexPcs
    <2> HIDE DEF d
    <2> QED BY <1>4, <2>1, <2>2
  <1> QED BY <1>5, <1>6, <1>7

\* A row is settled: the turn is over, and what is said of it is so.
LEMMA CodexSettles ==
  ASSUME CodexInv, NEW t \in Turns, NEW r \in CodexRow, row' = [row EXCEPT ![t] = r],
         UNCHANGED <<disp, nat>>, CodexRest, UNCHANGED serverVars,
         disp[t].pc \in {"run", "notify", "finish", "idle", "done"},
         row[t].turn = "open", r.turn \notin {"queued", "open"},
         r.attempt = row[t].attempt \/ (r.attempt = "completed" /\ nat[t].state = "completed"),
         row[t].terminal => r.terminal, r.attempt = row[t].attempt \/ r.terminal
  PROVE  CodexInv'
  <1>1. CodexTyped /\ ServerTypeOK
    BY CodexAt
  <1>2. RowIs(t, r) /\ DispIs(t, disp[t]) /\ NatIs(t, nat[t]) /\ ServerTypeOK'
    BY <1>1, RowSet, CodexKept, ServerTyped
  <1>3. Early(r, disp[t], nat[t]) /\ Late(r, disp[t], nat[t])
    BY CodexAt DEF Early, Late
  <1>4. KnownTrue(r, disp[t], nat[t], cancel[t])
    BY CodexAt DEF KnownTrue, BusyNative
  <1>5. TurnMoves(t, r) /\ NatMoves(t, nat[t])
    BY NatStays DEF TurnMoves
  <1> QED BY <1>2, <1>3, <1>4, <1>5, CodexSteps DEF CodexRest, CodexTurnIs

\* The supervisor collects a verdict.
LEMMA CodexCollects ==
  ASSUME CodexInv, NEW t \in Turns, UNCHANGED protected, Collect(t)
  PROVE  CodexInv'
  <1> DEFINE r == [row[t] EXCEPT !.turn = TurnVerdict(row[t].attempt)]
  <1>1. /\ row' = [row EXCEPT ![t] = r] /\ UNCHANGED <<disp, nat>> /\ CodexRest /\ UNCHANGED serverVars
        /\ disp[t].outcome = "accepted" /\ row[t].turn = "open" /\ row[t].attempt \in Terminals
    BY DEF Collect, SetRow, Other, CodexRest
  <1>2. row[t] \in CodexRow /\ disp[t] \in CodexDisp
    BY CodexAt
  <1>3. disp[t].pc \in {"run", "notify", "finish", "idle", "done"}
    BY <1>1, <1>2, CodexAt, CodexAssumption DEF CodexDisp, CodexPcs, Early, Late
  <1>4. TurnVerdict(row[t].attempt) \in {"cancelled", "completed"}
    BY <1>1 DEF TurnVerdict, Terminals
  <1>5. r \in CodexRow /\ r.turn \in {"cancelled", "completed"} /\ r.attempt = row[t].attempt /\ r.terminal = row[t].terminal
    BY <1>2, <1>4 DEF CodexRow
  <1> HIDE DEF r
  <1> QED BY <1>1, <1>3, <1>5, CodexSettles

-----------------------------------------------------------------------------
(* Codex: cancellation and the approval responder.                         *)

\* A cancellation is confirmed only by an interrupted turn.
LEMMA CodexCancels ==
  ASSUME CodexInv, NEW t \in Turns, UNCHANGED protected, CancelStep(t)
  PROVE  CodexInv'
  <1>1. UNCHANGED <<row, disp, nat, resp, rollout, protected>>
    BY DEF CancelStep, TurnInterrupt, CancelWait, CancelGrace, CancelStopped, Calling
  <1>2. row[t] \in CodexRow /\ disp[t] \in CodexDisp /\ nat[t] \in CodexNative /\ CodexTyped /\ ServerTypeOK
    BY CodexAt
  <1>3. ServerTypeOK'
    BY <1>2, ServerTyped DEF CancelStep, TurnInterrupt, CancelWait, CancelGrace, CancelStopped
  <1>4. row[t].attempt = "interrupted" => nat[t].state = "interrupted"
    BY CodexAt DEF KnownTrue, Terminals
  <1>5. ASSUME NEW c \in {"none", "waiting", "stopping", "confirmed"}, CancelTo(t, c),
               c = "confirmed" => nat[t].state = "interrupted"
        PROVE  CodexInv'
    <2>1. CancelIs(t, c)
      BY <1>2, <1>5 DEF CancelTo, CancelIs, CodexTyped
    <2>2. RowIs(t, row[t]) /\ DispIs(t, disp[t]) /\ NatIs(t, nat[t])
      BY <1>1, <1>2, CodexKept
    <2>3. CodexTurnIs(row[t], disp[t], nat[t], c)
      BY <1>5, CodexAt DEF CodexTurnIs, KnownTrue
    <2>4. TurnMoves(t, row[t]) /\ NatMoves(t, nat[t])
      BY NatStays DEF TurnMoves
    <2>5. resp' \in CodexResponses /\ (resp'.pc = "classify" => Begun(resp'.turn))
      BY <1>1 DEF CodexInv, CodexTyped
    <2> QED BY <1>1, <1>3, <2>1, <2>2, <2>3, <2>4, <2>5, CodexChanges
  <1>6. CASE CancelEnd(t)
    BY <1>4, <1>5, <1>6 DEF CancelEnd
  <1>7. CASE TurnInterrupt(t)
    BY <1>5, <1>7 DEF TurnInterrupt
  <1>8. CASE CancelWait(t)
    BY <1>5, <1>6, <1>8 DEF CancelWait
  <1>9. CASE CancelGrace(t)
    BY <1>5, <1>9 DEF CancelGrace
  <1>10. CASE CancelStopped(t)
    BY <1>6, <1>10 DEF CancelStopped
  <1> QED BY <1>7, <1>8, <1>9, <1>10 DEF CancelStep

\* A request that may not be answered.
LEMMA CodexResponds ==
  ASSUME CodexInv, UNCHANGED protected,
         (\E t \in Turns : HandleRequest(t)) \/ ClassifyUncertain \/ FailRequest
  PROVE  CodexInv'
  <1>1. UNCHANGED <<disp, nat, cancel, rollout, protected>>
    BY DEF HandleRequest, ClassifyUncertain, FailRequest, Responding
  <1>2. CodexTyped /\ ServerTypeOK
    BY DEF CodexInv, CodexTyped
  <1>3. ServerTypeOK'
    BY <1>2, ServerTyped DEF HandleRequest, ClassifyUncertain, FailRequest
  <1>4. ASSUME NEW t \in Turns, NEW r \in CodexRow, RowIs(t, r), r.turn = row[t].turn,
               r = row[t] \/ (Begun(t) /\ r.attempt = "uncertain"),
               resp' \in CodexResponses, resp'.pc = "classify" => Begun(resp'.turn)
        PROVE  CodexInv'
    <2>1. DispIs(t, disp[t]) /\ NatIs(t, nat[t]) /\ CancelIs(t, cancel[t])
      BY <1>1, <1>2, CodexKept
    <2>2. CASE r = row[t]
      <3>1. CodexTurnIs(r, disp[t], nat[t], cancel[t])
        BY <2>2 DEF CodexInv
      <3>2. TurnMoves(t, r) /\ NatMoves(t, nat[t])
        BY <1>4, NatStays DEF TurnMoves
      <3> QED BY <1>1, <1>3, <1>4, <2>1, <3>1, <3>2, CodexChanges
    <2>3. CASE Begun(t) /\ r.attempt = "uncertain"
      <3>1. nat[t].state # "none" /\ "uncertain" \notin Terminals
        BY <2>3 DEF Begun, BegunNative, Terminals
      <3>2. Early(r, disp[t], nat[t]) /\ Late(r, disp[t], nat[t])
        BY <1>4, <3>1, CodexAt DEF Early, Late
      <3>3. KnownTrue(r, disp[t], nat[t], cancel[t])
        BY <2>3, <3>1, CodexAt DEF KnownTrue
      <3>4. TurnMoves(t, r) /\ NatMoves(t, nat[t])
        BY <1>4, NatStays DEF TurnMoves
      <3> QED BY <1>1, <1>3, <1>4, <2>1, <3>2, <3>3, <3>4, CodexChanges DEF CodexTurnIs
    <2> QED BY <1>4, <2>2, <2>3
  <1>5. ASSUME NEW t \in Turns, HandleRequest(t) PROVE CodexInv'
    <2>1. row[t] \in CodexRow /\ RowIs(t, row[t])
      BY <1>2, <1>5, CodexAt, CodexKept DEF HandleRequest
    <2>2. Begun(t)
      BY <1>5 DEF HandleRequest, Begun, BegunNative
    <2>3. resp' \in [pc : {"classify", "stop"}, turn : Turns] /\ resp'.turn = t
      BY <1>5 DEF HandleRequest
    <2> QED BY <1>4, <2>1, <2>2, <2>3 DEF CodexResponses
  <1>6. CASE ClassifyUncertain
    <2> DEFINE u == resp.turn
               r == [row[u] EXCEPT !.attempt = "uncertain"]
    <2>1. resp \in CodexResponses /\ resp.pc = "classify" /\ Begun(u) /\ resp' = [resp EXCEPT !.pc = "stop"]
      BY <1>6 DEF ClassifyUncertain, CodexInv, CodexTyped
    <2>2. resp \in [pc : {"classify", "stop"}, turn : Turns]
      BY <2>1 DEF CodexResponses, NoResp
    <2>3. u \in Turns /\ resp'.pc = "stop" /\ resp' \in CodexResponses
      BY <2>1, <2>2 DEF CodexResponses
    <2>4. row' = [row EXCEPT ![u] = r]
      BY <1>6 DEF ClassifyUncertain, SetRow
    <2> HIDE DEF u
    <2>5. row[u] \in CodexRow
      BY <2>3, CodexAt
    <2>6. r \in CodexRow /\ r.turn = row[u].turn /\ r.attempt = "uncertain"
      BY <2>5 DEF CodexRow
    <2> HIDE DEF r
    <2>7. RowIs(u, r)
      BY <1>2, <2>3, <2>4, <2>6, RowSet
    <2> QED BY <1>4, <2>1, <2>3, <2>6, <2>7
  <1>7. CASE FailRequest
    <2>1. resp' = NoResp /\ UNCHANGED row
      BY <1>7 DEF FailRequest
    <2>2. CASE Turns = {}
      <3>1. CodexTyped'
        BY <1>1, <1>2, <1>3, <2>1 DEF CodexTyped, CodexResponses
      <3>2. CodexOrder' /\ RolloutTrue' /\ resp'.pc # "classify"
        BY <1>1, <2>1, <2>2 DEF CodexOrder, RolloutTrue, CodexInv, NoResp, Begun
      <3> QED BY <2>2, <3>1, <3>2 DEF CodexInv
    <2>3. ASSUME NEW t \in Turns PROVE CodexInv'
      <3>1. row[t] \in CodexRow /\ RowIs(t, row[t])
        BY <1>2, <2>1, CodexAt, CodexKept
      <3> QED BY <1>4, <2>1, <3>1 DEF CodexResponses, NoResp
    <2> QED BY <2>2, <2>3
  <1> QED BY <1>5, <1>6, <1>7

-----------------------------------------------------------------------------
(* Codex: reconciliation.                                                  *)

\* A set of numbers up to n has a least one.
LEMMA LeastIsIn ==
  ASSUME NEW n \in Nat, NEW T \in SUBSET (0 .. n), T # {}
  PROVE  Min(T) \in T
  <1> DEFINE S == 0 .. n
             R == StrictSubsetOrdering(S)
             Below == {0 .. k : k \in T}
  <1>1. FiniteSubsetsOf(S) = SUBSET S
    <2>1. IsFiniteSet(S)
      BY FS_Interval, 0 \in Int, n \in Int
    <2> HIDE DEF S
    <2> QED BY <2>1, FS_FiniteSubsetsOfFinite
  <1>2. IsWellFoundedOn(R, SUBSET S)
    BY <1>1, FS_StrictSubsetOrderingWellFounded
  <1>3. Below \subseteq SUBSET S /\ Below # {}
    <2>1. \A k \in T : 0 .. k \subseteq 0 .. n
      OBVIOUS
    <2>2. PICK k \in T : TRUE
      OBVIOUS
    <2> QED BY <2>1, <2>2
  <1>4. \E x \in Below : \A y \in Below : ~ (<<y, x>> \in R)
    <2> HIDE DEF R, Below
    <2> QED BY <1>2, <1>3, WFMin
  <1>5. PICK x \in T : \A y \in T : ~ (<<0 .. y, 0 .. x>> \in R)
    BY <1>4
  <1>6. ASSUME NEW y \in T, y < x PROVE FALSE
    <2>1. 0 .. y \subseteq 0 .. x /\ 0 .. y # 0 .. x
      <3>1. x \in 0 .. x /\ x \notin 0 .. y /\ x \in Nat /\ y \in Nat
        BY <1>6
      <3> QED BY <3>1, <1>6
    <2>2. <<0 .. y, 0 .. x>> \in (SUBSET S) \X (SUBSET S)
      <3>1. 0 .. y \in SUBSET S /\ 0 .. x \in SUBSET S
        OBVIOUS
      <3> HIDE DEF S
      <3> QED BY <3>1
    <2>3. <<0 .. y, 0 .. x>> \in R
      <3> DEFINE a == 0 .. y
                 b == 0 .. x
      <3>1. a \subseteq b /\ a # b /\ <<a, b>> \in (SUBSET S) \X (SUBSET S)
        BY <2>1, <2>2
      <3> HIDE DEF a, b, S
      <3>2. <<a, b>> \in R
        BY <3>1 DEF StrictSubsetOrdering
      <3> QED BY <3>2 DEF a, b
    <2> QED BY <2>3, <1>5
  <1>7. \A y \in T : x <= y
    BY <1>6
  <1> QED BY <1>7 DEF Min

\* A record of completion that is taken for t's is t's: nothing is written after an open
\* turn's entries but by that turn.
LEMMA CompleteIsTrue ==
  ASSUME CodexInv, NEW t \in Turns, row[t].turn = "open", TaskComplete(t) # None
  PROVE  TaskComplete(t) = "completed" /\ nat[t].state = "completed"
  <1> DEFINE base == row[t].baseline
             tail == RolloutTail(t)
             o == Opening(t)
             rest == SubSeq(tail, o + 1, Len(tail))
             Ends(e) == e.kind = "completed"
             i == SelectInSeq(rest, Ends)
  <1>1. base \in Nat
    BY CodexAt DEF CodexRow
  <1>2. /\ rollout \in Seq(RolloutEntry) /\ Len(rollout) \in Nat /\ DOMAIN rollout = 1 .. Len(rollout)
        /\ \A k \in DOMAIN rollout : rollout[k] \in RolloutEntry /\ rollout[k].turn \in Turns /\ rollout[k].turn \in Int
    BY EntriesAre
  <1>3. /\ tail \in Seq(RolloutEntry)
        /\ Len(tail) = IF base + 1 <= Len(rollout) THEN Len(rollout) - base ELSE 0
        /\ \A k \in 1 .. Len(rollout) - base : tail[k] = rollout[base + k]
    <2>1. \A k \in base + 1 .. Len(rollout) : rollout[k] \in RolloutEntry
      BY <1>1, <1>2
    <2> DEFINE lo == base + 1
               hi == Len(rollout)
    <2>2. lo \in Int /\ hi \in Int /\ \A k \in lo .. hi : rollout[k] \in RolloutEntry
      BY <1>1, <1>2, <2>1
    <2>3. tail = SubSeq(rollout, lo, hi)
      BY DEF RolloutTail
    <2> HIDE DEF lo, hi, tail
    <2>4. /\ tail \in Seq(RolloutEntry) /\ Len(tail) = IF lo <= hi THEN hi - lo + 1 ELSE 0
          /\ \A k \in 1 .. hi - lo + 1 : tail[k] = rollout[lo + k - 1]
      BY <2>2, <2>3, SubSeqProperties
    <2>5. lo = base + 1 /\ hi = Len(rollout) /\ base \in Nat /\ hi \in Nat
      BY <1>1, <1>2 DEF lo, hi
    <2> HIDE DEF base
    <2>6. hi - lo + 1 = hi - base /\ \A k \in 1 .. hi - base : lo + k - 1 = base + k
      BY <2>5
    <2> QED BY <2>4, <2>5, <2>6
  <1>4. TaskComplete(t) = IF Matches(t) /\ i # 0 THEN tail[o + i].kind ELSE None
    BY DEF TaskComplete
  <1>5. Matches(t) /\ i # 0
    BY <1>4
  <1>6. o # 0 /\ tail[o] = [turn |-> t, kind |-> "open"]
    BY <1>5 DEF Matches
  <1>7. Len(tail) \in Nat
    BY <1>3, LenProperties
  <1>8. o \in 1 .. Len(tail)
    <2> DEFINE T == {k \in 1 .. Len(tail) : Opens(tail[k])}
    <2>1. o = IF T # {} THEN Min(T) ELSE 0
      BY DEF Opening, SelectInSeq
    <2>2. T # {} /\ T \in SUBSET (0 .. Len(tail))
      BY <1>6, <1>7, <2>1
    <2> HIDE DEF T, tail, o
    <2>3. o \in T
      BY <1>7, <2>1, <2>2, LeastIsIn
    <2> QED BY <2>3 DEF T
  <1> HIDE DEF tail, o
  <1>9. /\ rest \in Seq(RolloutEntry) /\ Len(rest) = Len(tail) - o
        /\ \A k \in 1 .. Len(tail) - o : rest[k] = tail[o + k]
    <2> DEFINE lo == o + 1
               hi == Len(tail)
    <2>1. lo \in Int /\ hi \in Int /\ \A k \in lo .. hi : tail[k] \in RolloutEntry
      BY <1>3, <1>7, <1>8, LenProperties
    <2> HIDE DEF lo, hi
    <2>2. /\ SubSeq(tail, lo, hi) \in Seq(RolloutEntry)
          /\ Len(SubSeq(tail, lo, hi)) = IF lo <= hi THEN hi - lo + 1 ELSE 0
          /\ \A k \in 1 .. hi - lo + 1 : SubSeq(tail, lo, hi)[k] = tail[lo + k - 1]
      BY <2>1, SubSeqProperties
    <2> QED BY <1>7, <1>8, <2>2 DEF lo, hi
  <1>10. i \in 1 .. Len(rest) /\ rest[i].kind = "completed"
    <2> DEFINE T == {k \in 1 .. Len(rest) : Ends(rest[k])}
    <2>1. i = IF T # {} THEN Min(T) ELSE 0
      BY DEF SelectInSeq
    <2>2. Len(rest) \in Nat
      BY <1>9, LenProperties
    <2>3. T # {} /\ T \in SUBSET (0 .. Len(rest))
      <3>1. T # {}
        BY <1>5, <2>1
      <3>2. T \subseteq 1 .. Len(rest)
        OBVIOUS
      <3> HIDE DEF T, rest
      <3> QED BY <2>2, <3>1, <3>2
    <2> HIDE DEF T, rest, i
    <2>4. i \in T
      BY <2>1, <2>2, <2>3, LeastIsIn
    <2> QED BY <2>4 DEF T
  <1> HIDE DEF rest, i
  <1> DEFINE j == base + o
             k == base + o + i
  <1>11. /\ j \in DOMAIN rollout /\ k \in DOMAIN rollout /\ j < k
         /\ rollout[j] = tail[o] /\ rollout[k] = tail[o + i] /\ rest[i] = tail[o + i]
    <2>1. o \in Nat /\ i \in Nat /\ o >= 1 /\ i >= 1 /\ o + i <= Len(tail)
      BY <1>7, <1>8, <1>9, <1>10
    <2>2. Len(tail) = Len(rollout) - base
      BY <1>1, <1>2, <1>3, <2>1
    <2>3. o \in 1 .. Len(rollout) - base /\ o + i \in 1 .. Len(rollout) - base
      BY <1>1, <1>2, <2>1, <2>2
    <2>4. tail[o] = rollout[base + o] /\ tail[o + i] = rollout[base + (o + i)]
      BY <1>3, <2>3
    <2>5. base \in Nat /\ o \in Nat /\ i \in Nat /\ Len(rollout) \in Nat
      BY <1>1, <1>2, <2>1
    <2> HIDE DEF base
    <2>6. j \in 1 .. Len(rollout) /\ k \in 1 .. Len(rollout) /\ j < k /\ k = base + (o + i)
      BY <2>1, <2>2, <2>5
    <2>7. rest[i] = tail[o + i]
      BY <1>9, <1>10
    <2> QED BY <1>2, <2>4, <2>6, <2>7
  <1> HIDE DEF j, k
  <1>12. rollout[j].turn = t /\ rollout[k].kind = "completed"
    BY <1>6, <1>10, <1>11
  <1>13. RolloutTrue /\ t \in Int
    BY DEF CodexInv, Turns
  <1>14. t <= rollout[k].turn /\ Begun(rollout[k].turn) /\ nat[rollout[k].turn].state = "completed"
    BY <1>2, <1>11, <1>12, <1>13 DEF RolloutTrue
  <1>15. rollout[k].turn = t
    <2> SUFFICES ASSUME t < rollout[k].turn PROVE FALSE
      BY <1>2, <1>11, <1>13, <1>14
    <2>1. rollout[k].turn \in Turns
      BY <1>2, <1>11
    <2>2. row[rollout[k].turn].turn = "queued"
      BY <2>1 DEF CodexInv, CodexOrder
    <2>3. nat[rollout[k].turn].state = "none"
      BY <2>1, <2>2, CodexAt DEF Early, Late
    <2> QED BY <1>14, <2>3
  <1> QED BY <1>4, <1>5, <1>10, <1>11, <1>14, <1>15

\* A controller reconciles.
LEMMA CodexReconciles ==
  ASSUME CodexInv, NEW t \in Turns, UNCHANGED protected, Reconcile(t)
  PROVE  CodexInv'
  <1>1. /\ row[t].turn = "open" /\ ~disp[t].live /\ row[t].attempt # None
        /\ UNCHANGED <<disp, nat>> /\ CodexRest /\ UNCHANGED serverVars
    BY DEF Reconcile, Other, CodexRest
  <1>2. row[t] \in CodexRow /\ disp[t] \in CodexDisp
    BY CodexAt
  <1>3. disp[t].pc \in {"reserve", "started", "run", "notify", "finish", "idle", "done"}
    BY <1>1, <1>2, CodexAt DEF CodexDisp, CodexPcs, Early, Late
  <1>4. ASSUME NEW r \in CodexRow, row' = [row EXCEPT ![t] = r],
               r.turn \in {"completed", "cancelled", "failed"},
               r.attempt = row[t].attempt \/ (r.attempt = "completed" /\ nat[t].state = "completed" /\ r.terminal),
               row[t].terminal => r.terminal, disp[t].pc \notin {"reserve", "started"}
        PROVE  CodexInv'
    BY <1>1, <1>3, <1>4, CodexSettles
  <1>5. CASE /\ row[t].terminal
             /\ SetRow(t, [row[t] EXCEPT !.turn = IF row[t].attempt \in Terminals
                                                  THEN TurnVerdict(row[t].attempt) ELSE "completed"])
    <2> DEFINE v == IF row[t].attempt \in Terminals THEN TurnVerdict(row[t].attempt) ELSE "completed"
               r == [row[t] EXCEPT !.turn = v]
    <2>1. v \in {"completed", "cancelled"}
      BY DEF TurnVerdict, Terminals
    <2>2. row' = [row EXCEPT ![t] = r]
      BY <1>5 DEF SetRow
    <2> HIDE DEF v
    <2>3. r \in CodexRow /\ r.turn = v /\ r.attempt = row[t].attempt /\ r.terminal = row[t].terminal
      BY <1>2, <2>1 DEF CodexRow
    <2> HIDE DEF r
    <2>4. disp[t].pc \notin {"reserve", "started"}
      BY <1>5, CodexAt DEF Early
    <2> QED BY <1>4, <2>1, <2>2, <2>3, <2>4
  <1>6. CASE VerifyAbsence(t)
    <2> DEFINE r == [row[t] EXCEPT !.absent = TRUE, !.turn = "failed"]
    <2>1. row' = [row EXCEPT ![t] = r] /\ row[t].launch = "dead"
      BY <1>6 DEF VerifyAbsence, SetRow
    <2>2. r \in CodexRow /\ r.turn = "failed" /\ r.attempt = row[t].attempt /\ r.terminal = row[t].terminal
      BY <1>2 DEF CodexRow
    <2> HIDE DEF r
    <2>3. disp[t].pc \notin {"reserve", "started"}
      BY <2>1, CodexAt, CodexAssumption DEF Early
    <2> QED BY <1>4, <2>1, <2>2, <2>3
  <1>7. CASE Reconstruct(t)
    <2>1. TaskComplete(t) # None
      BY <1>7 DEF Reconstruct
    <2>2. TaskComplete(t) = "completed" /\ nat[t].state = "completed"
      BY <1>1, <2>1, CompleteIsTrue
    <2> DEFINE r == [row[t] EXCEPT !.terminal = TRUE, !.attempt = "completed", !.turn = "completed"]
    <2>3. row' = [row EXCEPT ![t] = r]
      BY <1>7, <2>2 DEF Reconstruct, SetRow
    <2>4. r \in CodexRow /\ r.turn = "completed" /\ r.attempt = "completed" /\ r.terminal
      BY <1>2 DEF CodexRow, Terminals
    <2> HIDE DEF r
    <2>5. disp[t].pc \notin {"reserve", "started"}
      BY <2>2, CodexAt DEF Early
    <2> QED BY <1>4, <2>2, <2>3, <2>4, <2>5
  <1>8. CASE ~row[t].terminal /\ row[t].attempt = "missing" /\ SetRow(t, [row[t] EXCEPT !.turn = "failed"])
    <2> DEFINE r == [row[t] EXCEPT !.turn = "failed"]
    <2>1. row' = [row EXCEPT ![t] = r]
      BY <1>8 DEF SetRow
    <2>2. r \in CodexRow /\ r.turn = "failed" /\ r.attempt = row[t].attempt /\ r.terminal = row[t].terminal
      BY <1>2 DEF CodexRow
    <2> HIDE DEF r
    <2>3. disp[t].pc \notin {"reserve", "started"}
      BY <1>8, CodexAt DEF Early
    <2> QED BY <1>4, <2>1, <2>2, <2>3
  <1> QED BY <1>5, <1>6, <1>7, <1>8 DEF Reconcile

-----------------------------------------------------------------------------
(* Codex: the child and the crash.                                         *)

\* The rollout and a native turn move together.
LEMMA NativeMoves ==
  ASSUME CodexInv, NEW t \in Turns, NEW n, NatIs(t, n), NativeOnly, UNCHANGED serverVars, UNCHANGED protected,
         Busy(t), n.state \in {"refused", "running"} \cup Terminals, Begun(t) => n.state # "refused",
         KnownTrue(row[t], disp[t], n, cancel[t]),
         rollout' \in Seq(RolloutEntry),
         \A i \in DOMAIN rollout' :
            \/ i \in DOMAIN rollout /\ rollout'[i] = rollout[i]
            \/ /\ rollout'[i].turn = t /\ BegunNative(n)
               /\ rollout'[i].kind = "completed" => n.state = "completed"
               /\ \A j \in DOMAIN rollout : j < i
  PROVE  CodexInv'
  <1>1. CodexTyped /\ ServerTypeOK
    BY DEF CodexInv, CodexTyped
  <1>2. UNCHANGED <<row, disp, cancel, resp, materialized, slot, faults>> /\ ServerTypeOK'
    BY <1>1, ServerTyped DEF NativeOnly
  <1>3. NatMoves(t, n)
    BY DEF NatMoves, Busy, Begun, BusyNative, BegunNative, Terminals
  <1>4. RowIs(t, row[t]) /\ TurnMoves(t, row[t])
    BY <1>1, <1>2, CodexKept DEF TurnMoves
  <1>5. CodexTyped'
    BY <1>1, <1>2 DEF CodexTyped, NatIs
  <1>6. CodexOrder'
    BY <1>3, <1>4, OrderKept
  <1>7. nat[t].state # "none"
    BY DEF Busy, BusyNative
  <1>8. ASSUME NEW u \in Turns PROVE CodexTurnIs(row[u], disp[u], nat[u], cancel[u])'
    <2>1. CodexTurnIs(row[u], disp[u], nat[u], cancel[u])' <=> CodexTurnIs(row[u], disp[u], nat'[u], cancel[u])
      BY <1>2 DEF CodexTurnIs, Early, Late, KnownTrue, BusyNative, BegunNative
    <2>2. CASE u = t
      <3>1. nat'[u] = n
        BY <2>2 DEF NatIs
      <3>2. Early(row[t], disp[t], n)
        BY <1>7, CodexAt DEF Early
      <3>3. BegunNative(nat[t]) => BegunNative(n)
        BY DEF Begun, BegunNative
      <3>4. n.state # "none"
        BY DEF Terminals
      <3>5. Late(row[t], disp[t], n)
        BY <3>3, <3>4, CodexAt DEF Late, Begun
      <3> QED BY <2>1, <2>2, <3>1, <3>2, <3>5 DEF CodexTurnIs
    <2>3. CASE u # t
      <3>1. nat'[u] = nat[u]
        BY <2>3 DEF NatIs
      <3> QED BY <2>1, <3>1 DEF CodexInv
    <2> QED BY <2>2, <2>3
  <1>9. ASSUME NEW u \in Turns
        PROVE  /\ Begun(u) => Begun(u)'
               /\ nat[u].state = "completed" => nat'[u].state = "completed"
               /\ Begun(u)' <=> BegunNative(nat'[u])
    <2>1. Begun(u)' <=> BegunNative(nat'[u])
      BY DEF Begun, BegunNative
    <2>2. CASE u = t
      BY <1>3, <2>1, <2>2 DEF NatIs, NatMoves
    <2>3. CASE u # t
      <3>1. nat'[u] = nat[u]
        BY <2>3 DEF NatIs
      <3> QED BY <2>1, <3>1 DEF Begun
    <2> QED BY <2>1, <2>2, <2>3
  <1>10. nat'[t] = n
    BY DEF NatIs
  <1>11. \A i \in DOMAIN rollout : rollout[i].turn \in Turns /\ rollout[i].turn \in Int /\ rollout[i].turn <= t
    <2> SUFFICES ASSUME NEW i \in DOMAIN rollout
                 PROVE rollout[i].turn \in Turns /\ rollout[i].turn \in Int /\ rollout[i].turn <= t
      OBVIOUS
    <2>1. rollout[i].turn \in Turns /\ rollout[i].turn \in Int /\ t \in Int
      BY EntriesAre DEF Turns
    <2>2. Begun(rollout[i].turn)
      BY DEF CodexInv, RolloutTrue
    <2>3. ~(t < rollout[i].turn)
      BY <2>1, <2>2 DEF CodexInv, CodexOrder, Begun, BegunNative, Terminals
    <2> QED BY <2>1, <2>3
  <1>12. DOMAIN rollout \subseteq Int /\ DOMAIN rollout' \subseteq Int /\ t \in Int
    BY EntriesAre, LenProperties DEF Turns
  <1>13. RolloutTrue'
    <2>1. RolloutTrue
      BY DEF CodexInv
    <2>2. ASSUME NEW i \in DOMAIN rollout', NEW j \in DOMAIN rollout', i < j
          PROVE  rollout'[i].turn <= rollout'[j].turn
      BY <1>11, <1>12, <2>1, <2>2 DEF RolloutTrue
    <2>3. ASSUME NEW i \in DOMAIN rollout'
          PROVE  /\ Begun(rollout[i].turn)'
                 /\ rollout'[i].kind = "completed" => nat'[rollout'[i].turn].state = "completed"
      <3>1. CASE i \in DOMAIN rollout /\ rollout'[i] = rollout[i]
        <4>1. /\ rollout[i].turn \in Turns /\ Begun(rollout[i].turn)
              /\ rollout[i].kind = "completed" => nat[rollout[i].turn].state = "completed"
          BY <1>11, <2>1, <3>1 DEF RolloutTrue
        <4>2. BegunNative(nat'[rollout'[i].turn])
          BY <1>9, <3>1, <4>1
        <4> QED BY <1>9, <3>1, <4>1, <4>2 DEF Begun, BegunNative
      <3>2. CASE ~(i \in DOMAIN rollout /\ rollout'[i] = rollout[i])
        <4>1. rollout'[i].turn = t /\ BegunNative(n) /\ (rollout'[i].kind = "completed" => n.state = "completed")
          BY <3>2
        <4> QED BY <1>10, <4>1 DEF Begun, BegunNative
      <3> QED BY <3>1, <3>2
    <2> QED BY <2>2, <2>3 DEF RolloutTrue
  <1>14. resp'.pc = "classify" => Begun(resp.turn)'
    <2>1. resp.pc = "classify" => resp.turn \in Turns /\ Begun(resp.turn)
      BY DEF CodexInv, CodexTyped, CodexResponses, NoResp
    <2>2. Begun(resp.turn)' <=> BegunNative(nat'[resp.turn])
      BY <1>2 DEF Begun, BegunNative
    <2> QED BY <1>2, <1>9, <2>1, <2>2
  <1> QED BY <1>5, <1>6, <1>8, <1>13, <1>14 DEF CodexInv

\* What is appended to the rollout comes after what is there.
LEMMA RolloutGrows ==
  ASSUME CodexInv, NEW e \in Seq(RolloutEntry), rollout' = rollout \o e
  PROVE  /\ rollout' \in Seq(RolloutEntry)
         /\ \A i \in DOMAIN rollout' :
              \/ i \in DOMAIN rollout /\ rollout'[i] = rollout[i]
              \/ (\A j \in DOMAIN rollout : j < i) /\ \E k \in DOMAIN e : rollout'[i] = e[k]
  <1>1. rollout \in Seq(RolloutEntry) /\ Len(rollout) \in Nat /\ DOMAIN rollout = 1 .. Len(rollout)
    BY EntriesAre
  <1>2. Len(e) \in Nat /\ DOMAIN e = 1 .. Len(e)
    BY LenProperties
  <1>3. /\ rollout \o e \in Seq(RolloutEntry) /\ Len(rollout \o e) = Len(rollout) + Len(e)
        /\ \A i \in 1 .. Len(rollout) + Len(e) :
             (rollout \o e)[i] = IF i <= Len(rollout) THEN rollout[i] ELSE e[i - Len(rollout)]
    BY <1>1, ConcatProperties
  <1>4. DOMAIN rollout' = 1 .. Len(rollout) + Len(e)
    BY <1>3, LenProperties
  <1>5. ASSUME NEW i \in DOMAIN rollout'
        PROVE  \/ i \in DOMAIN rollout /\ rollout'[i] = rollout[i]
               \/ (\A j \in DOMAIN rollout : j < i) /\ \E k \in DOMAIN e : rollout'[i] = e[k]
    <2>1. CASE i <= Len(rollout)
      BY <1>1, <1>2, <1>3, <1>4, <2>1
    <2>2. CASE ~(i <= Len(rollout))
      <3>1. i - Len(rollout) \in DOMAIN e /\ rollout'[i] = e[i - Len(rollout)]
        BY <1>1, <1>2, <1>3, <1>4, <2>2
      <3>2. \A j \in DOMAIN rollout : j < i
        BY <1>1, <1>2, <1>4, <2>2
      <3> QED BY <3>1, <3>2
    <2> QED BY <2>1, <2>2
  <1> QED BY <1>3, <1>5

\* The entries that open a turn are that turn's.
LEMMA OpeningAre ==
  ASSUME NEW t \in Turns, NEW o \in OpeningEntries(t)
  PROVE  o \in Seq(RolloutEntry) /\ \A k \in DOMAIN o : o[k].turn = t /\ o[k].kind # "completed"
  <1>1. CASE o = <<>>
    BY <1>1
  <1>2. ASSUME NEW k \in {"open", "drift"}, o = <<[turn |-> t, kind |-> k]>> PROVE
        o \in Seq(RolloutEntry) /\ \A i \in DOMAIN o : o[i].turn = t /\ o[i].kind # "completed"
    <2> DEFINE e == [turn |-> t, kind |-> k]
    <2>1. e \in RolloutEntry /\ e.turn = t /\ e.kind # "completed"
      BY DEF RolloutEntry
    <2> HIDE DEF e
    <2> QED BY <1>2, <2>1 DEF e
  <1> QED BY <1>1, <1>2 DEF OpeningEntries

\* What is delivered is true.
LEMMA DeliversTrue ==
  ASSUME CodexInv, NEW t \in Turns, NEW state, NEW note, Busy(t), Deliver(t, state, note),
         \/ state = "running" /\ note = "started"
         \/ state \in Terminals /\ note = state
  PROVE  \E n \in CodexNative :
            NatIs(t, n) /\ n.state = state /\ KnownTrue(row[t], disp[t], n, cancel[t])
  <1> DEFINE q == nat[t].queue
             q1 == IF conn[disp[t].child] # "open" \/ nat[t].tap = "closed" THEN q
                   ELSE IF nat[t].tap = "open" /\ Len(q) >= TapCap THEN q ELSE Append(q, note)
             p1 == IF nat[t].tap = "open" /\ Len(q) >= TapCap /\ conn[disp[t].child] = "open" THEN "closed"
                   ELSE nat[t].tap
             n == [nat[t] EXCEPT !.state = state, !.queue = q1, !.tap = p1]
             Notes == {"started"} \cup Terminals
  <1>1. CodexTyped /\ nat[t] \in CodexNative /\ KnownTrue(row[t], disp[t], nat[t], cancel[t])
    BY CodexAt
  <1>2. q \in Seq(Notes) /\ note \in Notes /\ Len(q) \in Nat /\ DOMAIN q = 1 .. Len(q)
    <2>1. q \in Seq(Notes) /\ note \in Notes
      BY <1>1 DEF CodexNative
    <2> HIDE DEF q, Notes
    <2> QED BY <2>1, LenProperties
  <1>3. /\ Append(q, note) \in Seq(Notes) /\ Len(Append(q, note)) = Len(q) + 1
        /\ \A i \in 1 .. Len(q) : Append(q, note)[i] = q[i]
        /\ Append(q, note)[Len(q) + 1] = note
        /\ DOMAIN Append(q, note) = 1 .. Len(q) + 1
    <2> HIDE DEF q, Notes
    <2>1. /\ Append(q, note) \in Seq(Notes) /\ Len(Append(q, note)) = Len(q) + 1
          /\ \A i \in 1 .. Len(q) : Append(q, note)[i] = q[i]
          /\ Append(q, note)[Len(q) + 1] = note
      BY <1>2, AppendProperties
    <2> QED BY <2>1, LenProperties
  <1>4. q1 \in {q, Append(q, note)} /\ p1 \in {"none", "open", "closed"}
    BY <1>1 DEF CodexNative
  <1>5. nat' = [nat EXCEPT ![t] = n]
    BY <1>1 DEF Deliver, CodexTyped
  <1>6. \A i \in DOMAIN q : q[i] \notin Terminals
    BY <1>1 DEF KnownTrue, Busy, BusyNative, Terminals
  <1> HIDE DEF q, q1, p1
  <1>7. \A i \in DOMAIN q1 : q1[i] \in Terminals => state = q1[i]
    <2>1. CASE q1 = q
      BY <1>6, <2>1
    <2>2. CASE q1 = Append(q, note)
      <3> SUFFICES ASSUME NEW i \in DOMAIN q1, q1[i] \in Terminals PROVE state = q1[i]
        OBVIOUS
      <3>1. i \in 1 .. Len(q) \/ i = Len(q) + 1
        BY <1>2, <1>3, <2>2
      <3>2. i = Len(q) + 1
        BY <1>2, <1>3, <1>6, <2>2, <3>1
      <3>3. q1[i] = note
        BY <1>3, <2>2, <3>2
      <3> QED BY <3>3 DEF Terminals
    <2> QED BY <1>4, <2>1, <2>2
  <1>8. q1 \in Seq(Notes)
    BY <1>2, <1>3, <1>4
  <1>9. n \in CodexNative /\ n.state = state /\ n.queue = q1
    BY <1>1, <1>4, <1>8 DEF CodexNative, Terminals
  <1> HIDE DEF n
  <1>10. NatIs(t, n)
    BY <1>1, <1>5, <1>9, NatSet
  <1>11. row[t].attempt = "uncertain" /\ disp[t].outcome # "rejected" /\ cancel[t] # "confirmed"
    BY <1>1 DEF KnownTrue, Busy, BusyNative
  <1>12. KnownTrue(row[t], disp[t], n, cancel[t])
    BY <1>7, <1>9, <1>11 DEF KnownTrue, Terminals
  <1> QED BY <1>9, <1>10, <1>12

\* A step of the child.
LEMMA CodexNativeStep ==
  ASSUME CodexInv, NEW t \in Turns, UNCHANGED protected, NativeStep(t)
  PROVE  CodexInv'
  <1>1. NativeOnly /\ UNCHANGED serverVars
    BY DEF NativeStep, NativeRefuses, NativeAccepts, NativeEnds, RolloutOpens
  <1>2. CodexTyped /\ nat[t] \in CodexNative /\ KnownTrue(row[t], disp[t], nat[t], cancel[t])
    BY CodexAt
  <1>3. rollout \in Seq(RolloutEntry)
    BY EntriesAre
  <1>4. CASE NativeRefuses(t)
    <2> DEFINE n == [nat[t] EXCEPT !.state = "refused"]
    <2>1. nat' = [nat EXCEPT ![t] = n] /\ nat[t].state = "received" /\ UNCHANGED rollout
      BY <1>2, <1>4 DEF NativeRefuses, CodexTyped
    <2>2. n \in CodexNative /\ n.state = "refused" /\ n.queue = nat[t].queue
      BY <1>2 DEF CodexNative
    <2> HIDE DEF n
    <2>3. NatIs(t, n) /\ Busy(t) /\ ~Begun(t)
      BY <1>2, <2>1, <2>2, NatSet DEF Busy, BusyNative, Begun, BegunNative, Terminals
    <2>4. KnownTrue(row[t], disp[t], n, cancel[t])
      BY <1>2, <2>1, <2>2 DEF KnownTrue, BusyNative, Terminals
    <2> QED BY <1>1, <1>3, <2>1, <2>2, <2>3, <2>4, NativeMoves
  <1>5. CASE NativeAccepts(t)
    <2>1. Busy(t) /\ Deliver(t, "running", "started") /\ UNCHANGED rollout
      BY <1>5 DEF NativeAccepts, Busy, BusyNative
    <2>2. PICK n \in CodexNative :
            NatIs(t, n) /\ n.state = "running" /\ KnownTrue(row[t], disp[t], n, cancel[t])
      BY <2>1, DeliversTrue
    <2> QED BY <1>1, <1>3, <2>1, <2>2, NativeMoves
  <1>6. CASE RolloutOpens(t)
    <2>1. PICK o \in OpeningEntries(t) : rollout' = rollout \o o
      BY <1>6 DEF RolloutOpens
    <2>2. nat[t].state = "running" /\ UNCHANGED nat
      BY <1>6 DEF RolloutOpens
    <2>3. Busy(t) /\ BegunNative(nat[t]) /\ NatIs(t, nat[t])
      BY <1>2, <2>2, CodexKept DEF Busy, BusyNative, BegunNative
    <2>4. o \in Seq(RolloutEntry) /\ \A k \in DOMAIN o : o[k].turn = t /\ o[k].kind # "completed"
      BY OpeningAre
    <2>5. /\ rollout' \in Seq(RolloutEntry)
          /\ \A i \in DOMAIN rollout' :
              \/ i \in DOMAIN rollout /\ rollout'[i] = rollout[i]
              \/ (\A j \in DOMAIN rollout : j < i) /\ \E k \in DOMAIN o : rollout'[i] = o[k]
      BY <2>1, <2>4, RolloutGrows
    <2>6. \A i \in DOMAIN rollout' :
              \/ i \in DOMAIN rollout /\ rollout'[i] = rollout[i]
              \/ /\ rollout'[i].turn = t /\ BegunNative(nat[t])
                 /\ rollout'[i].kind = "completed" => nat[t].state = "completed"
                 /\ \A j \in DOMAIN rollout : j < i
      BY <2>3, <2>4, <2>5
    <2> QED BY <1>1, <1>2, <2>2, <2>3, <2>5, <2>6, NativeMoves
  <1>7. CASE NativeEnds(t)
    <2>1. PICK s \in Terminals :
            /\ Deliver(t, s, s)
            /\ IF s = "interrupted" \/ ~protected THEN UNCHANGED rollout
               ELSE \E o \in OpeningEntries(t) : rollout' = rollout \o Append(o, [turn |-> t, kind |-> s])
      BY <1>7 DEF NativeEnds
    <2>2. Busy(t)
      BY <1>7 DEF NativeEnds, Busy, BusyNative
    <2>3. PICK n \in CodexNative :
            NatIs(t, n) /\ n.state = s /\ KnownTrue(row[t], disp[t], n, cancel[t])
      BY <2>1, <2>2, DeliversTrue
    <2>4. BegunNative(n) /\ s # "refused" /\ n.state \in {"refused", "running"} \cup Terminals
      BY <2>3 DEF BegunNative, Terminals
    <2>5. CASE UNCHANGED rollout
      BY <1>1, <1>3, <2>2, <2>3, <2>4, <2>5, NativeMoves
    <2>6. ASSUME NEW o \in OpeningEntries(t), s = "completed",
                 rollout' = rollout \o Append(o, [turn |-> t, kind |-> s])
          PROVE  CodexInv'
      <3> DEFINE e == [turn |-> t, kind |-> s]
                 a == Append(o, e)
      <3>1. e \in RolloutEntry /\ e.turn = t /\ rollout' = rollout \o a
        BY <2>6 DEF RolloutEntry
      <3> HIDE DEF e
      <3>2. o \in Seq(RolloutEntry) /\ \A k \in DOMAIN o : o[k].turn = t /\ o[k].kind # "completed"
        BY OpeningAre
      <3>3. /\ a \in Seq(RolloutEntry) /\ Len(a) = Len(o) + 1
            /\ \A k \in 1 .. Len(o) : a[k] = o[k]
            /\ a[Len(o) + 1] = e
        BY <3>1, <3>2, AppendProperties
      <3>4. DOMAIN o = 1 .. Len(o) /\ Len(o) \in Nat /\ DOMAIN a = 1 .. Len(o) + 1
        BY <3>2, <3>3, LenProperties
      <3> HIDE DEF a
      <3>5. \A k \in DOMAIN a : a[k].turn = t
        <4> SUFFICES ASSUME NEW k \in DOMAIN a PROVE a[k].turn = t
          OBVIOUS
        <4>1. k \in 1 .. Len(o) \/ k = Len(o) + 1
          BY <3>4
        <4> QED BY <3>1, <3>2, <3>3, <3>4, <4>1
      <3>6. /\ rollout' \in Seq(RolloutEntry)
            /\ \A i \in DOMAIN rollout' :
                \/ i \in DOMAIN rollout /\ rollout'[i] = rollout[i]
                \/ (\A j \in DOMAIN rollout : j < i) /\ \E k \in DOMAIN a : rollout'[i] = a[k]
        BY <3>1, <3>3, RolloutGrows
      <3>7. \A i \in DOMAIN rollout' :
                \/ i \in DOMAIN rollout /\ rollout'[i] = rollout[i]
                \/ /\ rollout'[i].turn = t /\ BegunNative(n)
                   /\ rollout'[i].kind = "completed" => n.state = "completed"
                   /\ \A j \in DOMAIN rollout : j < i
        BY <2>3, <2>4, <2>6, <3>5, <3>6
      <3> QED BY <1>1, <2>2, <2>3, <2>4, <3>6, <3>7, NativeMoves
    <2> QED BY <2>1, <2>5, <2>6 DEF Terminals
  <1> QED BY <1>4, <1>5, <1>6, <1>7 DEF NativeStep

\* A crash of the service: the calls and the routes are gone, the rows and the child's turns stay.
LEMMA CodexCrash ==
  ASSUME CodexInv, UNCHANGED protected, Crash
  PROVE  CodexInv'
  <1>1. /\ ServerCrash /\ UNCHANGED <<row, rollout, protected>> /\ resp' = NoResp
        /\ disp' = [t \in Turns |-> IF disp[t].pc = "none" THEN disp[t]
                                    ELSE [disp[t] EXCEPT !.pc = "done", !.live = FALSE,
                                                         !.outcome = IF @ = None THEN "lost" ELSE @]]
        /\ cancel' = [t \in Turns |-> IF cancel[t] = "confirmed" THEN "confirmed" ELSE "none"]
        /\ nat' = [t \in Turns |-> [nat[t] EXCEPT !.tap = "closed", !.queue = <<>>]]
    BY DEF Crash
  <1>2. ServerTypeOK'
    BY <1>1, ServerTyped DEF CodexInv, CodexTyped
  <1>3. ASSUME NEW t \in Turns
        PROVE  /\ disp'[t] \in CodexDisp /\ nat'[t] \in CodexNative
               /\ disp'[t].live => disp[t].pc = "none" /\ disp[t].live
               /\ disp'[t].pc = IF disp[t].pc = "none" THEN "none" ELSE "done"
               /\ disp'[t].outcome = "rejected" => disp[t].outcome = "rejected"
               /\ disp[t].pc = "none" => disp'[t] = disp[t]
               /\ nat'[t].state = nat[t].state /\ nat'[t].queue = <<>>
    <2> DEFINE o == IF disp[t].outcome = None THEN "lost" ELSE disp[t].outcome
               d == [disp[t] EXCEPT !.pc = "done", !.live = FALSE, !.outcome = o]
               n == [nat[t] EXCEPT !.tap = "closed", !.queue = <<>>]
    <2>1. disp[t] \in CodexDisp /\ nat[t] \in CodexNative
      BY CodexAt
    <2>2. o \in CodexOutcomes /\ (o = "rejected" => disp[t].outcome = "rejected")
      BY <2>1 DEF CodexDisp, CodexOutcomes
    <2> HIDE DEF o
    <2>3. /\ d \in CodexDisp /\ d.pc = "done" /\ ~d.live /\ d.outcome = o
      BY <2>1, <2>2 DEF CodexDisp, CodexPcs
    <2>4. <<>> \in Seq({"started"} \cup Terminals)
      OBVIOUS
    <2>5. n \in CodexNative /\ n.state = nat[t].state /\ n.queue = <<>>
      BY <2>1, <2>4 DEF CodexNative
    <2>6. disp'[t] = IF disp[t].pc = "none" THEN disp[t] ELSE d
      BY <1>1 DEF o
    <2>7. nat'[t] = n
      BY <1>1
    <2> HIDE DEF d, n
    <2>8. CASE disp[t].pc = "none"
      BY <2>1, <2>5, <2>6, <2>7, <2>8
    <2>9. CASE disp[t].pc # "none"
      BY <2>2, <2>3, <2>5, <2>6, <2>7, <2>9
    <2> QED BY <2>8, <2>9
  <1>4. CodexTyped'
    <2>1. disp' \in [Turns -> CodexDisp] /\ nat' \in [Turns -> CodexNative]
      BY <1>1, <1>3
    <2>2. cancel' \in [Turns -> {"none", "waiting", "stopping", "confirmed"}]
      BY <1>1
    <2> QED BY <1>1, <1>2, <2>1, <2>2 DEF CodexInv, CodexTyped, CodexResponses
  <1>5. ASSUME NEW t \in Turns PROVE CodexTurnIs(row[t], disp[t], nat[t], cancel[t])'
    <2>1. /\ disp[t] \in CodexDisp /\ Early(row[t], disp[t], nat[t]) /\ Late(row[t], disp[t], nat[t])
          /\ KnownTrue(row[t], disp[t], nat[t], cancel[t])
      BY CodexAt
    <2>2. row'[t] = row[t] /\ (cancel'[t] = "confirmed" => cancel[t] = "confirmed")
      BY <1>1
    <2>3. Early(row'[t], disp'[t], nat'[t])
      BY <1>3, <2>1, <2>2 DEF Early
    <2>4. Late(row'[t], disp'[t], nat'[t])
      BY <1>3, <2>1, <2>2 DEF Late
    <2>5. KnownTrue(row'[t], disp'[t], nat'[t], cancel'[t])
      BY <1>3, <2>1, <2>2 DEF KnownTrue, BusyNative
    <2> QED BY <2>3, <2>4, <2>5 DEF CodexTurnIs, Early, Late, KnownTrue, BusyNative, BegunNative
  <1>6. \A t \in Turns : (Busy(t)' <=> Busy(t)) /\ (Begun(t)' <=> Begun(t)) /\ nat'[t].state = nat[t].state
    BY <1>3 DEF Busy, Begun, BusyNative, BegunNative
  <1>7. CodexOrder'
    BY <1>1, <1>6 DEF CodexInv, CodexOrder
  <1>8. RolloutTrue'
    BY <1>1, <1>6, EntriesAre DEF CodexInv, RolloutTrue
  <1> QED BY <1>1, <1>4, <1>5, <1>7, <1>8 DEF CodexInv, NoResp

\* What changes the children alone.
LEMMA CodexAside ==
  ASSUME CodexInv, UNCHANGED <<row, disp, cancel, resp, nat, rollout, protected>>, ServerTypeOK'
  PROVE  CodexInv'
  <1>1. CodexTyped'
    BY DEF CodexInv, CodexTyped
  <1>2. \A t \in Turns : CodexTurnIs(row[t], disp[t], nat[t], cancel[t])'
    BY DEF CodexInv, CodexTurnIs, Early, Late, KnownTrue, BusyNative, BegunNative
  <1>3. CodexOrder'
    BY DEF CodexInv, CodexOrder, Busy, BusyNative
  <1>4. RolloutTrue'
    BY DEF CodexInv, RolloutTrue, Begun, BegunNative
  <1>5. resp'.pc = "classify" => Begun(resp.turn)'
    BY DEF CodexInv, Begun, BegunNative
  <1> QED BY <1>1, <1>2, <1>3, <1>4, <1>5 DEF CodexInv

\* The manager's own steps.
LEMMA CodexBackground ==
  ASSUME CodexInv, UNCHANGED protected, Background
  PROVE  CodexInv'
  <1>1. ServerTypeOK'
    BY ServerTyped DEF Background, CodexInv, CodexTyped
  <1> QED BY <1>1, CodexAside DEF Background

\* Every step of the codex adapter and of its child keeps the invariant.
LEMMA CodexNext ==
  ASSUME CodexInv, UNCHANGED protected, Next
  PROVE  CodexInv'
  <1>1. ASSUME NEW t \in Turns, DispatchStep(t) PROVE CodexInv'
    BY <1>1, CodexDispatch, CodexSlot, CodexRecords, CodexWrites, CodexAnswers, CodexRoute, CodexAwaits
       DEF DispatchStep
  <1>2. ASSUME NEW t \in Turns, RunStep(t) PROVE CodexInv'
    BY <1>2, CodexConsumes, CodexFinishes DEF RunStep
  <1>3. ASSUME NEW t \in Turns, HandleRequest(t) PROVE CodexInv'
    BY <1>3, CodexResponds
  <1>4. CASE ClassifyUncertain \/ FailRequest
    BY <1>4, CodexResponds
  <1> QED BY <1>1, <1>2, <1>3, <1>4, CodexCollects, CodexCancels, CodexReconciles, CodexNativeStep,
             CodexBackground, CodexCrash DEF Next

\* What is stuttered keeps it too.
LEMMA CodexStutter ==
  ASSUME CodexInv, UNCHANGED vars
  PROVE  CodexInv'
  <1>1. ServerTypeOK'
    BY ServerTyped DEF CodexInv, CodexTyped, vars
  <1> QED BY <1>1, CodexAside DEF vars, turnVars

\* It holds at the start.
LEMMA CodexStart ==
  ASSUME Init
  PROVE  CodexInv
  <1>1. ServerTypeOK
    <2>1. /\ child \in Gens \cup {None} /\ generation \in 0 .. MaxGen /\ fatal \subseteq Gens
          /\ conn \in [Gens -> {"none", "open", "done"}]
          /\ proc \in [Gens -> {"none", "up", "ending", "exited"}]
      BY CodexServerAssumption DEF Init, ServerInit
    <2>2. {busy, timer, firing} \subseteq BOOLEAN
      BY DEF Init, ServerInit
    <2> QED BY <2>1, <2>2 DEF ServerTypeOK
  <1>2. ASSUME NEW t \in Turns
        PROVE  /\ row[t] \in CodexRow /\ disp[t] \in CodexDisp /\ nat[t] \in CodexNative
               /\ row[t].turn = "queued" /\ row[t].attempt = None /\ ~row[t].terminal /\ row[t].launch = None
               /\ disp[t].pc = "none" /\ disp[t].outcome = None /\ ~disp[t].live
               /\ nat[t].state = "none" /\ nat[t].queue = <<>> /\ cancel[t] = "none"
    <2>1. row[t] = [turn |-> "queued", attempt |-> None, terminal |-> FALSE, launch |-> None,
                    bound |-> FALSE, absent |-> FALSE, baseline |-> 0]
      BY DEF Init
    <2>2. disp[t] = [pc |-> "none", outcome |-> None, child |-> None, live |-> FALSE, seen |-> FALSE]
      BY DEF Init
    <2>3. nat[t] = [state |-> "none", tap |-> "none", queue |-> <<>>] /\ cancel[t] = "none"
      BY DEF Init
    <2>4. <<>> \in Seq({"started"} \cup Terminals)
      OBVIOUS
    <2>5. row[t] \in CodexRow
      BY <2>1 DEF CodexRow
    <2>6. disp[t] \in CodexDisp
      BY <2>2 DEF CodexDisp, CodexPcs, CodexOutcomes
    <2>7. nat[t] \in CodexNative
      BY <2>3, <2>4 DEF CodexNative
    <2> QED BY <2>1, <2>2, <2>3, <2>5, <2>6, <2>7
  <1>3. row \in [Turns -> CodexRow] /\ disp \in [Turns -> CodexDisp] /\ nat \in [Turns -> CodexNative]
    BY <1>2 DEF Init
  <1>4. CodexTyped
    <2>1. rollout \in Seq(RolloutEntry)
      BY DEF Init
    <2> QED BY <1>1, <1>3, <2>1 DEF Init, CodexTyped, CodexResponses
  <1>5. ASSUME NEW t \in Turns PROVE CodexTurnIs(row[t], disp[t], nat[t], cancel[t])
    <2>1. None \notin {"rejected"} \cup Terminals
      BY CodexAssumption DEF Terminals
    <2>2. Early(row[t], disp[t], nat[t])
      BY <1>2 DEF Early
    <2>3. Late(row[t], disp[t], nat[t])
      BY <1>2 DEF Late
    <2>4. KnownTrue(row[t], disp[t], nat[t], cancel[t])
      BY <1>2, <2>1 DEF KnownTrue, BusyNative
    <2> QED BY <2>2, <2>3, <2>4 DEF CodexTurnIs
  <1>6. CodexOrder
    BY <1>2 DEF CodexOrder, Busy, BusyNative
  <1>7. RolloutTrue
    BY DEF Init, RolloutTrue
  <1> QED BY <1>4, <1>5, <1>6, <1>7 DEF CodexInv, Init, NoResp

\* The invariant holds in every behaviour of the codex adapter.
THEOREM CodexInvariant == MCSpec => []CodexPart
  <1>1. MCInit => CodexPart
    BY CodexStart DEF MCInit, CodexPart
  <1>2. CodexPart /\ [MCNext]_mcVars => CodexPart'
    <2> SUFFICES ASSUME CodexPart, [MCNext]_mcVars, part' = "codex" PROVE CodexInv'
      BY DEF CodexPart
    <2>1. CASE UNCHANGED mcVars
      BY <2>1, CodexStutter DEF CodexPart, mcVars
    <2>2. CASE MCNext
      BY <2>2, CodexNext DEF CodexPart, MCNext
    <2> QED BY <2>1, <2>2
  <1> QED BY <1>1, <1>2, PTL DEF MCSpec, mcVars

\* A turn that codex rejected never runs, a verdict it commits is the one the child reached, and
\* a confirmed cancellation has an interrupted turn behind it.
THEOREM CodexAlwaysTrue == MCSpec => []CodexVerdictsTrue
  <1>1. CodexPart => CodexVerdictsTrue
    <2> SUFFICES ASSUME CodexInv
                 PROVE  ServerTypeOK /\ RejectedNeverRuns /\ VerdictIsNative /\ ConfirmedIsInterrupted
      BY DEF CodexPart, CodexVerdictsTrue
    <2>1. ServerTypeOK
      BY DEF CodexInv, CodexTyped
    <2>2. RejectedNeverRuns /\ VerdictIsNative /\ ConfirmedIsInterrupted
      BY CodexAt DEF KnownTrue, RejectedNeverRuns, VerdictIsNative, ConfirmedIsInterrupted
    <2> QED BY <2>1, <2>2
  <1> QED BY <1>1, CodexInvariant, PTL

\* A codex thread has one native turn under way at a time, whatever child runs it.
THEOREM CodexAlwaysHeld == MCSpec => [](part = "codex" => OneTurnPerThread)
  <1>1. CodexPart => (part = "codex" => OneTurnPerThread)
    <2> SUFFICES ASSUME CodexInv PROVE OneTurnPerThread
      BY DEF CodexPart
    <2> QED BY DEF CodexInv, CodexTyped, CodexOrder, Busy, BusyNative, OneTurnPerThread, Active
  <1> QED BY <1>1, CodexInvariant, PTL

-----------------------------------------------------------------------------
(* Codex as NativeTurns: every step changes at most one of what runs, what  *)
(* was given and what is answered, of one turn.                             *)

\* The steps of NativeTurns, on one turn: what runs, what was given and what is answered, before
\* and after; alone: no turn is being worked on.
Moves(w, g, a, w2, g2, a2, alone, V) ==
  \/ w2 = w /\ g2 = g /\ a2 = a
  \/ w = "none" /\ a = "none" /\ alone /\ w2 = "running" /\ g2 = g /\ a2 = a
  \/ w = "running" /\ ~g /\ w2 = w /\ g2 = TRUE /\ a2 = a
  \/ w = "running" /\ w2 = "over" /\ g2 = g /\ a2 = a
  \/ a = "none" /\ w # "running" /\ ~g /\ a2 = "absent" /\ w2 = w /\ g2 = g
  \/ a = "none" /\ w = "over" /\ g /\ a2 \in V /\ w2 = w /\ g2 = g

CodexAlone == \A u \in Turns : ~Busy(u)
CodexMoves(t) ==
  Moves(WorkOn(t), GivenTo(t), AnswerTo(t), WorkOn(t)', GivenTo(t)', AnswerTo(t)', CodexAlone, Told)
CodexAlike(t) ==
  WorkOn(t)' = WorkOn(t) /\ GivenTo(t)' = GivenTo(t) /\ AnswerTo(t)' = AnswerTo(t)

\* A step of one turn is a step of NativeTurns, or a stutter.
LEMMA CodexMove ==
  ASSUME NEW t \in Turns, CodexMoves(t), \A u \in Turns \ {t} : CodexAlike(u)
  PROVE  UNCHANGED Native!vars \/ Native!Next
  <1> DEFINE W == [u \in Turns |-> WorkOn(u)]
             G == [u \in Turns |-> GivenTo(u)]
             A == [u \in Turns |-> AnswerTo(u)]
  <1>1. /\ W' = [W EXCEPT ![t] = WorkOn(t)']
        /\ G' = [G EXCEPT ![t] = GivenTo(t)']
        /\ A' = [A EXCEPT ![t] = AnswerTo(t)']
    BY DEF CodexAlike
  <1>2. /\ WorkOn(t)' = WorkOn(t) => W' = W
        /\ GivenTo(t)' = GivenTo(t) => G' = G
        /\ AnswerTo(t)' = AnswerTo(t) => A' = A
    BY DEF CodexAlike
  <1>3. W[t] = WorkOn(t) /\ G[t] = GivenTo(t) /\ A[t] = AnswerTo(t) /\ \A u \in Turns : W[u] = WorkOn(u)
    OBVIOUS
  <1>4. CodexAlone => \A u \in Turns : W[u] # "running"
    BY <1>3 DEF CodexAlone, Busy, BusyNative, WorkOn, Active
  <1>5. \/ W' = W /\ G' = G /\ A' = A
        \/ Native!Begin(t) \/ Native!Give(t) \/ Native!End(t) \/ Native!Deny(t)
        \/ \E v \in Told : Native!Conclude(t, v)
    <2> HIDE DEF W, G, A
    <2> QED
      BY <1>1, <1>2, <1>3, <1>4, Zenon
         DEF CodexMoves, Moves, W, G, A,
             Native!Begin, Native!Give, Native!End, Native!Deny, Native!Conclude
  <1> QED BY <1>5 DEF Native!Next, Native!vars

\* Nothing moves.
LEMMA CodexNothing ==
  ASSUME \A u \in Turns : CodexAlike(u)
  PROVE  UNCHANGED Native!vars
  BY DEF CodexAlike, Native!vars

\* A row says nothing of a turn that is not so: a verdict is of one that ended, a rejection of
\* one that the child did not take up.
RowTrue(r, n) ==
  /\ r.terminal \/ r.turn \in Told => n.state \in Terminals
  /\ r.turn = "failed" /\ ~r.absent => n.state \in {"none", "refused"}
  /\ r.absent \/ r.attempt = "missing" => r.turn = "failed"

\* Beside the invariant: rows are true, a turn that is sent has a child, and children are
\* numbered in the order of their launch.
Launched == {"probe", "stopping", "insert", "reserve", "started", "write"}
CodexTurnHas(t) ==
  /\ RowTrue(row[t], nat[t])
  /\ disp[t].child \in Gens => disp[t].child <= generation
  /\ disp[t].pc \in Launched => disp[t].child \in Gens
CodexSound ==
  /\ child \in Gens => child <= generation
  /\ \A t \in Turns : CodexTurnHas(t)

ProcessRuns(p) == p \in {"up", "ending"}

\* The manager of children ends no process but by Exit.
LEMMA ServerKeeps ==
  ASSUME ServerTypeOK, child \in Gens => child <= generation,
         \/ UNCHANGED serverVars \/ MarkBusy \/ MarkIdle \/ Stop \/ Launch \/ LaunchFails
         \/ TimerFires \/ Park \/ ServerCrash
         \/ \E g \in Gens : StreamBreaks(g) \/ Poison(g)
  PROVE  /\ generation' >= generation /\ (child' \in Gens => child' <= generation')
         /\ \A g \in Gens : g <= generation => (ProcessRuns(proc'[g]) <=> ProcessRuns(proc[g]))
  <1> USE DEF ServerTypeOK, ProcessRuns
  <1>1. None \notin Gens /\ generation \in Nat /\ Gens \subseteq Nat
    BY CodexServerAssumption DEF Gens
  <1>2. CASE UNCHANGED serverVars \/ MarkBusy \/ MarkIdle \/ TimerFires
    BY <1>1, <1>2 DEF serverVars, MarkBusy, MarkIdle, TimerFires, processVars
  <1>3. ASSUME Unregister
        PROVE  /\ generation' = generation /\ child' = None
               /\ \A g \in Gens : ProcessRuns(proc'[g]) <=> ProcessRuns(proc[g])
    <2>1. CASE child = None
      BY <1>3, <2>1 DEF Unregister, processVars
    <2>2. CASE child # None
      BY <1>3, <2>2 DEF Unregister, Terminate
    <2> QED BY <2>1, <2>2
  <1>4. CASE Stop
    BY <1>1, <1>3, <1>4 DEF Stop
  <1>5. CASE Park
    BY <1>1, <1>3, <1>5 DEF Park, processVars
  <1>6. CASE Launch \/ LaunchFails
    <2>1. /\ generation' = generation + 1 /\ (child' = generation' \/ child' = child)
          /\ \/ proc' = [proc EXCEPT ![generation + 1] = "up"]
             \/ proc' = [proc EXCEPT ![generation + 1] = "exited"]
      BY <1>6 DEF Launch, LaunchFails
    <2>2. \A g \in Gens : g <= generation => g # generation + 1
      BY <1>1
    <2>3. \A g \in Gens : g <= generation => proc'[g] = proc[g]
      BY <2>1, <2>2
    <2> QED BY <1>1, <2>1, <2>3
  <1>7. CASE ServerCrash
    BY <1>1, <1>7 DEF ServerCrash
  <1>8. ASSUME NEW g \in Gens, StreamBreaks(g)
        PROVE  generation' = generation /\ child' = child /\ proc' = proc
    BY <1>8 DEF StreamBreaks
  <1>9. ASSUME NEW g \in Gens, Poison(g)
        PROVE  /\ generation' = generation /\ child' = None
               /\ \A k \in Gens : ProcessRuns(proc'[k]) <=> ProcessRuns(proc[k])
    BY <1>9 DEF Poison
  <1> QED BY <1>1, <1>2, <1>4, <1>5, <1>6, <1>7, <1>8, <1>9

\* What is between a step of the manager and the turns.
ServerGoesOn ==
  /\ generation' >= generation /\ (child' \in Gens => child' <= generation')
  /\ \A g \in Gens : g <= generation => (ProcessRuns(proc'[g]) <=> ProcessRuns(proc[g]))

\* A row that is set says what is so, and what it answered stands.
RowQuiet(t, r) ==
  /\ RowTrue(r, nat[t])
  /\ \/ r.turn = row[t].turn /\ r.absent = row[t].absent
     \/ row[t].turn \in {"queued", "open"}

\* What a step that neither begins, takes up nor ends the work on a turn does to it.
CodexQuiet(t) ==
  /\ nat'[t].state = nat[t].state
  /\ \/ disp'[t].child = disp[t].child
     \/ nat[t].state = "none" /\ (disp'[t].child \in Gens => disp'[t].child <= generation')
  /\ disp'[t].pc \in Launched => disp'[t].child \in Gens
  /\ RowQuiet(t, row'[t])

\* Such a step answers, or is none of NativeTurns.
LEMMA CodexQuietly ==
  ASSUME CodexInv, CodexInv', CodexSound, ServerGoesOn, NEW t \in Turns, CodexQuiet(t)
  PROVE  /\ CodexTurnHas(t)' /\ CodexMoves(t)
         /\ row'[t].turn = row[t].turn /\ row'[t].absent = row[t].absent => CodexAlike(t)
  <1>1. /\ disp[t].child \in Gens \cup {None} /\ disp'[t].child \in Gens \cup {None}
        /\ None \notin Gens /\ Gens \subseteq Nat /\ generation \in Nat /\ generation' \in Nat
        /\ row'[t] \in CodexRow
    <2>1. disp[t] \in CodexDisp /\ disp'[t] \in CodexDisp /\ row'[t] \in CodexRow
      BY DEF CodexInv, CodexTyped
    <2>2. generation \in Nat /\ generation' \in Nat
      BY CodexServerAssumption DEF CodexInv, CodexTyped, ServerTypeOK
    <2> QED BY <2>1, <2>2, CodexServerAssumption DEF CodexDisp, CodexRow, Gens
  <1>2. CodexTurnHas(t)
    BY DEF CodexSound
  <1>3. CodexTurnHas(t)'
    <2>1. RowTrue(row'[t], nat'[t])
      BY DEF CodexQuiet, RowQuiet, RowTrue
    <2>2. disp'[t].child \in Gens => disp'[t].child <= generation'
      <3>1. CASE disp'[t].child = disp[t].child
        <4> SUFFICES ASSUME disp[t].child \in Gens
                     PROVE  disp[t].child <= generation'
          BY <3>1
        <4>1. disp[t].child <= generation /\ generation <= generation' /\ disp[t].child \in Nat
          BY <1>1, <1>2 DEF CodexTurnHas, ServerGoesOn
        <4> QED BY <1>1, <4>1
      <3> QED BY <3>1 DEF CodexQuiet
    <2>3. disp'[t].pc \in Launched => disp'[t].child \in Gens
      BY DEF CodexQuiet
    <2> QED BY <2>1, <2>2, <2>3 DEF CodexTurnHas
  <1>4. nat[t].state # "none" => (ProcessUp(t)' <=> ProcessUp(t))
    <2> SUFFICES ASSUME nat[t].state # "none"
                 PROVE  ProcessUp(t)' <=> ProcessUp(t)
      OBVIOUS
    <2>1. disp'[t].child = disp[t].child
      BY DEF CodexQuiet
    <2>2. CASE disp[t].child = None
      BY <2>1, <2>2 DEF ProcessUp
    <2>3. CASE disp[t].child \in Gens
      <3>1. disp[t].child <= generation
        BY <1>2, <2>3 DEF CodexTurnHas
      <3>2. ProcessRuns(proc'[disp[t].child]) <=> ProcessRuns(proc[disp[t].child])
        BY <2>3, <3>1 DEF ServerGoesOn
      <3> QED BY <2>1, <3>2 DEF ProcessUp, ProcessRuns
    <2> QED BY <1>1, <2>2, <2>3
  <1>5. WorkOn(t)' = WorkOn(t) /\ GivenTo(t)' = GivenTo(t)
    BY <1>4 DEF CodexQuiet, WorkOn, GivenTo, Active
  <1>6. /\ nat[t].state \in {"none", "refused"} => ~GivenTo(t) /\ WorkOn(t) # "running"
        /\ nat[t].state \in Terminals => GivenTo(t) /\ WorkOn(t) = "over"
    BY DEF GivenTo, WorkOn, Active, Terminals
  <1>7. CASE row'[t].turn = row[t].turn /\ row'[t].absent = row[t].absent
    <2>1. AnswerTo(t)' = AnswerTo(t)
      BY <1>7 DEF AnswerTo
    <2> QED BY <1>3, <1>5, <2>1 DEF CodexMoves, Moves, CodexAlike
  <1>8. CASE ~(row'[t].turn = row[t].turn /\ row'[t].absent = row[t].absent)
    <2>1. AnswerTo(t) = "none" /\ RowTrue(row'[t], nat[t])
      BY <1>8 DEF CodexQuiet, RowQuiet, AnswerTo, Told
    <2>2. CASE row'[t].turn \in Told
      <3>1. AnswerTo(t)' \in Told /\ nat[t].state \in Terminals
        BY <2>1, <2>2 DEF AnswerTo, RowTrue
      <3> QED BY <1>3, <1>5, <1>6, <1>8, <2>1, <3>1 DEF CodexMoves, Moves
    <2>3. CASE row'[t].turn = "failed" /\ ~row'[t].absent
      <3>1. AnswerTo(t)' = "absent" /\ nat[t].state \in {"none", "refused"}
        BY <2>1, <2>3 DEF AnswerTo, RowTrue, Told
      <3> QED BY <1>3, <1>5, <1>6, <1>8, <2>1, <3>1 DEF CodexMoves, Moves
    <2>4. CASE row'[t].turn \notin Told /\ ~(row'[t].turn = "failed" /\ ~row'[t].absent)
      <3>1. AnswerTo(t)' = AnswerTo(t)
        BY <2>1, <2>4 DEF AnswerTo
      <3> QED BY <1>3, <1>5, <1>8, <3>1 DEF CodexMoves, Moves
    <2> QED BY <2>2, <2>3, <2>4
  <1> QED BY <1>7, <1>8

CodexOthers(t) == \A u \in Turns \ {t} : row'[u] = row[u] /\ disp'[u] = disp[u] /\ nat'[u] = nat[u]

\* A step of one turn.
LEMMA CodexOneStep ==
  ASSUME CodexInv, CodexInv', CodexSound, ServerGoesOn, NEW t \in Turns, CodexOthers(t),
         CodexTurnHas(t)', CodexMoves(t)
  PROVE  CodexSound' /\ (UNCHANGED Native!vars \/ Native!Next)
  <1>1. ASSUME NEW u \in Turns \ {t} PROVE CodexTurnHas(u)' /\ CodexAlike(u)
    <2>1. CodexTurnHas(u) /\ row'[u] = row[u] /\ disp'[u] = disp[u] /\ nat'[u] = nat[u]
      BY DEF CodexOthers, CodexSound
    <2>2. CodexQuiet(u)
      BY <2>1 DEF CodexQuiet, CodexTurnHas, RowQuiet
    <2> QED BY <2>1, <2>2, CodexQuietly
  <1>2. \A u \in Turns : CodexTurnHas(u)'
    BY <1>1
  <1>3. CodexSound'
    BY <1>2 DEF CodexSound, ServerGoesOn
  <1> QED BY <1>1, <1>3, CodexMove

\* A quiet step of one turn.
LEMMA CodexQuietStep ==
  ASSUME CodexInv, CodexInv', CodexSound, ServerGoesOn, NEW t \in Turns, CodexQuiet(t), CodexOthers(t)
  PROVE  CodexSound' /\ (UNCHANGED Native!vars \/ Native!Next)
  BY CodexQuietly, CodexOneStep

\* A step of no turn.
LEMMA CodexNoStep ==
  ASSUME CodexInv, CodexInv', CodexSound, ServerGoesOn, UNCHANGED <<row, disp, nat>>
  PROVE  CodexSound' /\ UNCHANGED Native!vars
  <1>1. ASSUME NEW u \in Turns PROVE CodexTurnHas(u)' /\ CodexAlike(u)
    <2>1. CodexTurnHas(u) /\ row'[u] = row[u] /\ disp'[u] = disp[u] /\ nat'[u] = nat[u]
      BY DEF CodexSound
    <2>2. CodexQuiet(u)
      BY <2>1 DEF CodexQuiet, CodexTurnHas, RowQuiet
    <2> QED BY <2>1, <2>2, CodexQuietly
  <1>2. \A u \in Turns : CodexTurnHas(u)'
    BY <1>1
  <1>3. CodexSound'
    BY <1>2 DEF CodexSound, ServerGoesOn
  <1> QED BY <1>1, <1>3, CodexNothing

\* What a dispatch comes to in a quiet step.
DispQuiet(t, d) ==
  /\ d.child = disp[t].child
  /\ d.pc \in Launched => disp[t].pc \in Launched

\* A row whose verdict is left, is quiet.
LEMMA RowKept ==
  ASSUME CodexSound, NEW t \in Turns, NEW r,
         r.turn = row[t].turn, r.absent = row[t].absent, r.terminal = row[t].terminal,
         r.attempt = "missing" => row[t].attempt = "missing"
  PROVE  RowQuiet(t, r)
  BY DEF CodexSound, CodexTurnHas, RowTrue, RowQuiet

\* They make a quiet step.
LEMMA CodexQuietIs ==
  ASSUME CodexInv, CodexSound, NEW t \in Turns, NEW r, NEW d, NEW n,
         RowIs(t, r), DispIs(t, d), NatIs(t, n), n.state = nat[t].state,
         RowQuiet(t, r), DispQuiet(t, d)
  PROVE  CodexQuiet(t) /\ CodexOthers(t)
  BY DEF CodexSound, CodexTurnHas, CodexQuiet, CodexOthers, RowIs, DispIs, NatIs, DispQuiet

\* A rejection of a turn that was not taken up is quiet.
LEMMA QuietRejects ==
  ASSUME CodexInv, CodexSound, NEW t \in Turns, NEW r \in CodexRow, Rejected(t, r), UNCHANGED nat,
         r.terminal = row[t].terminal, nat[t].state \in {"none", "refused"},
         row[t].turn \in {"queued", "open"}
  PROVE  CodexQuiet(t) /\ CodexOthers(t)
  <1> DEFINE q == [r EXCEPT !.turn = "failed"]
             d == [disp[t] EXCEPT !.pc = "done", !.outcome = "rejected", !.live = FALSE]
  <1>1. row[t] \in CodexRow /\ disp[t] \in CodexDisp /\ CodexTyped
    BY CodexAt
  <1>2. q \in CodexRow /\ RowQuiet(t, q)
    <2>1. q \in CodexRow /\ q.terminal = row[t].terminal /\ q.turn = "failed"
      BY DEF CodexRow
    <2>2. RowTrue(row[t], nat[t])
      BY DEF CodexSound, CodexTurnHas
    <2> HIDE DEF q
    <2> QED BY <2>1, <2>2 DEF RowQuiet, RowTrue, Told
  <1>3. d \in CodexDisp /\ DispQuiet(t, d)
    BY <1>1 DEF CodexDisp, CodexPcs, CodexOutcomes, DispQuiet, Launched
  <1>4. row' = [row EXCEPT ![t] = q] /\ disp' = [disp EXCEPT ![t] = d]
    BY <1>1 DEF Rejected, SetRow, CodexTyped
  <1> HIDE DEF q, d
  <1>5. RowIs(t, q) /\ DispIs(t, d) /\ NatIs(t, nat[t])
    BY <1>1, <1>2, <1>3, <1>4, RowSet, DispSet, CodexKept
  <1> QED BY <1>2, <1>3, <1>5, CodexQuietIs

\* So is a step of the dispatch that sets its row.
LEMMA QuietGoes ==
  ASSUME CodexInv, CodexSound, NEW t \in Turns, NEW r \in CodexRow, NEW d \in CodexDisp,
         row' = [row EXCEPT ![t] = r], disp' = [disp EXCEPT ![t] = d], UNCHANGED nat,
         RowQuiet(t, r), DispQuiet(t, d)
  PROVE  CodexQuiet(t) /\ CodexOthers(t)
  <1>1. RowIs(t, r) /\ DispIs(t, d) /\ NatIs(t, nat[t])
    BY CodexAt, RowSet, DispSet, CodexKept
  <1> QED BY <1>1, CodexQuietIs

\* And one that leaves it.
LEMMA QuietKeeps ==
  ASSUME CodexInv, CodexSound, NEW t \in Turns, NEW d \in CodexDisp,
         UNCHANGED <<row, nat>>, disp' = [disp EXCEPT ![t] = d], DispQuiet(t, d)
  PROVE  CodexQuiet(t) /\ CodexOthers(t)
  <1>1. RowIs(t, row[t]) /\ DispIs(t, d) /\ NatIs(t, nat[t])
    BY CodexAt, DispSet, CodexKept
  <1> QED BY <1>1, RowKept, CodexQuietIs

\* The program counter moves.
LEMMA QuietGoto ==
  ASSUME CodexInv, NEW t \in Turns, NEW l \in CodexPcs, l \in Launched => disp[t].pc \in Launched, Goto(t, l)
  PROVE  \E d \in CodexDisp : disp' = [disp EXCEPT ![t] = d] /\ DispQuiet(t, d)
  <1> DEFINE d == [disp[t] EXCEPT !.pc = l]
  <1>1. disp[t] \in CodexDisp /\ CodexTyped
    BY CodexAt
  <1>2. d \in CodexDisp /\ DispQuiet(t, d)
    BY <1>1 DEF CodexDisp, DispQuiet
  <1>3. disp' = [disp EXCEPT ![t] = d]
    BY <1>1 DEF Goto, CodexTyped
  <1> QED BY <1>2, <1>3

\* The acceptance is unknown.
LEMMA QuietUnknown ==
  ASSUME CodexInv, NEW t \in Turns, NEW l \in BOOLEAN, Unknown(t, l)
  PROVE  \E d \in CodexDisp : disp' = [disp EXCEPT ![t] = d] /\ DispQuiet(t, d)
  <1> DEFINE d == [disp[t] EXCEPT !.pc = "done", !.outcome = "unknown", !.live = l]
  <1>1. disp[t] \in CodexDisp /\ CodexTyped
    BY CodexAt
  <1>2. d \in CodexDisp /\ DispQuiet(t, d)
    BY <1>1 DEF CodexDisp, CodexPcs, CodexOutcomes, DispQuiet, Launched
  <1>3. disp' = [disp EXCEPT ![t] = d]
    BY <1>1 DEF Unknown, CodexTyped
  <1> QED BY <1>2, <1>3

\* A row that is set.
LEMMA QuietRow ==
  ASSUME CodexInv, NEW t \in Turns, NEW r \in CodexRow, SetRow(t, r)
  PROVE  row' = [row EXCEPT ![t] = r]
  BY DEF SetRow

\* Dispatch up to the request, and after it.
LEMMA QuietDispatch ==
  ASSUME CodexInv, CodexSound, NEW t \in Turns,
         \/ Dispatch(t) \/ AcquireSlot(t) \/ Ineligible(t) \/ Probe(t) \/ Stopped(t)
         \/ InsertAttempt(t) \/ ReserveLaunch(t) \/ RecordStarted(t)
         \/ TurnStartRefused(t) \/ TurnStartUnknown(t)
  PROVE  CodexQuiet(t) /\ CodexOthers(t)
  <1>1. /\ row[t] \in CodexRow /\ disp[t] \in CodexDisp /\ CodexTyped
        /\ Early(row[t], disp[t], nat[t]) /\ Late(row[t], disp[t], nat[t])
    BY CodexAt
  <1>2. UNCHANGED nat
    BY DEF Dispatch, AcquireSlot, Ineligible, Probe, Stopped, InsertAttempt, ReserveLaunch, RecordStarted,
           TurnStartRefused, TurnStartUnknown
  <1>3. ASSUME NEW l \in CodexPcs, l \in Launched => disp[t].pc \in Launched, Goto(t, l), UNCHANGED row
        PROVE  CodexQuiet(t) /\ CodexOthers(t)
    BY <1>2, <1>3, QuietGoto, QuietKeeps
  <1>4. ASSUME NEW l \in CodexPcs, l \in Launched => disp[t].pc \in Launched, Goto(t, l),
               NEW r \in CodexRow, SetRow(t, r), RowQuiet(t, r)
        PROVE  CodexQuiet(t) /\ CodexOthers(t)
    BY <1>2, <1>4, QuietGoto, QuietRow, QuietGoes
  <1>5. ASSUME Rejected(t, row[t]), disp[t].pc \in {"none", "slot", "start", "stopping", "insert", "reserve"}
        PROVE  CodexQuiet(t) /\ CodexOthers(t)
    <2>1. nat[t].state = "none" /\ row[t].turn \in {"queued", "open"}
      BY <1>1, <1>5 DEF Early, Late
    <2> QED BY <1>1, <1>2, <1>5, <2>1, QuietRejects
  <1>6. ASSUME Unknown(t, FALSE), UNCHANGED row PROVE CodexQuiet(t) /\ CodexOthers(t)
    BY <1>2, <1>6, QuietUnknown, QuietKeeps
  <1>7. CASE Dispatch(t)
    <2>1. CASE HasUnresolvedAttempts
      <3>1. disp[t].pc = "none" /\ Rejected(t, row[t])
        BY <1>1, <1>7, <2>1 DEF Dispatch, Late
      <3> QED BY <1>5, <3>1
    <2>2. CASE ~HasUnresolvedAttempts
      <3>1. Goto(t, "slot") /\ SetRow(t, [row[t] EXCEPT !.turn = "open"])
        BY <1>7, <2>2 DEF Dispatch
      <3> DEFINE r == [row[t] EXCEPT !.turn = "open"]
      <3>2. /\ r \in CodexRow /\ r.turn = "open" /\ r.terminal = row[t].terminal
            /\ r.absent = row[t].absent /\ r.attempt = row[t].attempt
        BY <1>1 DEF CodexRow
      <3>3. row[t].turn = "queued" /\ RowTrue(row[t], nat[t])
        BY <1>7 DEF Dispatch, CodexSound, CodexTurnHas
      <3> HIDE DEF r
      <3>4. RowQuiet(t, r)
        BY <3>2, <3>3 DEF RowQuiet, RowTrue, Told
      <3> QED BY <1>4, <3>1, <3>2, <3>4 DEF CodexPcs, Launched, r
    <2> QED BY <2>1, <2>2
  <1>8. CASE AcquireSlot(t) \/ Ineligible(t) \/ Stopped(t)
    <2>1. /\ Rejected(t, row[t]) \/ (Goto(t, "start") /\ UNCHANGED row)
          /\ disp[t].pc \in {"slot", "start", "stopping"}
      BY <1>8 DEF AcquireSlot, Ineligible, Stopped
    <2> QED BY <1>3, <1>5, <2>1 DEF CodexPcs, Launched
  <1>9. CASE Probe(t)
    <2>1. disp[t].pc = "probe" /\ UNCHANGED row /\ (Goto(t, "insert") \/ Goto(t, "stopping"))
      BY <1>9 DEF Probe
    <2> QED BY <1>3, <2>1 DEF CodexPcs, Launched
  <1>10. CASE InsertAttempt(t)
    <2> DEFINE r == [row[t] EXCEPT !.attempt = "uncertain", !.baseline = IF materialized THEN Len(rollout) ELSE 0]
    <2>1. disp[t].pc = "insert" /\ ((SetRow(t, r) /\ Goto(t, "reserve")) \/ Rejected(t, row[t]))
      BY <1>10 DEF InsertAttempt
    <2>2. Len(rollout) \in Nat
      BY <1>1, LenProperties DEF CodexTyped
    <2>3. /\ r \in CodexRow /\ r.turn = row[t].turn /\ r.absent = row[t].absent
          /\ r.terminal = row[t].terminal /\ r.attempt = "uncertain"
      BY <1>1, <2>2 DEF CodexRow
    <2> HIDE DEF r
    <2>4. RowQuiet(t, r)
      BY <2>3, RowKept
    <2> QED BY <1>4, <1>5, <2>1, <2>3, <2>4 DEF CodexPcs, Launched
  <1>11. CASE ReserveLaunch(t)
    <2> DEFINE r == [row[t] EXCEPT !.launch = "reserved"]
    <2>1. disp[t].pc = "reserve" /\ ((SetRow(t, r) /\ Goto(t, "started")) \/ Rejected(t, row[t]))
      BY <1>11 DEF ReserveLaunch
    <2>2. r \in CodexRow /\ RowQuiet(t, r)
      BY <1>1, RowKept DEF CodexRow
    <2> HIDE DEF r
    <2> QED BY <1>4, <1>5, <2>1, <2>2 DEF CodexPcs, Launched
  <1>12. CASE RecordStarted(t)
    <2> DEFINE r == [row[t] EXCEPT !.launch = "started"]
               d == [disp[t] EXCEPT !.pc = "write", !.live = TRUE]
    <2>1. /\ disp[t].pc = "started"
          /\ \/ row' = [row EXCEPT ![t] = r] /\ disp' = [disp EXCEPT ![t] = d]
             \/ Unknown(t, FALSE) /\ UNCHANGED row
      BY <1>1, <1>12 DEF RecordStarted, SetRow, CodexTyped
    <2>2. r \in CodexRow /\ RowQuiet(t, r)
      BY <1>1, RowKept DEF CodexRow
    <2>3. d \in CodexDisp /\ DispQuiet(t, d)
      BY <1>1, <2>1 DEF CodexDisp, CodexPcs, DispQuiet, Launched
    <2> HIDE DEF r, d
    <2> QED BY <1>2, <1>6, <2>1, <2>2, <2>3, QuietGoes
  <1>13. CASE TurnStartRefused(t)
    <2> DEFINE r == [row[t] EXCEPT !.launch = "dead", !.attempt = "missing"]
    <2>1. Rejected(t, r) /\ nat[t].state = "refused" /\ row[t].turn = "open"
      BY <1>1, <1>13 DEF TurnStartRefused, Late
    <2>2. r \in CodexRow /\ r.terminal = row[t].terminal
      BY <1>1 DEF CodexRow
    <2> HIDE DEF r
    <2> QED BY <1>2, <2>1, <2>2, QuietRejects
  <1>14. CASE TurnStartUnknown(t)
    <2>1. Unknown(t, FALSE) /\ UNCHANGED row
      BY <1>14 DEF TurnStartUnknown
    <2> QED BY <1>6, <2>1
  <1> QED BY <1>7, <1>8, <1>9, <1>10, <1>11, <1>12, <1>13, <1>14

\* The manager's step that goes with a step of a turn.
ServerStep ==
  \/ UNCHANGED serverVars \/ MarkBusy \/ MarkIdle \/ Stop \/ Launch \/ LaunchFails
  \/ TimerFires \/ Park \/ ServerCrash
  \/ \E g \in Gens : StreamBreaks(g) \/ Poison(g)

\* It keeps the processes that run.
LEMMA ServerStepKeeps ==
  ASSUME CodexInv, CodexSound, ServerStep
  PROVE  ServerGoesOn
  <1>1. ServerTypeOK /\ (child \in Gens => child <= generation)
    BY DEF CodexInv, CodexTyped, CodexSound
  <1> QED BY <1>1, ServerKeeps DEF ServerStep, ServerGoesOn

\* Every step but the end of a process goes with one.
LEMMA ServerSteps ==
  /\ \A t \in Turns :
       DispatchStep(t) \/ RunStep(t) \/ Collect(t) \/ CancelStep(t) \/ HandleRequest(t) \/ Reconcile(t)
         \/ NativeStep(t) => ServerStep
  /\ ClassifyUncertain \/ FailRequest \/ Crash => ServerStep
  /\ Background => ServerStep \/ \E g \in Gens : Exit(g, "ending") \/ Exit(g, "up")
  <1>1. ASSUME NEW t \in Turns, DispatchStep(t) PROVE ServerStep
    BY <1>1 DEF DispatchStep, Dispatch, AcquireSlot, Ineligible, StartChild, Probe, Stopped, InsertAttempt,
                ReserveLaunch, RecordStarted, WriteTurnStart, TurnStartRefused, TurnStartUnknown,
                InstallTurnRoute, AwaitTurnStarted, BindFails, ServerStep
  <1>2. ASSUME NEW t \in Turns, RunStep(t) PROVE ServerStep
    BY <1>2 DEF RunStep, Consume, Terminal, NotifyTerminal, FinishTurn, FinishIdle, ServerStep
  <1>3. ASSUME NEW t \in Turns, Collect(t) \/ CancelStep(t) \/ HandleRequest(t) \/ Reconcile(t) PROVE ServerStep
    BY <1>3 DEF Collect, CancelStep, TurnInterrupt, CancelWait, CancelGrace, CancelStopped, HandleRequest,
                Reconcile, ServerStep
  <1>4. ASSUME NEW t \in Turns, NativeStep(t) PROVE ServerStep
    BY <1>4 DEF NativeStep, NativeRefuses, NativeAccepts, NativeEnds, RolloutOpens, ServerStep
  <1>5. ClassifyUncertain \/ FailRequest \/ Crash => ServerStep
    BY DEF ClassifyUncertain, FailRequest, Crash, ServerStep
  <1>6. Background => ServerStep \/ \E g \in Gens : Exit(g, "ending") \/ Exit(g, "up")
    BY DEF Background, ServerStep
  <1> QED BY <1>1, <1>2, <1>3, <1>4, <1>5, <1>6

\* The child that the dispatch gets, the registered one or a new one.
LEMMA QuietChild ==
  ASSUME CodexInv, CodexSound, NEW t \in Turns, StartChild(t)
  PROVE  CodexQuiet(t) /\ CodexOthers(t)
  <1>1. /\ row[t] \in CodexRow /\ disp[t] \in CodexDisp /\ CodexTyped /\ ServerTypeOK
        /\ disp[t].pc = "start" /\ nat[t].state = "none" /\ row[t].turn = "open" /\ UNCHANGED nat
    BY CodexAt DEF StartChild, Early
  <1>2. ServerGoesOn
    BY ServerSteps, ServerStepKeeps DEF DispatchStep
  <1>3. CASE Rejected(t, row[t])
    BY <1>1, <1>3, QuietRejects
  <1>4. CASE /\ IF child = None THEN Launch ELSE UNCHANGED serverVars
             /\ disp' = [disp EXCEPT ![t].pc = "probe", ![t].child = child']
             /\ UNCHANGED <<row, slot>>
    <2>1. child' \in Gens
      <3>1. CASE child = None
        BY <1>1, <1>4, <3>1, CodexServerAssumption DEF Launch, ServerTypeOK, Gens
      <3>2. CASE child # None
        BY <1>1, <1>4, <3>2 DEF ServerTypeOK, serverVars
      <3> QED BY <3>1, <3>2
    <2> DEFINE d == [disp[t] EXCEPT !.pc = "probe", !.child = child']
    <2>2. disp' = [disp EXCEPT ![t] = d]
      BY <1>1, <1>4 DEF CodexTyped
    <2>3. d \in CodexDisp /\ d.child = child' /\ d.outcome = disp[t].outcome
      BY <1>1, <2>1 DEF CodexDisp, CodexPcs
    <2> HIDE DEF d
    <2>4. RowIs(t, row[t]) /\ DispIs(t, d) /\ NatIs(t, nat[t])
      BY <1>1, <1>4, <2>2, <2>3, DispSet, CodexKept
    <2>5. RowQuiet(t, row[t])
      BY RowKept
    <2> QED BY <1>1, <1>2, <2>1, <2>3, <2>4, <2>5
            DEF CodexQuiet, CodexOthers, RowIs, DispIs, NatIs, ServerGoesOn
  <1> QED BY <1>3, <1>4 DEF StartChild

\* The acceptance: the route, and what is recorded of it.
LEMMA QuietAccepts ==
  ASSUME CodexInv, CodexSound, NEW t \in Turns, InstallTurnRoute(t) \/ AwaitTurnStarted(t) \/ BindFails(t)
  PROVE  CodexQuiet(t) /\ CodexOthers(t)
  <1>1. /\ row[t] \in CodexRow /\ disp[t] \in CodexDisp /\ nat[t] \in CodexNative /\ CodexTyped
    BY CodexAt
  <1>2. CASE InstallTurnRoute(t)
    <2> DEFINE n == [nat[t] EXCEPT !.tap = "open"]
    <2>1. nat' = [nat EXCEPT ![t] = n] /\ Goto(t, "await") /\ UNCHANGED row
      BY <1>1, <1>2 DEF InstallTurnRoute, CodexTyped
    <2>2. n \in CodexNative /\ n.state = nat[t].state
      BY <1>1 DEF CodexNative
    <2> HIDE DEF n
    <2>3. PICK d \in CodexDisp : disp' = [disp EXCEPT ![t] = d] /\ DispQuiet(t, d)
      BY <2>1, QuietGoto DEF CodexPcs, Launched
    <2>4. RowIs(t, row[t]) /\ DispIs(t, d) /\ NatIs(t, n)
      BY <1>1, <2>1, <2>2, <2>3, DispSet, NatSet, CodexKept
    <2> QED BY <2>2, <2>3, <2>4, RowKept, CodexQuietIs
  <1>3. ASSUME AwaitTurnStarted(t) \/ BindFails(t)
        PROVE  \E n : NatIs(t, n) /\ n.state = nat[t].state
    <2>1. CASE UNCHANGED nat
      BY <1>1, <2>1, CodexKept
    <2>2. CASE nat[t].queue # <<>> /\ nat' = [nat EXCEPT ![t].queue = Tail(@)]
      BY <2>2, TakeOne
    <2> QED BY <1>3, <2>1, <2>2 DEF AwaitTurnStarted, BindFails
  <1>4. CASE AwaitTurnStarted(t)
    <2> DEFINE d == [disp[t] EXCEPT !.pc = "run", !.outcome = "accepted"]
    <2>1. disp' = [disp EXCEPT ![t] = d]
      BY <1>1, <1>4 DEF AwaitTurnStarted, CodexTyped
    <2>2. d \in CodexDisp /\ DispQuiet(t, d)
      BY <1>1 DEF CodexDisp, CodexPcs, CodexOutcomes, DispQuiet, Launched
    <2> HIDE DEF d
    <2>3. PICK q \in CodexRow :
            /\ q.turn = row[t].turn /\ q.absent = row[t].absent /\ q.terminal = row[t].terminal
            /\ q.attempt = row[t].attempt /\ FirstAcceptance(t, q)
      <3> DEFINE q == [row[t] EXCEPT !.bound = Head(nat[t].queue) = "started"]
      <3>1. /\ q \in CodexRow
            /\ q.turn = row[t].turn /\ q.absent = row[t].absent /\ q.terminal = row[t].terminal
            /\ q.attempt = row[t].attempt
        BY <1>1 DEF CodexRow
      <3>2. FirstAcceptance(t, q) \/ FirstAcceptance(t, row[t])
        BY <1>4 DEF AwaitTurnStarted
      <3> HIDE DEF q
      <3> QED BY <1>1, <3>1, <3>2
    <2>4. PICK r \in CodexRow : RowQuiet(t, r) /\ row' = [row EXCEPT ![t] = r]
      <3> DEFINE r == [q EXCEPT !.baseline = Len(rollout)]
      <3>1. Len(rollout) \in Nat
        BY <1>1, LenProperties DEF CodexTyped
      <3>2. /\ r \in CodexRow /\ r.turn = q.turn /\ r.absent = q.absent /\ r.terminal = q.terminal
            /\ r.attempt = q.attempt
        BY <3>1 DEF CodexRow
      <3>3. row' = [row EXCEPT ![t] = r] \/ row' = [row EXCEPT ![t] = q]
        BY <2>3 DEF FirstAcceptance, SetRow
      <3> HIDE DEF r
      <3> QED BY <2>3, <3>2, <3>3, RowKept
    <2>5. DispIs(t, d) /\ RowIs(t, r)
      BY <1>1, <2>1, <2>2, <2>4, DispSet, RowSet
    <2> QED BY <1>3, <1>4, <2>2, <2>4, <2>5, CodexQuietIs
  <1>5. CASE BindFails(t)
    <2>1. Unknown(t, TRUE) /\ UNCHANGED row
      BY <1>5 DEF BindFails
    <2>2. PICK d \in CodexDisp : disp' = [disp EXCEPT ![t] = d] /\ DispQuiet(t, d)
      BY <1>1, <2>1, QuietUnknown
    <2>3. DispIs(t, d) /\ RowIs(t, row[t])
      BY <1>1, <2>1, <2>2, DispSet, CodexKept
    <2> QED BY <1>3, <1>5, <2>2, <2>3, RowKept, CodexQuietIs
  <1> QED BY <1>2, <1>4, <1>5

\* A row that is set alone.
LEMMA QuietRecords ==
  ASSUME CodexInv, CodexSound, NEW t \in Turns, NEW r \in CodexRow,
         row' = [row EXCEPT ![t] = r], UNCHANGED <<disp, nat>>, RowQuiet(t, r)
  PROVE  CodexQuiet(t) /\ CodexOthers(t)
  <1>1. RowIs(t, r) /\ DispIs(t, disp[t]) /\ NatIs(t, nat[t])
    BY CodexAt, RowSet, CodexKept
  <1> QED BY <1>1, CodexQuietIs DEF DispQuiet

\* The verdict of a turn that ended.
LEMMA QuietTerminal ==
  ASSUME CodexInv, CodexSound, NEW t \in Turns, Terminal(t, nat[t].state), nat[t].state \in Terminals
  PROVE  /\ \E r \in CodexRow : RowIs(t, r) /\ RowQuiet(t, r)
         /\ Goto(t, "notify") \/ Goto(t, "finish")
  <1> DEFINE r == [row[t] EXCEPT !.terminal = TRUE, !.attempt = nat[t].state]
             q == [row[t] EXCEPT !.attempt = "uncertain"]
  <1>1. row[t] \in CodexRow /\ CodexTyped
    BY CodexAt
  <1>2. /\ r \in CodexRow /\ r.turn = row[t].turn /\ r.absent = row[t].absent
        /\ r.attempt = nat[t].state
        /\ q \in CodexRow /\ q.turn = row[t].turn /\ q.absent = row[t].absent
        /\ q.attempt = "uncertain" /\ q.terminal = row[t].terminal
    BY <1>1 DEF CodexRow
  <1>3. \/ row' = [row EXCEPT ![t] = r] \/ UNCHANGED row \/ row' = [row EXCEPT ![t] = q]
    BY DEF Terminal, SetRow
  <1>4. Goto(t, "notify") \/ Goto(t, "finish")
    BY DEF Terminal
  <1> HIDE DEF r, q
  <1>5. RowQuiet(t, r)
    BY <1>2 DEF CodexSound, CodexTurnHas, RowTrue, RowQuiet, Terminals
  <1>6. RowQuiet(t, q) /\ RowQuiet(t, row[t])
    BY <1>2, RowKept
  <1> QED BY <1>1, <1>2, <1>3, <1>4, <1>5, <1>6, RowSet, CodexKept

\* The turn loop.
LEMMA QuietRuns ==
  ASSUME CodexInv, CodexSound, NEW t \in Turns, RunStep(t)
  PROVE  CodexQuiet(t) /\ CodexOthers(t)
  <1>1. /\ row[t] \in CodexRow /\ disp[t] \in CodexDisp /\ nat[t] \in CodexNative /\ CodexTyped
    BY CodexAt
  <1>2. ASSUME NEW l \in CodexPcs, l \notin Launched, Goto(t, l)
        PROVE  \E d \in CodexDisp : DispIs(t, d) /\ DispQuiet(t, d)
    BY <1>1, <1>2, QuietGoto, DispSet
  <1>3. CASE Consume(t) /\ nat[t].queue # <<>> /\ nat' = [nat EXCEPT ![t].queue = Tail(@)]
    <2>1. PICK n : /\ NatIs(t, n) /\ n.state = nat[t].state
                   /\ Head(nat[t].queue) \in {"started"} \cup Terminals
                   /\ Head(nat[t].queue) \in Terminals => nat[t].state = Head(nat[t].queue)
      BY <1>3, TakeOne
    <2>2. CASE Head(nat[t].queue) = "started"
      <3>1. UNCHANGED <<row, disp>>
        BY <1>3, <2>2 DEF Consume
      <3>2. RowIs(t, row[t]) /\ DispIs(t, disp[t])
        BY <1>1, <3>1, CodexKept
      <3> QED BY <2>1, <3>2, RowKept, CodexQuietIs DEF DispQuiet
    <2>3. CASE Head(nat[t].queue) # "started"
      <3>1. nat[t].state \in Terminals /\ Terminal(t, nat[t].state)
        BY <1>3, <2>1, <2>3 DEF Consume
      <3>2. PICK r \in CodexRow : RowIs(t, r) /\ RowQuiet(t, r)
        BY <3>1, QuietTerminal
      <3>3. PICK d \in CodexDisp : DispIs(t, d) /\ DispQuiet(t, d)
        BY <1>2, <3>1, QuietTerminal DEF CodexPcs, Launched
      <3> QED BY <2>1, <3>1, <3>2, <3>3, CodexQuietIs
    <2> QED BY <2>2, <2>3
  <1>4. CASE Consume(t) /\ ~(nat[t].queue # <<>> /\ nat' = [nat EXCEPT ![t].queue = Tail(@)])
    <2> DEFINE r == [row[t] EXCEPT !.launch = "dead"]
    <2>1. row' = [row EXCEPT ![t] = r] /\ Goto(t, "finish") /\ UNCHANGED nat
      BY <1>4 DEF Consume, SetRow
    <2>2. r \in CodexRow /\ RowQuiet(t, r)
      BY <1>1, RowKept DEF CodexRow
    <2> HIDE DEF r
    <2>3. RowIs(t, r) /\ NatIs(t, nat[t])
      BY <1>1, <2>1, <2>2, RowSet, CodexKept
    <2>4. PICK d \in CodexDisp : DispIs(t, d) /\ DispQuiet(t, d)
      BY <1>2, <2>1 DEF CodexPcs, Launched
    <2> QED BY <2>2, <2>3, <2>4, CodexQuietIs
  <1>5. CASE NotifyTerminal(t)
    <2> DEFINE d == [disp[t] EXCEPT !.pc = "finish", !.seen = TRUE]
    <2>1. disp' = [disp EXCEPT ![t] = d] /\ UNCHANGED <<row, nat>>
      BY <1>1, <1>5 DEF NotifyTerminal, CodexTyped
    <2>2. d \in CodexDisp /\ DispQuiet(t, d)
      BY <1>1 DEF CodexDisp, CodexPcs, DispQuiet, Launched
    <2> HIDE DEF d
    <2> QED BY <2>1, <2>2, QuietKeeps
  <1>6. CASE FinishTurn(t)
    <2> DEFINE d == [disp[t] EXCEPT !.pc = "idle", !.live = FALSE]
               n == [nat[t] EXCEPT !.tap = "closed", !.queue = <<>>]
    <2>1. disp' = [disp EXCEPT ![t] = d] /\ nat' = [nat EXCEPT ![t] = n] /\ UNCHANGED row
      BY <1>1, <1>6 DEF FinishTurn, CodexTyped
    <2>2. d \in CodexDisp /\ DispQuiet(t, d)
      BY <1>1 DEF CodexDisp, CodexPcs, DispQuiet, Launched
    <2>3. n \in CodexNative /\ n.state = nat[t].state
      <3>1. <<>> \in Seq({"started"} \cup Terminals)
        OBVIOUS
      <3> QED BY <1>1, <3>1 DEF CodexNative
    <2> HIDE DEF d, n
    <2>4. RowIs(t, row[t]) /\ DispIs(t, d) /\ NatIs(t, n)
      BY <1>1, <2>1, <2>2, <2>3, DispSet, NatSet, CodexKept
    <2> QED BY <2>2, <2>3, <2>4, RowKept, CodexQuietIs
  <1>7. CASE FinishIdle(t)
    <2>1. Goto(t, "done") /\ UNCHANGED <<row, nat>>
      BY <1>7 DEF FinishIdle
    <2>2. PICK d \in CodexDisp : disp' = [disp EXCEPT ![t] = d] /\ DispQuiet(t, d)
      BY <2>1, QuietGoto DEF CodexPcs, Launched
    <2> QED BY <2>1, <2>2, QuietKeeps
  <1> QED BY <1>3, <1>4, <1>5, <1>6, <1>7 DEF RunStep

\* The verdict is collected, or reconciled.
LEMMA QuietSettles ==
  ASSUME CodexInv, CodexSound, NEW t \in Turns, Collect(t) \/ Reconcile(t)
  PROVE  CodexQuiet(t) /\ CodexOthers(t)
  <1>1. /\ row[t] \in CodexRow /\ UNCHANGED <<disp, nat>> /\ row[t].turn = "open"
        /\ RowTrue(row[t], nat[t])
    BY CodexAt DEF Collect, Reconcile, CodexSound, CodexTurnHas
  <1>2. ASSUME NEW v \in Told, SetRow(t, [row[t] EXCEPT !.turn = v]), row[t].terminal
        PROVE  CodexQuiet(t) /\ CodexOthers(t)
    <2> DEFINE r == [row[t] EXCEPT !.turn = v]
    <2>1. row' = [row EXCEPT ![t] = r]
      BY <1>2 DEF SetRow
    <2>2. /\ r \in CodexRow /\ r.turn = v /\ r.absent = row[t].absent /\ r.attempt = row[t].attempt
      BY <1>1 DEF CodexRow, Told
    <2> HIDE DEF r
    <2>3. RowQuiet(t, r)
      BY <1>1, <1>2, <2>2 DEF RowTrue, RowQuiet, Told
    <2> QED BY <1>1, <2>1, <2>2, <2>3, QuietRecords
  <1>3. CASE Reconcile(t) /\ Reconstruct(t)
    <2>1. TaskComplete(t) # None
      BY <1>3 DEF Reconstruct
    <2>2. TaskComplete(t) = "completed" /\ nat[t].state = "completed"
      BY <1>1, <2>1, CompleteIsTrue
    <2> DEFINE r == [row[t] EXCEPT !.terminal = TRUE, !.attempt = "completed", !.turn = "completed"]
    <2>3. row' = [row EXCEPT ![t] = r]
      BY <1>3, <2>2 DEF Reconstruct, SetRow
    <2>4. /\ r \in CodexRow /\ r.turn = "completed" /\ r.absent = row[t].absent
          /\ r.attempt = "completed" /\ nat[t].state \in Terminals
      BY <1>1, <2>2 DEF CodexRow, Terminals
    <2> HIDE DEF r
    <2>5. RowQuiet(t, r)
      BY <1>1, <2>4 DEF RowTrue, RowQuiet, Told
    <2> QED BY <1>1, <2>3, <2>4, <2>5, QuietRecords
  <1>4. CASE Collect(t)
    <2>1. TurnVerdict(row[t].attempt) \in Told
      BY <1>4 DEF Collect, TurnVerdict, Terminals, Told
    <2> QED BY <1>2, <1>4, <2>1 DEF Collect
  <1>5. CASE Reconcile(t) /\ VerifyAbsence(t)
    <2> DEFINE r == [row[t] EXCEPT !.absent = TRUE, !.turn = "failed"]
    <2>1. row' = [row EXCEPT ![t] = r] /\ ~row[t].terminal
      BY <1>5 DEF VerifyAbsence, CanVerify, SetRow
    <2>2. r \in CodexRow /\ r.turn = "failed" /\ r.absent /\ r.terminal = row[t].terminal
      BY <1>1 DEF CodexRow
    <2> HIDE DEF r
    <2>3. RowQuiet(t, r)
      BY <1>1, <2>1, <2>2 DEF RowTrue, RowQuiet, Told
    <2> QED BY <1>1, <2>1, <2>2, <2>3, QuietRecords
  <1>6. CASE /\ row[t].terminal
             /\ SetRow(t, [row[t] EXCEPT !.turn = IF row[t].attempt \in Terminals
                                                  THEN TurnVerdict(row[t].attempt) ELSE "completed"])
    <2> DEFINE v == IF row[t].attempt \in Terminals THEN TurnVerdict(row[t].attempt) ELSE "completed"
    <2>1. v \in Told
      BY DEF TurnVerdict, Terminals, Told
    <2> QED BY <1>2, <1>6, <2>1
  \* No open turn has a recorded refusal: it fails the turn.
  <1>7. ~(row[t].attempt = "missing")
    BY <1>1 DEF RowTrue
  <1> QED BY <1>3, <1>4, <1>5, <1>6, <1>7 DEF Reconcile

\* The responder marks the attempt uncertain.
LEMMA QuietResponds ==
  ASSUME CodexInv, CodexSound, ClassifyUncertain
  PROVE  resp.turn \in Turns /\ CodexQuiet(resp.turn) /\ CodexOthers(resp.turn)
  <1> DEFINE t == resp.turn
             r == [row[t] EXCEPT !.attempt = "uncertain"]
  <1>1. t \in Turns
    BY DEF ClassifyUncertain, CodexInv, CodexTyped, CodexResponses, NoResp
  <1>2. row' = [row EXCEPT ![t] = r] /\ UNCHANGED <<disp, nat>>
    BY DEF ClassifyUncertain, Responding, SetRow
  <1>3. r \in CodexRow /\ RowQuiet(t, r)
    <2>1. row[t] \in CodexRow
      BY <1>1, CodexAt
    <2>2. /\ r \in CodexRow /\ r.turn = row[t].turn /\ r.absent = row[t].absent
          /\ r.terminal = row[t].terminal /\ r.attempt = "uncertain"
      BY <2>1 DEF CodexRow
    <2> HIDE DEF r, t
    <2> QED BY <1>1, <2>2, RowKept
  <1> HIDE DEF r, t
  <1>4. CodexQuiet(t) /\ CodexOthers(t)
    BY <1>1, <1>2, <1>3, QuietRecords
  <1> QED BY <1>1, <1>4 DEF t

\* The request is written: the work begins, of a turn alone, or it is answered that it will not.
LEMMA CodexWritten ==
  ASSUME CodexInv, CodexInv', CodexSound, NEW t \in Turns, WriteTurnStart(t)
  PROVE  CodexSound' /\ (UNCHANGED Native!vars \/ Native!Next)
  <1>1. /\ row[t] \in CodexRow /\ disp[t] \in CodexDisp /\ nat[t] \in CodexNative /\ CodexTyped
        /\ disp[t].pc = "write" /\ row[t].turn = "open" /\ nat[t].state = "none" /\ ~row[t].terminal
        /\ disp[t].outcome = None
    BY CodexAt DEF WriteTurnStart, Early
  <1>2. ServerGoesOn
    BY ServerSteps, ServerStepKeeps DEF DispatchStep
  <1>3. CASE UNCHANGED nat /\ Rejected(t, [row[t] EXCEPT !.launch = "dead", !.attempt = "missing"])
    <2> DEFINE r == [row[t] EXCEPT !.launch = "dead", !.attempt = "missing"]
    <2>1. r \in CodexRow /\ r.terminal = row[t].terminal /\ Rejected(t, r)
      BY <1>1, <1>3 DEF CodexRow
    <2> HIDE DEF r
    <2>2. CodexQuiet(t) /\ CodexOthers(t)
      BY <1>1, <1>3, <2>1, QuietRejects
    <2> QED BY <1>2, <2>2, CodexQuietStep
  <1>4. CASE Unknown(t, FALSE) /\ UNCHANGED <<row, nat>>
    <2>1. CodexQuiet(t) /\ CodexOthers(t)
      BY <1>1, <1>4, QuietUnknown, QuietKeeps
    <2> QED BY <1>2, <2>1, CodexQuietStep
  <1>5. CASE /\ proc[disp[t].child] = "up" /\ nat' = [nat EXCEPT ![t].state = "received"]
             /\ Goto(t, "ack") /\ UNCHANGED <<row, slot>> /\ UNCHANGED serverVars
    <2>1. /\ disp'[t].child = disp[t].child /\ disp'[t].outcome = None /\ disp'[t].pc = "ack"
          /\ nat'[t].state = "received" /\ row' = row /\ proc' = proc /\ generation' = generation
          /\ CodexOthers(t)
      BY <1>1, <1>5 DEF Goto, CodexTyped, CodexDisp, CodexNative, CodexOthers, serverVars
    <2>2. CodexTurnHas(t)
      BY DEF CodexSound
    <2>3. disp[t].child \in Gens /\ disp[t].child # None
      BY <1>1, <2>2, CodexServerAssumption DEF CodexTurnHas, Launched, Gens
    <2>4. CodexTurnHas(t)'
      BY <1>1, <2>1, <2>2 DEF CodexTurnHas, Launched, RowTrue, Told
    <2>5. CodexAlone
      <3>1. \A u \in Turns \ {t} : ~Busy(u)
        BY <1>1 DEF CodexInv, CodexOrder
      <3>2. ~Busy(t)
        BY <1>1 DEF Busy, BusyNative
      <3> QED BY <3>1, <3>2 DEF CodexAlone
    <2>6. WorkOn(t) = "none" /\ WorkOn(t)' = "running"
      BY <1>1, <1>5, <2>1, <2>3 DEF WorkOn, Active, ProcessUp
    <2>7. GivenTo(t)' = GivenTo(t)
      BY <1>1, <2>1 DEF GivenTo, Terminals
    <2>8. AnswerTo(t) = "none" /\ AnswerTo(t)' = "none"
      BY <1>1, <2>1 DEF AnswerTo, Told
    <2>9. CodexMoves(t)
      BY <2>5, <2>6, <2>7, <2>8 DEF CodexMoves, Moves
    <2> QED BY <1>2, <2>1, <2>4, <2>9, CodexOneStep
  <1> QED BY <1>3, <1>4, <1>5 DEF WriteTurnStart

\* The child takes a turn up, refuses it or ends it.
LEMMA CodexNatively ==
  ASSUME CodexInv, CodexInv', CodexSound, NEW t \in Turns, NativeStep(t)
  PROVE  CodexSound' /\ (UNCHANGED Native!vars \/ Native!Next)
  <1>1. /\ UNCHANGED <<row, disp>> /\ UNCHANGED serverVars
    BY DEF NativeStep, NativeRefuses, NativeAccepts, NativeEnds, RolloutOpens, NativeOnly
  <1>2. ServerGoesOn
    BY ServerSteps, ServerStepKeeps
  <1>3. nat[t] \in CodexNative /\ CodexTyped /\ CodexTurnHas(t)
    BY CodexAt DEF CodexSound
  <1>4. CASE RolloutOpens(t)
    <2>1. UNCHANGED nat
      BY <1>4 DEF RolloutOpens
    <2> QED BY <1>1, <1>2, <2>1, CodexNoStep
  <1>5. CASE NativeRefuses(t) \/ NativeAccepts(t) \/ NativeEnds(t)
    <2>1. PICK s : /\ nat'[t].state = s /\ \A u \in Turns \ {t} : nat'[u] = nat[u]
                   /\ \/ nat[t].state = "received" /\ s \in {"refused", "running"}
                      \/ nat[t].state = "running" /\ s \in Terminals
      <3>1. Busy(t)
        BY <1>5 DEF NativeRefuses, NativeAccepts, NativeEnds, Busy, BusyNative
      <3>2. CASE NativeRefuses(t)
        BY <1>3, <3>2 DEF NativeRefuses, CodexTyped, CodexNative
      <3>3. CASE NativeAccepts(t)
        <4>1. PICK n \in CodexNative : NatIs(t, n) /\ n.state = "running"
          BY <3>1, <3>3, DeliversTrue DEF NativeAccepts
        <4> QED BY <3>3, <4>1 DEF NatIs, NativeAccepts
      <3>4. CASE NativeEnds(t)
        <4>1. PICK v \in Terminals : Deliver(t, v, v)
          BY <3>4 DEF NativeEnds
        <4>2. PICK n \in CodexNative : NatIs(t, n) /\ n.state = v
          BY <3>1, <4>1, DeliversTrue
        <4> QED BY <3>4, <4>2 DEF NatIs, NativeEnds
      <3> QED BY <1>5, <3>2, <3>3, <3>4
    <2>2. ProcessUp(t) /\ (ProcessUp(t)' <=> ProcessUp(t))
      BY <1>1, <1>5 DEF NativeRefuses, NativeAccepts, NativeEnds, ProcessUp, serverVars
    <2>3. RowTrue(row[t], nat'[t])
      BY <1>3, <2>1 DEF CodexTurnHas, RowTrue, Terminals
    <2>4. CodexOthers(t) /\ CodexTurnHas(t)'
      BY <1>1, <1>3, <2>1, <2>3 DEF CodexOthers, CodexTurnHas, serverVars
    <2>5. AnswerTo(t)' = AnswerTo(t)
      BY <1>1 DEF AnswerTo
    <2>6. WorkOn(t) = "running"
      BY <2>1, <2>2 DEF WorkOn, Active, Terminals
    <2>7. CASE s = "refused"
      <3>1. WorkOn(t)' = "over" /\ GivenTo(t)' = GivenTo(t)
        BY <2>1, <2>7 DEF WorkOn, Active, GivenTo, Terminals
      <3> QED BY <1>2, <2>4, <2>5, <2>6, <3>1, CodexOneStep DEF CodexMoves, Moves
    <2>8. CASE s = "running"
      <3>1. WorkOn(t)' = "running" /\ ~GivenTo(t) /\ GivenTo(t)' = TRUE
        BY <2>1, <2>2, <2>8 DEF WorkOn, Active, GivenTo, Terminals
      <3> QED BY <1>2, <2>4, <2>5, <2>6, <3>1, CodexOneStep DEF CodexMoves, Moves
    <2>9. CASE s \in Terminals
      <3>1. WorkOn(t)' = "over" /\ GivenTo(t) /\ GivenTo(t)'
        BY <2>1, <2>9 DEF WorkOn, Active, GivenTo, Terminals
      <3>2. GivenTo(t)' = GivenTo(t)
        BY <3>1 DEF GivenTo
      <3> QED BY <1>2, <2>4, <2>5, <2>6, <3>1, <3>2, CodexOneStep DEF CodexMoves, Moves
    <2> QED BY <2>1, <2>7, <2>8, <2>9
  <1> QED BY <1>4, <1>5 DEF NativeStep

\* A process ends: with it the work on the one turn that it had, if it had one.
LEMMA CodexExits ==
  ASSUME CodexInv, CodexInv', CodexSound, NEW g \in Gens, Exit(g, "ending") \/ Exit(g, "up"),
         UNCHANGED <<row, disp, nat>>
  PROVE  CodexSound' /\ (UNCHANGED Native!vars \/ Native!Next)
  <1>1. /\ ProcessRuns(proc[g]) /\ ~ProcessRuns(proc'[g]) /\ \A k \in Gens : k # g => proc'[k] = proc[k]
        /\ child' = child /\ generation' = generation
    BY DEF Exit, ProcessRuns, CodexInv, CodexTyped, ServerTypeOK
  <1>2. \A u \in Turns : disp[u].child \in Gens \cup {None} /\ (disp[u].child = None \/ disp[u].child \in Gens)
    BY CodexAt DEF CodexDisp
  <1>3. CodexSound'
    BY <1>1 DEF CodexSound, CodexTurnHas
  <1>4. \A u \in Turns : GivenTo(u)' = GivenTo(u) /\ AnswerTo(u)' = AnswerTo(u)
    BY DEF GivenTo, AnswerTo
  <1>5. \A u \in Turns : disp[u].child # g \/ ~Busy(u) => WorkOn(u)' = WorkOn(u)
    BY <1>1, <1>2 DEF WorkOn, Active, ProcessUp, Busy, BusyNative
  <1>6. CASE \E u \in Turns : Busy(u) /\ disp[u].child = g
    <2>1. PICK t \in Turns : Busy(t) /\ disp[t].child = g
      BY <1>6
    <2>2. \A u \in Turns \ {t} : ~Busy(u)
      BY <2>1 DEF CodexInv, CodexOrder
    <2>3. \A u \in Turns \ {t} : CodexAlike(u)
      BY <1>4, <1>5, <2>2 DEF CodexAlike
    <2>4. WorkOn(t) = "running" /\ WorkOn(t)' = "over"
      BY <1>1, <2>1, CodexServerAssumption DEF WorkOn, Active, ProcessUp, ProcessRuns, Busy, BusyNative, Gens
    <2>5. CodexMoves(t)
      BY <1>4, <2>4 DEF CodexMoves, Moves
    <2> QED BY <1>3, <2>3, <2>5, CodexMove
  <1>7. CASE ~\E u \in Turns : Busy(u) /\ disp[u].child = g
    <2>1. \A u \in Turns : CodexAlike(u)
      BY <1>4, <1>5, <1>7 DEF CodexAlike
    <2> QED BY <1>3, <2>1, CodexNothing
  <1> QED BY <1>6, <1>7

\* A crash ends no work and answers nothing.
LEMMA CodexCrashes ==
  ASSUME CodexInv, CodexInv', CodexSound, Crash
  PROVE  CodexSound' /\ UNCHANGED Native!vars
  <1>1. ServerGoesOn
    BY ServerSteps, ServerStepKeeps
  <1>2. ASSUME NEW t \in Turns PROVE CodexTurnHas(t)' /\ CodexAlike(t)
    <2>1. disp[t] \in CodexDisp /\ nat[t] \in CodexNative /\ CodexTurnHas(t)
      BY CodexAt DEF CodexSound
    <2>2. /\ row' = row
          /\ disp'[t] = IF disp[t].pc = "none" THEN disp[t]
                        ELSE [disp[t] EXCEPT !.pc = "done", !.live = FALSE,
                                             !.outcome = IF @ = None THEN "lost" ELSE @]
          /\ nat'[t] = [nat[t] EXCEPT !.tap = "closed", !.queue = <<>>]
      BY DEF Crash
    <2>3. /\ disp'[t].child = disp[t].child /\ nat'[t].state = nat[t].state
          /\ disp'[t].pc \notin Launched
      BY <2>1, <2>2 DEF CodexDisp, CodexNative, Launched
    <2>4. CodexQuiet(t)
      BY <2>1, <2>2, <2>3 DEF CodexQuiet, CodexTurnHas, RowQuiet
    <2> QED BY <1>1, <2>2, <2>3, <2>4, CodexQuietly
  <1>3. \A u \in Turns : CodexTurnHas(u)'
    BY <1>2
  <1>4. CodexSound'
    BY <1>1, <1>3 DEF CodexSound, ServerGoesOn
  <1> QED BY <1>2, <1>4, CodexNothing

\* Every step.
LEMMA CodexNativeNext ==
  ASSUME CodexInv, CodexInv', CodexSound, Next
  PROVE  CodexSound' /\ (UNCHANGED Native!vars \/ Native!Next)
  <1>1. ASSUME NEW t \in Turns, CodexQuiet(t), CodexOthers(t), ServerStep
        PROVE  CodexSound' /\ (UNCHANGED Native!vars \/ Native!Next)
    BY <1>1, ServerStepKeeps, CodexQuietStep
  <1>2. ASSUME ServerStep, UNCHANGED <<row, disp, nat>>
        PROVE  CodexSound' /\ (UNCHANGED Native!vars \/ Native!Next)
    BY <1>2, ServerStepKeeps, CodexNoStep
  <1>3. ASSUME NEW t \in Turns, DispatchStep(t)
        PROVE  CodexSound' /\ (UNCHANGED Native!vars \/ Native!Next)
    BY <1>1, <1>3, ServerSteps, QuietDispatch, QuietChild, QuietAccepts, CodexWritten DEF DispatchStep
  <1>4. ASSUME NEW t \in Turns, RunStep(t) \/ Collect(t) \/ Reconcile(t)
        PROVE  CodexSound' /\ (UNCHANGED Native!vars \/ Native!Next)
    BY <1>1, <1>4, ServerSteps, QuietRuns, QuietSettles
  <1>5. ASSUME NEW t \in Turns, CancelStep(t) \/ HandleRequest(t)
        PROVE  CodexSound' /\ (UNCHANGED Native!vars \/ Native!Next)
    <2>1. UNCHANGED <<row, disp, nat>>
      BY <1>5 DEF CancelStep, TurnInterrupt, CancelWait, CancelGrace, CancelStopped, Calling,
                  HandleRequest, Responding
    <2> QED BY <1>2, <1>5, <2>1, ServerSteps
  <1>6. CASE ClassifyUncertain
    BY <1>1, <1>6, ServerSteps, QuietResponds
  <1>7. CASE FailRequest
    <2>1. UNCHANGED <<row, disp, nat>>
      BY <1>7 DEF FailRequest, Responding
    <2> QED BY <1>2, <1>7, <2>1, ServerSteps
  <1>8. CASE Background
    <2>1. UNCHANGED <<row, disp, nat>>
      BY <1>8 DEF Background
    <2>2. ServerStep \/ \E g \in Gens : Exit(g, "ending") \/ Exit(g, "up")
      BY <1>8, ServerSteps
    <2> QED BY <1>2, <2>1, <2>2, CodexExits
  <1> QED BY <1>3, <1>4, <1>5, <1>6, <1>7, <1>8, CodexNatively, CodexCrashes DEF Next

\* At the start nothing was begun, given or answered.
LEMMA CodexNativeInit ==
  ASSUME Init
  PROVE  CodexSound /\ Native!Init
  <1>1. \A t \in Turns : /\ row[t].terminal = FALSE /\ row[t].turn = "queued" /\ row[t].attempt = None
                         /\ row[t].absent = FALSE /\ nat[t].state = "none" /\ disp[t].child = None
                         /\ disp[t].pc = "none"
    BY DEF Init
  <1>2. None \notin Gens /\ None # "missing" /\ child = None
    BY CodexServerAssumption, CodexAssumption DEF Gens, Init, ServerInit
  <1>3. CodexSound
    BY <1>1, <1>2 DEF CodexSound, CodexTurnHas, Launched, RowTrue, Told
  <1>4. \A t \in Turns : WorkOn(t) = "none" /\ GivenTo(t) = FALSE /\ AnswerTo(t) = "none"
    BY <1>1, <1>2 DEF WorkOn, GivenTo, AnswerTo, Terminals, Told
  <1> QED BY <1>3, <1>4 DEF Native!Init

\* What is stuttered is no step.
LEMMA CodexNativeStutter ==
  ASSUME CodexInv, CodexInv', CodexSound, UNCHANGED vars
  PROVE  CodexSound'
  BY DEF vars, turnVars, serverVars, CodexSound, CodexTurnHas

\* The codex adapter implements NativeTurns, for any number of turns, children and faults:
\* however many children the turns of a thread are spread over, and whichever of them is parked,
\* stopped, poisoned or left behind by a crash, one turn at a time is worked on, each once, and
\* the service is told once how a turn ended: a verdict of one that was taken up, after the work
\* on it, or a failure of one that was not (Dispatch, runTurn, Reconcile without its verified
\* absence, which AnswerTo leaves out and AbsentTookNothing refutes).
THEOREM CodexRefinesTurns == MCSpec => CodexImplementsTurns
  <1> DEFINE Part == part = "codex" => CodexSound
             Step == part = "codex" => UNCHANGED Native!vars \/ Native!Next
  <1>1. MCInit => Part /\ (part = "codex" => Native!Init)
    BY CodexNativeInit DEF MCInit
  <1>2. CodexPart /\ CodexPart' /\ Part /\ [MCNext]_mcVars => Part' /\ [Step]_vars
    <2> SUFFICES ASSUME CodexPart, CodexPart', Part, [MCNext]_mcVars
                 PROVE  Part' /\ [Step]_vars
      OBVIOUS
    <2>1. CASE part = "codex" /\ MCNext
      <3>1. Next /\ part' = "codex"
        BY <2>1 DEF MCNext
      <3>2. CodexSound' /\ (UNCHANGED Native!vars \/ Native!Next)
        BY <2>1, <3>1, CodexNativeNext DEF CodexPart
      <3> QED BY <3>2
    <2>2. CASE part = "codex" /\ UNCHANGED mcVars
      <3>1. UNCHANGED vars /\ part' = "codex"
        BY <2>2 DEF mcVars
      <3>2. CodexSound'
        BY <2>2, <3>1, CodexNativeStutter DEF CodexPart
      <3> QED BY <3>1, <3>2
    <2>3. CASE part # "codex"
      <3>1. part' = part
        BY DEF MCNext, mcVars
      <3> QED BY <2>3, <3>1
    <2> QED BY <2>1, <2>2, <2>3
  <1> QED BY <1>1, <1>2, CodexInvariant, PTL DEF MCSpec, mcVars, CodexImplementsTurns

-----------------------------------------------------------------------------
(* Opencode: the state in which a turn can be.                             *)

OcGens == Gens \cup {None}
OcPumps == 1 .. MaxPump
OcPcs == {"idle", "launch", "await", "reserve", "join", "slot", "verify", "prompt", "finish",
          "release", "returned"}
OcAnswers == {None, "accepted", "rejected", "unknown", "zero"}
OcCall == [pc : OcPcs, gen : OcGens, joined : Calls \cup {None}, outcome : OcAnswers, shared : OcAnswers]
OcNative == [state : {"none", "active", "done", "lost"}, gen : OcGens]
OcPump ==
  [gen : OcGens, seen : SUBSET Turns, kept : SUBSET Turns, taps : [Turns -> Observers \cup {None}],
   pc : {"idle", "mark", "route", "detach"}, turn : Turns \cup {None},
   resync : Observers \cup {None}, stopped : BOOLEAN]
OcObserver ==
  [pc : {"idle", "register", "route", "open", "detach", "cancelled"}, pump : OcPumps \cup {None},
   stream : {"none", "open", "ended", "overflow"}, got : Nat]

OcTurnsTyped ==
  /\ call \in [Calls -> OcCall]
  /\ nat \in [Turns -> OcNative]
  /\ disp \in [Turns -> {"none", "live", "terminal"}]
  /\ launching \in [Turns -> Calls \cup {None}]
  /\ verdict \in [Turns -> OcAnswers]
OcPumpsTyped ==
  /\ pump \in [OcPumps -> OcPump] /\ pumps \in Nat /\ current \in OcPumps \cup {None}
  /\ obs \in [Observers -> OcObserver]
OcServerTyped == child \in OcGens /\ gens \in Nat

Before == {"idle", "launch", "await", "reserve", "join", "slot", "verify", "prompt"}
Holding == {"slot", "verify", "prompt", "finish"}
Owning == {"verify", "prompt", "finish", "release"}
Submitted == {"accepted", "unknown"}

\* A call: what holds its turn's reservation dispatches it alone, and prompts it once.
CallIs(c, k, l, d, n) ==
  /\ k.pc \in Before => k.outcome = None
  /\ k.pc = "join" => k.joined \in Calls
  /\ k.pc \in Holding => l = c /\ d = "none"
  /\ k.pc = "prompt" => n = "none"
  /\ k.pc = "finish" => \/ k.outcome = "accepted" /\ n # "none"
                        \/ k.outcome = "rejected" /\ n = "none"
                        \/ k.outcome = "unknown"
  /\ k.pc = "release" => k.outcome = "rejected"

OcCalls == \A c \in Calls : CallIs(c, call[c], launching[Ref[c]], disp[Ref[c]], nat[Ref[c]].state)

\* A turn: what is known of it is so, and what the native session took up is known.
OcTurns ==
  \A t \in Turns :
    /\ disp[t] # "none" => nat[t].state # "none"
    /\ verdict[t] = "rejected" => \E c \in Calls : Ref[c] = t /\ call[c].outcome = "rejected"
    /\ nat[t].state # "none" =>
         /\ \E c \in Calls : Ref[c] = t /\ call[c].outcome \in Submitted
         /\ \/ disp[t] # "none" \/ t \in unknown
            \/ \E c \in Calls : Ref[c] = t /\ call[c].pc = "finish" /\ call[c].outcome \in Submitted

\* A pump and the taps: a tap is of a turn's one observer, and it is ended after the terminal was sent.
PumpIs(k) ==
  /\ \A t \in Turns : k.taps[t] # None => Watched[k.taps[t]] = t /\ disp[t] # "none"
  /\ k.pc # "idle" => k.turn \in Turns /\ nat[k.turn].state = "done"
  /\ k.resync # None =>
       /\ k.pc # "idle" /\ Watched[k.resync] = k.turn /\ disp[k.turn] # "none"
       /\ k.pc \in {"route", "detach"} => disp[k.turn] = "terminal"
  /\ k.pc = "detach" => \A o \in Observers : Watched[o] = k.turn => obs[o].got > 0

ObserverIs(o, k) ==
  /\ k.pc # "idle" => k.pump \in OcPumps /\ disp[Watched[o]] # "none"
  /\ k.pc = "detach" => k.got > 0
  /\ k.stream = "ended" /\ k.pc # "cancelled" => k.got > 0

OcTaps ==
  /\ \A p \in OcPumps : PumpIs(pump[p])
  /\ \A o \in Observers : ObserverIs(o, obs[o])

OcInv ==
  /\ OcTurnsTyped /\ OcPumpsTyped /\ OcServerTyped
  /\ OcCalls /\ OcTurns /\ OcTaps

OcPart == part = "opencode" => OcInv

\* The slot: who works on a prompt or is about to owns it, and an owner has not ended.
OcOwners == \A c \in Calls : call[c].pc \in Owning => slot = Ref[c]
OcReleases ==
  \A c \in Calls :
    call[c].pc = "release" =>
      /\ nat[Ref[c]].state = "none"
      /\ \A d \in Calls \ {c} : Ref[d] = Ref[c] => call[d].pc \notin Holding \cup {"release"}
OcOwned ==
  \A t \in Turns :
    /\ nat[t].state = "active" => slot = t
    /\ disp[t] = "terminal" => slot # t
OcOpen ==
  slot # None =>
    /\ slot \in Turns
    /\ \/ disp[slot] = "live" \/ slot \in unknown
       \/ \E c \in Calls : Ref[c] = slot /\ call[c].pc \in Owning

OcSlot == OcOwners /\ OcReleases /\ OcOwned /\ OcOpen

OcSlotPart == part = "opencode" => OcInv /\ OcSlot

-----------------------------------------------------------------------------
(* Opencode: what a step keeps.                                            *)

OcCallBecomes(c, k) ==
  call' \in [Calls -> OcCall] /\ call'[c] = k /\ \A e \in Calls \ {c} : call'[e] = call[e]
OcTurnBecomes(t, l, d, n, v) ==
  /\ launching' \in [Turns -> Calls \cup {None}] /\ launching'[t] = l
  /\ disp' \in [Turns -> {"none", "live", "terminal"}] /\ disp'[t] = d
  /\ nat' \in [Turns -> OcNative] /\ nat'[t] = n
  /\ verdict' \in [Turns -> OcAnswers] /\ verdict'[t] = v
  /\ \A u \in Turns \ {t} : /\ launching'[u] = launching[u] /\ disp'[u] = disp[u]
                            /\ nat'[u] = nat[u] /\ verdict'[u] = verdict[u]

\* What a step of a call may do to its turn t, beside its own progress: nothing is undone.
OcAllowed(c, k, l, d, n, v) ==
  LET t == Ref[c] IN
  /\ CallIs(c, k, l, d, n.state)
  /\ k.outcome = call[c].outcome \/ call[c].outcome = None
  /\ call[c].pc \in Holding \/ ( /\ d = disp[t] /\ n = nat[t] /\ unknown' = unknown
                                 /\ l = launching[t] \/ launching[t] = None )
  /\ d # "none" => n.state # "none"
  /\ disp[t] # "none" => d = disp[t]
  /\ nat[t].state # "none" => n = nat[t]
  /\ v = "rejected" => v = verdict[t] \/ k.outcome = "rejected"
  /\ n.state # "none" => nat[t].state # "none" \/ k.outcome \in Submitted
  /\ n.state # "none" => \/ d # "none" \/ t \in unknown' \/ call[c].pc \notin Holding
                         \/ k.pc = "finish" /\ k.outcome \in Submitted
  /\ unknown \ {t} \subseteq unknown'

\* Pumps that are new, or go on as they were.
PumpsStay ==
  \A p \in OcPumps :
    \/ pump'[p].pc = "idle" /\ pump'[p].resync = None /\ \A t \in Turns : pump'[p].taps[t] = None
    \/ /\ pump'[p].taps = pump[p].taps /\ pump'[p].pc = pump[p].pc
       /\ pump'[p].turn = pump[p].turn /\ pump'[p].resync = pump[p].resync

\* The turns only go on.
TurnsGoOn ==
  \A t \in Turns :
    /\ disp[t] # "none" => disp'[t] # "none"
    /\ disp[t] = "terminal" => disp'[t] = "terminal"
    /\ nat[t].state = "done" => nat'[t].state = "done"

\* The taps are left alone.
LEMMA OcTapsStay ==
  ASSUME OcTaps, OcPumpsTyped, TurnsGoOn, PumpsStay, UNCHANGED obs
  PROVE  OcTaps'
  <1>1. ASSUME NEW o \in Observers PROVE ObserverIs(o, obs[o])'
    <2>1. Watched[o] \in Turns /\ ObserverIs(o, obs[o])
      BY OpencodeAssumption DEF OcTaps
    <2> QED BY <2>1 DEF ObserverIs, TurnsGoOn
  <1>2. ASSUME NEW p \in OcPumps PROVE PumpIs(pump[p])'
    <2>1. PumpIs(pump[p])
      BY DEF OcTaps
    <2>2. CASE pump'[p].pc = "idle" /\ pump'[p].resync = None /\ \A t \in Turns : pump'[p].taps[t] = None
      BY <2>2 DEF PumpIs
    <2>3. CASE /\ pump'[p].taps = pump[p].taps /\ pump'[p].pc = pump[p].pc
               /\ pump'[p].turn = pump[p].turn /\ pump'[p].resync = pump[p].resync
      BY <2>1, <2>3 DEF PumpIs, TurnsGoOn
    <2> QED BY <2>2, <2>3 DEF PumpsStay
  <1> QED BY <1>1, <1>2 DEF OcTaps

\* The calls are left alone.
LEMMA OcElsewhere ==
  ASSUME OcInv, UNCHANGED <<call, launching, verdict, unknown>>,
         disp' \in [Turns -> {"none", "live", "terminal"}], nat' \in [Turns -> OcNative],
         \A t \in Turns : /\ disp'[t] = "none" <=> disp[t] = "none"
                          /\ nat'[t].state = "none" <=> nat[t].state = "none"
  PROVE  OcTurnsTyped' /\ OcCalls' /\ OcTurns'
  <1>1. OcTurnsTyped'
    BY DEF OcInv, OcTurnsTyped
  <1>2. OcCalls'
    <2> SUFFICES ASSUME NEW c \in Calls
                 PROVE  CallIs(c, call[c], launching[Ref[c]], disp'[Ref[c]], nat'[Ref[c]].state)
      BY DEF OcCalls, CallIs
    <2>1. Ref[c] \in Turns /\ CallIs(c, call[c], launching[Ref[c]], disp[Ref[c]], nat[Ref[c]].state)
      BY OpencodeAssumption DEF OcInv, OcCalls
    <2> QED BY <2>1 DEF CallIs
  <1>3. OcTurns'
    BY DEF OcInv, OcTurns
  <1> QED BY <1>1, <1>2, <1>3

\* A step of a call.
LEMMA OcCallSteps ==
  ASSUME OcInv, NEW c \in Calls, NEW k, NEW l, NEW d, NEW n, NEW v,
         OcCallBecomes(c, k), OcTurnBecomes(Ref[c], l, d, n, v), OcAllowed(c, k, l, d, n, v),
         OcPumpsTyped', OcServerTyped', PumpsStay, UNCHANGED obs
  PROVE  OcInv'
  <1> DEFINE t == Ref[c]
  <1>1. t \in Turns /\ \A e \in Calls : Ref[e] \in Turns
    BY OpencodeAssumption
  <1>2. OcTurnsTyped'
    BY DEF OcTurnsTyped, OcCallBecomes, OcTurnBecomes
  <1>3. \A e \in Calls : CallIs(e, call[e], launching[Ref[e]], disp[Ref[e]], nat[Ref[e]].state)
    BY DEF OcInv, OcCalls
  <1>4. OcCalls'
    <2> SUFFICES ASSUME NEW e \in Calls
                 PROVE  CallIs(e, call'[e], launching'[Ref[e]], disp'[Ref[e]], nat'[Ref[e]].state)
      BY DEF OcCalls, CallIs
    <2>1. CASE e = c
      BY <2>1 DEF OcCallBecomes, OcTurnBecomes, OcAllowed
    <2>2. CASE e # c /\ Ref[e] # t
      <3>1. /\ call'[e] = call[e] /\ launching'[Ref[e]] = launching[Ref[e]]
            /\ disp'[Ref[e]] = disp[Ref[e]] /\ nat'[Ref[e]] = nat[Ref[e]]
        BY <1>1, <2>2 DEF OcCallBecomes, OcTurnBecomes
      <3> QED BY <1>3, <3>1
    <2>3. CASE e # c /\ Ref[e] = t
      <3>1. call'[e] = call[e] /\ launching'[t] = l /\ disp'[t] = d /\ nat'[t] = n
        BY <2>3 DEF OcCallBecomes, OcTurnBecomes
      <3>2. /\ CallIs(e, call[e], launching[t], disp[t], nat[t].state)
            /\ CallIs(c, call[c], launching[t], disp[t], nat[t].state)
        BY <1>3, <2>3
      <3>3. e # None
        BY OpencodeAssumption
      <3>4. CASE call[c].pc \in Holding
        <4>1. call[e].pc \notin Holding
          BY <2>3, <3>2, <3>4 DEF CallIs
        <4> QED BY <2>3, <3>1, <3>2, <4>1 DEF CallIs, Holding
      <3>5. CASE /\ d = disp[t] /\ n = nat[t]
                 /\ l = launching[t] \/ launching[t] = None
        BY <2>3, <3>1, <3>2, <3>3, <3>5 DEF CallIs
      <3> QED BY <3>4, <3>5 DEF OcAllowed
    <2> QED BY <2>1, <2>2, <2>3
  <1>5. ASSUME NEW e \in Calls, call[e].outcome # None PROVE call'[e].outcome = call[e].outcome
    BY <1>5 DEF OcCallBecomes, OcAllowed
  <1>6. OcTurns'
    <2>0. None # "rejected" /\ None \notin Submitted
      BY OpencodeAssumption, CodexAssumption DEF Submitted
    <2> SUFFICES ASSUME NEW u \in Turns
                 PROVE  /\ disp'[u] # "none" => nat'[u].state # "none"
                        /\ verdict'[u] = "rejected" => \E e \in Calls : Ref[e] = u /\ call'[e].outcome = "rejected"
                        /\ nat'[u].state # "none" =>
                             /\ \E e \in Calls : Ref[e] = u /\ call'[e].outcome \in Submitted
                             /\ \/ disp'[u] # "none" \/ u \in unknown'
                                \/ \E e \in Calls : Ref[e] = u /\ call'[e].pc = "finish" /\ call'[e].outcome \in Submitted
      BY DEF OcTurns
    <2>1. /\ disp[u] # "none" => nat[u].state # "none"
          /\ verdict[u] = "rejected" => \E e \in Calls : Ref[e] = u /\ call[e].outcome = "rejected"
          /\ nat[u].state # "none" =>
               /\ \E e \in Calls : Ref[e] = u /\ call[e].outcome \in Submitted
               /\ \/ disp[u] # "none" \/ u \in unknown
                  \/ \E e \in Calls : Ref[e] = u /\ call[e].pc = "finish" /\ call[e].outcome \in Submitted
      BY DEF OcInv, OcTurns
    <2>2. CASE u # t
      <3>1. /\ disp'[u] = disp[u] /\ nat'[u] = nat[u] /\ verdict'[u] = verdict[u]
            /\ u \in unknown => u \in unknown'
            /\ \A e \in Calls : Ref[e] = u => call'[e] = call[e]
        BY <2>2 DEF OcTurnBecomes, OcCallBecomes, OcAllowed
      <3> QED BY <2>1, <3>1
    <2>3. CASE u = t
      <3>1. /\ disp'[u] = d /\ nat'[u] = n /\ verdict'[u] = v /\ call'[c] = k
            /\ \A e \in Calls \ {c} : call'[e] = call[e]
        BY <2>3 DEF OcTurnBecomes, OcCallBecomes
      <3>2. disp'[u] # "none" => nat'[u].state # "none"
        BY <3>1 DEF OcAllowed
      <3>3. verdict'[u] = "rejected" => \E e \in Calls : Ref[e] = u /\ call'[e].outcome = "rejected"
        <4>1. CASE k.outcome = "rejected"
          BY <2>3, <3>1, <4>1
        <4>2. CASE k.outcome # "rejected"
          <5>1. v = "rejected" => verdict[u] = "rejected"
            BY <2>3, <4>2 DEF OcAllowed
          <5> QED BY <1>5, <2>0, <2>1, <3>1, <5>1
        <4> QED BY <4>1, <4>2
      <3>4. ASSUME n.state # "none" PROVE \E e \in Calls : Ref[e] = u /\ call'[e].outcome \in Submitted
        <4>1. CASE k.outcome \in Submitted
          BY <2>3, <3>1, <4>1
        <4>2. CASE nat[u].state # "none"
          BY <1>5, <2>0, <2>1, <4>2
        <4> QED BY <2>3, <3>4, <4>1, <4>2 DEF OcAllowed
      <3>5. ASSUME n.state # "none"
            PROVE  \/ d # "none" \/ u \in unknown'
                   \/ \E e \in Calls : Ref[e] = u /\ call'[e].pc = "finish" /\ call'[e].outcome \in Submitted
        <4>1. CASE k.pc = "finish" /\ k.outcome \in Submitted
          BY <2>3, <3>1, <4>1
        <4>2. CASE call[c].pc \notin Holding
          <5>1. d = disp[u] /\ n = nat[u] /\ unknown' = unknown /\ call[c].pc # "finish"
            BY <2>3, <4>2 DEF OcAllowed, Holding
          <5> QED BY <2>1, <3>1, <3>5, <5>1
        <4> QED BY <2>3, <3>5, <4>1, <4>2 DEF OcAllowed
      <3> QED BY <3>1, <3>2, <3>3, <3>4, <3>5
    <2> QED BY <2>2, <2>3
  <1>7. TurnsGoOn
    BY DEF OcAllowed, OcTurnBecomes, TurnsGoOn
  <1>8. OcTaps'
    BY <1>7, OcTapsStay DEF OcInv
  <1> QED BY <1>2, <1>4, <1>6, <1>8 DEF OcInv

-----------------------------------------------------------------------------
(* Opencode: the steps of a call.                                          *)

\* The values of one call and of its turn.
LEMMA OcAt ==
  ASSUME OcInv, NEW c \in Calls
  PROVE  /\ Ref[c] \in Turns /\ call[c] \in OcCall /\ OcTurnsTyped /\ OcPumpsTyped /\ OcServerTyped
         /\ CallIs(c, call[c], launching[Ref[c]], disp[Ref[c]], nat[Ref[c]].state)
         /\ nat[Ref[c]] \in OcNative /\ disp[Ref[c]] \in {"none", "live", "terminal"}
         /\ launching[Ref[c]] \in Calls \cup {None} /\ verdict[Ref[c]] \in OcAnswers
         /\ disp[Ref[c]] # "none" => nat[Ref[c]].state # "none"
  BY OpencodeAssumption DEF OcInv, OcTurnsTyped, OcCalls, OcTurns

\* A call that is set.
LEMMA OcSetCall ==
  ASSUME OcInv, NEW c \in Calls, NEW k \in OcCall, call' = [call EXCEPT ![c] = k]
  PROVE  OcCallBecomes(c, k)
  BY DEF OcInv, OcTurnsTyped, OcCallBecomes

\* A turn that is left alone, but for its reservation and its verdict.
LEMMA OcSetTurn ==
  ASSUME OcInv, NEW t \in Turns, NEW l \in Calls \cup {None}, NEW v \in OcAnswers, UNCHANGED <<disp, nat>>,
         (UNCHANGED launching /\ l = launching[t]) \/ launching' = [launching EXCEPT ![t] = l],
         (UNCHANGED verdict /\ v = verdict[t]) \/ verdict' = [verdict EXCEPT ![t] = v]
  PROVE  OcTurnBecomes(t, l, disp[t], nat[t], v)
  BY DEF OcInv, OcTurnsTyped, OcTurnBecomes

\* The pumps are left alone.
LEMMA OcPumpsKept ==
  ASSUME OcInv, UNCHANGED Opencode!pumpVars
  PROVE  OcPumpsTyped' /\ PumpsStay /\ UNCHANGED obs
  BY DEF OcInv, OcPumpsTyped, PumpsStay, Opencode!pumpVars

\* Who holds a turn's reservation and has no outcome yet finds it taken up only if it is unknown.
LEMMA OcHolds ==
  ASSUME OcInv, NEW c \in Calls, call[c].pc \in Holding, call[c].pc # "finish", nat[Ref[c]].state # "none"
  PROVE  Ref[c] \in unknown
  <1>1. /\ Ref[c] \in Turns
        /\ CallIs(c, call[c], launching[Ref[c]], disp[Ref[c]], nat[Ref[c]].state)
    BY OcAt
  <1>2. \A e \in Calls : CallIs(e, call[e], launching[Ref[e]], disp[Ref[e]], nat[Ref[e]].state)
    BY DEF OcInv, OcCalls
  <1>3. \A e \in Calls : Ref[e] = Ref[c] => call[e].pc # "finish"
    BY <1>1, <1>2 DEF CallIs, Holding
  <1> QED BY <1>1, <1>3 DEF OcInv, OcTurns, CallIs

\* A step of a call that moves nothing of its turn.
LEMMA OcMovesOn ==
  ASSUME OcInv, NEW c \in Calls, NEW k \in OcCall, call' = [call EXCEPT ![c] = k], call[c].pc # "finish",
         UNCHANGED <<launching, disp, nat, verdict, unknown, Opencode!pumpVars>>, OcServerTyped',
         k.outcome = call[c].outcome \/ call[c].outcome = None,
         CallIs(c, k, launching[Ref[c]], disp[Ref[c]], nat[Ref[c]].state)
  PROVE  OcInv'
  <1> DEFINE t == Ref[c]
  <1>1. /\ t \in Turns /\ launching[t] \in Calls \cup {None} /\ verdict[t] \in OcAnswers
        /\ disp[t] # "none" => nat[t].state # "none"
    BY OcAt
  <1>2. OcCallBecomes(c, k)
    BY OcSetCall
  <1>3. OcTurnBecomes(t, launching[t], disp[t], nat[t], verdict[t])
    BY <1>1, OcSetTurn
  <1>4. OcPumpsTyped' /\ PumpsStay /\ UNCHANGED obs
    BY OcPumpsKept
  <1>5. nat[t].state # "none" => t \in unknown' \/ call[c].pc \notin Holding
    BY OcHolds
  <1>6. OcAllowed(c, k, launching[t], disp[t], nat[t], verdict[t])
    BY <1>1, <1>5 DEF OcAllowed
  <1> QED BY <1>2, <1>3, <1>4, <1>6, OcCallSteps

\* A call that goes on, or ends, without an outcome of its own.
LEMMA OcCallGoes ==
  ASSUME OcInv, NEW c \in Calls,
         \/ Opencode!NoAttempt(c) \/ Opencode!Dispatch(c) \/ Opencode!Launched(c) \/ Opencode!Join(c)
         \/ Opencode!ReleaseSlot(c)
  PROVE  OcInv'
  <1>1. /\ UNCHANGED <<launching, disp, nat, verdict, unknown, Opencode!pumpVars>>
    BY DEF Opencode!NoAttempt, Opencode!Dispatch, Opencode!Launched, Opencode!Join, Opencode!ReleaseSlot,
           Opencode!DispatchRest, Opencode!Goto, Opencode!pumpVars
  <1>2. call[c] \in OcCall /\ OcServerTyped /\ OcTurnsTyped
        /\ CallIs(c, call[c], launching[Ref[c]], disp[Ref[c]], nat[Ref[c]].state)
    BY OcAt
  <1>3. ASSUME NEW k \in OcCall, call' = [call EXCEPT ![c] = k], call[c].pc # "finish", OcServerTyped',
               k.pc \in {"launch", "await", "reserve", "returned"},
               k.outcome = call[c].outcome \/ call[c].outcome = None, k.pc # "returned" => k.outcome = None
        PROVE  OcInv'
    <2>1. CallIs(c, k, launching[Ref[c]], disp[Ref[c]], nat[Ref[c]].state)
      BY <1>3 DEF CallIs, Before, Holding
    <2> QED BY <1>1, <1>3, <2>1, OcMovesOn
  <1>4. ASSUME NEW v \in OcAnswers, call' = [call EXCEPT ![c] = Opencode!Return(@, v)],
               call[c].pc \in {"idle", "join"}, UNCHANGED <<child, gens>>
        PROVE  OcInv'
    <2> DEFINE k == Opencode!Return(call[c], v)
    <2>1. k \in OcCall /\ k.pc = "returned" /\ k.outcome = v
      BY <1>2 DEF OcCall, OcPcs, OcGens, Opencode!Return
    <2>2. call' = [call EXCEPT ![c] = k]
      BY <1>4
    <2>3. OcServerTyped' /\ call[c].outcome = None
      BY <1>2, <1>4 DEF OcServerTyped, CallIs, Before
    <2> HIDE DEF k
    <2> QED BY <1>3, <1>4, <2>1, <2>2, <2>3
  <1>5. ASSUME NEW l \in {"launch", "await", "returned"}, Opencode!Goto(c, l), OcServerTyped',
               call[c].pc \in {"idle", "launch", "release"}, call[c].pc = "release" => l = "returned"
        PROVE  OcInv'
    <2> DEFINE k == [call[c] EXCEPT !.pc = l]
    <2>1. k \in OcCall /\ k.pc = l /\ k.outcome = call[c].outcome
      BY <1>2 DEF OcCall, OcPcs
    <2>2. call' = [call EXCEPT ![c] = k]
      BY <1>5 DEF Opencode!Goto
    <2>3. l # "returned" => call[c].outcome = None
      BY <1>2, <1>5 DEF CallIs, Before
    <2> HIDE DEF k
    <2> QED BY <1>3, <1>5, <2>1, <2>2, <2>3
  <1>6. ASSUME NEW g \in OcGens, Opencode!WithClient(c, g), OcServerTyped', call[c].pc \in {"idle", "await"}
        PROVE  OcInv'
    <2> DEFINE k == [call[c] EXCEPT !.pc = "reserve", !.gen = g]
    <2>1. k \in OcCall /\ k.pc = "reserve" /\ k.outcome = call[c].outcome
      BY <1>2 DEF OcCall, OcPcs
    <2>2. call' = [call EXCEPT ![c] = k]
      BY <1>6 DEF Opencode!WithClient
    <2>3. call[c].outcome = None
      BY <1>2, <1>6 DEF CallIs, Before
    <2> HIDE DEF k
    <2> QED BY <1>3, <1>6, <2>1, <2>2, <2>3
  <1>7. CASE Opencode!NoAttempt(c)
    BY <1>4, <1>7 DEF Opencode!NoAttempt, OcAnswers, Opencode!serverVars
  <1>8. CASE Opencode!Dispatch(c)
    <2>1. OcServerTyped' /\ child \in OcGens /\ call[c].pc = "idle"
      BY <1>2, <1>8 DEF Opencode!Dispatch, OcServerTyped
    <2>2. Opencode!WithClient(c, child) \/ Opencode!Goto(c, "await") \/ Opencode!Goto(c, "launch")
      BY <1>8 DEF Opencode!Dispatch
    <2> QED BY <1>5, <1>6, <2>1, <2>2
  <1>9. CASE Opencode!Launched(c)
    <2>1. Opencode!Goto(c, "await") /\ call[c].pc = "launch" /\ gens < MaxGen /\ gens' = gens + 1 /\ child' = gens'
      BY <1>9 DEF Opencode!Launched
    <2>2. OcServerTyped'
      BY <1>2, <2>1, CodexServerAssumption DEF OcServerTyped, OcGens, Gens
    <2> QED BY <1>5, <2>1, <2>2
  <1>10. CASE Opencode!Join(c)
    <2>1. /\ call[c].pc = "join" /\ UNCHANGED <<child, gens>> /\ call[call[c].joined].shared # None
          /\ call' = [call EXCEPT ![c] = Opencode!Return(@, call[call[c].joined].shared)]
      BY <1>10 DEF Opencode!Join, Opencode!serverVars
    <2>2. call[c].joined \in Calls
      BY <1>2, <2>1 DEF CallIs
    <2>3. call[call[c].joined].shared \in OcAnswers
      BY <1>2, <2>2 DEF OcTurnsTyped, OcCall
    <2> QED BY <1>4, <2>1, <2>3
  <1>11. CASE Opencode!ReleaseSlot(c)
    <2>1. Opencode!Goto(c, "returned") /\ call[c].pc = "release" /\ OcServerTyped'
      BY <1>2, <1>11 DEF Opencode!ReleaseSlot, Opencode!serverVars, OcServerTyped
    <2> QED BY <1>5, <2>1
  <1> QED BY <1>7, <1>8, <1>9, <1>10, <1>11

\* A call that ends with a rejection: the turn was not prompted by it.
LEMMA OcRejects ==
  ASSUME OcInv, NEW c \in Calls,
         Opencode!LaunchFails(c) \/ Opencode!LookUpChild(c) \/ Opencode!SlotWaitCancelled(c)
  PROVE  OcInv'
  <1> DEFINE t == Ref[c]
  <1>1. /\ t \in Turns /\ call[c] \in OcCall /\ OcServerTyped /\ launching[t] \in Calls \cup {None}
        /\ verdict[t] \in OcAnswers /\ (disp[t] # "none" => nat[t].state # "none")
        /\ CallIs(c, call[c], launching[t], disp[t], nat[t].state)
    BY OcAt
  <1>2. /\ call[c].pc \in {"launch", "await", "slot"} /\ UNCHANGED <<child, gens, Opencode!pumpVars, nat>>
    BY DEF Opencode!LaunchFails, Opencode!LookUpChild, Opencode!SlotWaitCancelled, Opencode!DispatchRest,
           Opencode!serverVars
  <1>3. OcServerTyped' /\ OcPumpsTyped' /\ PumpsStay /\ UNCHANGED obs
    BY <1>1, <1>2, OcPumpsKept DEF OcServerTyped
  <1>4. ASSUME NEW k \in OcCall, call' = [call EXCEPT ![c] = k], k.pc = "returned", k.outcome = "rejected",
               NEW l \in Calls \cup {None}, UNCHANGED <<disp, unknown>>,
               (UNCHANGED launching /\ l = launching[t]) \/ launching' = [launching EXCEPT ![t] = l],
               l = launching[t] \/ call[c].pc \in Holding,
               verdict' = [verdict EXCEPT ![t] = "rejected"]
        PROVE  OcInv'
    <2>1. OcCallBecomes(c, k)
      BY <1>4, OcSetCall
    <2>2. "rejected" \in OcAnswers
      BY DEF OcAnswers
    <2>3. OcTurnBecomes(t, l, disp[t], nat[t], "rejected")
      BY <1>1, <1>2, <1>4, <2>2, OcSetTurn
    <2>4. nat[t].state # "none" => t \in unknown' \/ call[c].pc \notin Holding
      BY <1>2, <1>4, OcHolds
    <2>5. call[c].outcome = None
      BY <1>1, <1>2 DEF CallIs, Before
    <2>6. CallIs(c, k, l, disp[t], nat[t].state)
      BY <1>4 DEF CallIs, Before, Holding
    <2>7. OcAllowed(c, k, l, disp[t], nat[t], "rejected")
      BY <1>1, <1>4, <2>4, <2>5, <2>6 DEF OcAllowed
    <2> QED BY <1>3, <2>1, <2>3, <2>7, OcCallSteps
  <1> DEFINE k == Opencode!Return(call[c], "rejected")
  <1>5. k \in OcCall /\ k.pc = "returned" /\ k.outcome = "rejected"
    BY <1>1 DEF OcCall, OcPcs, OcGens, OcAnswers, Opencode!Return
  <1>6. ASSUME Opencode!RejectEarly(c) PROVE OcInv'
    <2>1. call' = [call EXCEPT ![c] = k] /\ verdict' = [verdict EXCEPT ![t] = "rejected"]
          /\ UNCHANGED <<launching, disp, unknown>>
      BY <1>6 DEF Opencode!RejectEarly
    <2> HIDE DEF k
    <2> QED BY <1>1, <1>4, <1>5, <2>1
  <1>7. CASE Opencode!LaunchFails(c)
    BY <1>6, <1>7 DEF Opencode!LaunchFails
  <1>8. CASE Opencode!LookUpChild(c)
    <2>1. CASE child = None /\ Opencode!RejectEarly(c)
      BY <1>6, <2>1
    <2>2. CASE /\ Opencode!WithClient(c, child) /\ UNCHANGED <<launching, disp, unknown, verdict>>
      <3> DEFINE kk == [call[c] EXCEPT !.pc = "reserve", !.gen = child]
      <3>1. kk \in OcCall /\ kk.pc = "reserve" /\ kk.outcome = call[c].outcome
        BY <1>1 DEF OcCall, OcPcs, OcServerTyped
      <3>2. call' = [call EXCEPT ![c] = kk]
        BY <2>2 DEF Opencode!WithClient
      <3>3. call[c].outcome = None /\ call[c].pc # "finish"
        BY <1>1, <1>2 DEF CallIs, Before
      <3>4. CallIs(c, kk, launching[t], disp[t], nat[t].state)
        BY <3>1, <3>3 DEF CallIs, Holding
      <3> HIDE DEF kk
      <3> QED BY <1>2, <1>3, <2>2, <3>1, <3>2, <3>3, <3>4, OcMovesOn
    <2> QED BY <1>8, <2>1, <2>2 DEF Opencode!LookUpChild
  <1>9. CASE Opencode!SlotWaitCancelled(c)
    <2> DEFINE z == [k EXCEPT !.shared = "zero"]
    <2>1. z \in OcCall /\ z.pc = "returned" /\ z.outcome = "rejected"
      BY <1>5 DEF OcCall, OcAnswers
    <2>2. call' = [call EXCEPT ![c] = z]
      BY <1>9 DEF Opencode!SlotWaitCancelled
    <2>3. /\ launching' = [launching EXCEPT ![t] = None] /\ verdict' = [verdict EXCEPT ![t] = "rejected"]
          /\ UNCHANGED <<disp, unknown>> /\ call[c].pc \in Holding
      BY <1>9 DEF Opencode!SlotWaitCancelled, Holding
    <2> HIDE DEF z, k
    <2> QED BY <1>4, <2>1, <2>2, <2>3
  <1> QED BY <1>7, <1>8, <1>9

\* The reservation.
LEMMA OcReserves ==
  ASSUME OcInv, NEW c \in Calls, Opencode!Reserve(c)
  PROVE  OcInv'
  <1> DEFINE t == Ref[c]
  <1>1. /\ t \in Turns /\ call[c] \in OcCall /\ OcServerTyped /\ launching[t] \in Calls \cup {None}
        /\ verdict[t] \in OcAnswers /\ (disp[t] # "none" => nat[t].state # "none")
        /\ CallIs(c, call[c], launching[t], disp[t], nat[t].state)
    BY OcAt
  <1>2. /\ call[c].pc = "reserve" /\ UNCHANGED <<child, gens, disp, nat, unknown, verdict, Opencode!pumpVars>>
    BY DEF Opencode!Reserve, Opencode!DispatchRest, Opencode!serverVars
  <1>3. OcServerTyped' /\ OcPumpsTyped' /\ PumpsStay /\ UNCHANGED obs /\ call[c].outcome = None
    BY <1>1, <1>2, OcPumpsKept DEF OcServerTyped, CallIs, Before
  <1>4. CASE /\ call' = [call EXCEPT ![c] = Opencode!Return(@, "accepted")] /\ UNCHANGED launching
    <2> DEFINE k == Opencode!Return(call[c], "accepted")
    <2>1. k \in OcCall /\ k.pc = "returned"
      BY <1>1 DEF OcCall, OcPcs, OcGens, OcAnswers, Opencode!Return
    <2>2. call' = [call EXCEPT ![c] = k]
      BY <1>4
    <2> HIDE DEF k
    <2>3. CallIs(c, k, launching[t], disp[t], nat[t].state)
      BY <2>1 DEF CallIs, Before, Holding
    <2> QED BY <1>2, <1>3, <1>4, <2>1, <2>2, <2>3, OcMovesOn
  <1>5. CASE /\ launching[t] # None /\ UNCHANGED launching
             /\ call' = [call EXCEPT ![c].pc = "join", ![c].joined = launching[t]]
    <2> DEFINE k == [call[c] EXCEPT !.pc = "join", !.joined = launching[t]]
    <2>1. k \in OcCall /\ k.pc = "join" /\ k.outcome = None /\ k.joined \in Calls
      BY <1>1, <1>3, <1>5 DEF OcCall, OcPcs
    <2>2. call' = [call EXCEPT ![c] = k]
      BY <1>5
    <2> HIDE DEF k
    <2>3. CallIs(c, k, launching[t], disp[t], nat[t].state)
      BY <2>1 DEF CallIs, Before, Holding
    <2> QED BY <1>2, <1>3, <1>5, <2>1, <2>2, <2>3, OcMovesOn
  <1>6. CASE /\ disp[t] = "none" /\ launching[t] = None
             /\ launching' = [launching EXCEPT ![t] = c] /\ Opencode!Goto(c, "slot")
    <2> DEFINE k == [call[c] EXCEPT !.pc = "slot"]
    <2>1. k \in OcCall /\ k.pc = "slot" /\ k.outcome = None
      BY <1>1, <1>3 DEF OcCall, OcPcs
    <2>2. call' = [call EXCEPT ![c] = k]
      BY <1>6 DEF Opencode!Goto
    <2> HIDE DEF k
    <2>3. CallIs(c, k, c, disp[t], nat[t].state)
      BY <1>6, <2>1 DEF CallIs
    <2>4. OcCallBecomes(c, k)
      BY <2>1, <2>2, OcSetCall
    <2>5. OcTurnBecomes(t, c, disp[t], nat[t], verdict[t])
      <3>1. c \in Calls \cup {None}
        OBVIOUS
      <3> QED BY <1>1, <1>2, <1>6, <3>1, OcSetTurn
    <2>6. call[c].pc \notin Holding
      BY <1>2 DEF Holding
    <2>7. OcAllowed(c, k, c, disp[t], nat[t], verdict[t])
      BY <1>1, <1>2, <1>3, <1>6, <2>1, <2>3, <2>6 DEF OcAllowed
    <2> QED BY <1>3, <2>4, <2>5, <2>7, OcCallSteps
  <1> QED BY <1>4, <1>5, <1>6 DEF Opencode!Reserve

\* The slot is taken, and an ambiguous attempt is looked up: the prompt is sent at most once.
LEMMA OcAcquires ==
  ASSUME OcInv, NEW c \in Calls, Opencode!AcquireSlot(c) \/ Opencode!VerifyPrior(c)
  PROVE  OcInv'
  <1> DEFINE t == Ref[c]
  <1>1. /\ t \in Turns /\ call[c] \in OcCall /\ OcServerTyped
        /\ CallIs(c, call[c], launching[t], disp[t], nat[t].state)
    BY OcAt
  <1>2. /\ call[c].pc \in {"slot", "verify"}
        /\ UNCHANGED <<child, gens, launching, disp, nat, unknown, verdict, Opencode!pumpVars>>
    BY DEF Opencode!AcquireSlot, Opencode!VerifyPrior, Opencode!DispatchRest, Opencode!NativeRest,
           Opencode!serverVars
  <1>3. OcServerTyped' /\ call[c].outcome = None /\ launching[t] = c /\ disp[t] = "none"
    BY <1>1, <1>2 DEF OcServerTyped, CallIs, Before, Holding
  <1>4. ASSUME NEW l \in {"verify", "prompt"}, Opencode!Goto(c, l), l = "prompt" => nat[t].state = "none"
        PROVE  OcInv'
    <2> DEFINE k == [call[c] EXCEPT !.pc = l]
    <2>1. k \in OcCall /\ k.pc = l /\ k.outcome = None
      BY <1>1, <1>3 DEF OcCall, OcPcs
    <2>2. call' = [call EXCEPT ![c] = k]
      BY <1>4 DEF Opencode!Goto
    <2> HIDE DEF k
    <2>3. CallIs(c, k, launching[t], disp[t], nat[t].state)
      BY <1>3, <1>4, <2>1 DEF CallIs
    <2> QED BY <1>2, <1>3, <2>1, <2>2, <2>3, OcMovesOn
  <1>5. ASSUME NEW v \in {"accepted", "unknown"}, Opencode!Outcome(c, v), v = "accepted" => nat[t].state # "none"
        PROVE  OcInv'
    <2> DEFINE k == [call[c] EXCEPT !.pc = "finish", !.outcome = v]
    <2>1. k \in OcCall /\ k.pc = "finish" /\ k.outcome = v
      BY <1>1 DEF OcCall, OcPcs, OcAnswers
    <2>2. call' = [call EXCEPT ![c] = k]
      BY <1>5 DEF Opencode!Outcome
    <2> HIDE DEF k
    <2>3. CallIs(c, k, launching[t], disp[t], nat[t].state)
      BY <1>3, <1>5, <2>1 DEF CallIs, Before
    <2> QED BY <1>2, <1>3, <2>1, <2>2, <2>3, OcMovesOn
  <1>6. CASE Opencode!AcquireSlot(c)
    <2>1. call[c].pc = "slot" /\ Opencode!Goto(c, IF t \in unknown THEN "verify" ELSE "prompt")
      BY <1>6 DEF Opencode!AcquireSlot
    <2>2. t \notin unknown => nat[t].state = "none"
      BY <2>1, OcHolds DEF Holding
    <2> QED BY <1>4, <2>1, <2>2
  <1>7. CASE Opencode!VerifyPrior(c)
    BY <1>4, <1>5, <1>7 DEF Opencode!VerifyPrior
  <1> QED BY <1>6, <1>7

\* The prompt is sent.
LEMMA OcPrompts ==
  ASSUME OcInv, NEW c \in Calls, Opencode!PromptAsync(c)
  PROVE  OcInv'
  <1> DEFINE t == Ref[c]
  <1>1. /\ t \in Turns /\ call[c] \in OcCall /\ OcServerTyped /\ OcTurnsTyped
        /\ launching[t] \in Calls \cup {None} /\ verdict[t] \in OcAnswers
        /\ CallIs(c, call[c], launching[t], disp[t], nat[t].state)
    BY OcAt
  <1>2. /\ call[c].pc = "prompt"
        /\ UNCHANGED <<child, gens, launching, disp, unknown, verdict, Opencode!pumpVars>>
    BY DEF Opencode!PromptAsync, Opencode!NativeRest, Opencode!serverVars
  <1>3. OcServerTyped' /\ OcPumpsTyped' /\ PumpsStay /\ UNCHANGED obs
    BY <1>1, <1>2, OcPumpsKept DEF OcServerTyped
  <1>4. /\ call[c].outcome = None /\ launching[t] = c /\ disp[t] = "none" /\ nat[t].state = "none"
        /\ call[c].pc \in Holding /\ call[c].pc # "finish"
    BY <1>1, <1>2 DEF CallIs, Before, Holding
  <1> DEFINE k(v) == [call[c] EXCEPT !.pc = "finish", !.outcome = v]
  <1>5. ASSUME NEW v \in {"accepted", "rejected", "unknown"}
        PROVE  k(v) \in OcCall /\ k(v).pc = "finish" /\ k(v).outcome = v
    BY <1>1 DEF OcCall, OcPcs, OcAnswers
  <1>6. ASSUME NEW v \in {"rejected", "unknown"}, Opencode!Outcome(c, v), UNCHANGED nat PROVE OcInv'
    <2>1. call' = [call EXCEPT ![c] = k(v)]
      BY <1>6 DEF Opencode!Outcome
    <2>2. k(v) \in OcCall /\ k(v).pc = "finish" /\ k(v).outcome = v
      BY <1>5
    <2> HIDE DEF k
    <2>3. CallIs(c, k(v), launching[t], disp[t], nat[t].state)
      BY <1>4, <1>6, <2>2 DEF CallIs, Before
    <2> QED BY <1>2, <1>3, <1>4, <1>6, <2>1, <2>2, <2>3, OcMovesOn
  <1>7. ASSUME NEW v \in {"accepted", "unknown"}, Opencode!Outcome(c, v), Opencode!Record(c) PROVE OcInv'
    <2> DEFINE n == [state |-> "active", gen |-> call[c].gen]
    <2>1. OcCallBecomes(c, k(v))
      BY <1>5, <1>7, OcSetCall DEF Opencode!Outcome
    <2>2. n \in OcNative /\ n.state = "active"
      BY <1>1 DEF OcNative, OcCall
    <2>3. OcTurnBecomes(t, launching[t], disp[t], n, verdict[t])
      BY <1>1, <1>2, <1>7, <2>2 DEF OcTurnBecomes, OcTurnsTyped, Opencode!Record
    <2>4. k(v).pc = "finish" /\ k(v).outcome = v
      BY <1>5
    <2> HIDE DEF k, n
    <2>5. CallIs(c, k(v), launching[t], disp[t], n.state)
      BY <1>4, <1>7, <2>2, <2>4 DEF CallIs, Before
    <2>6. OcAllowed(c, k(v), launching[t], disp[t], n, verdict[t])
      BY <1>2, <1>4, <1>7, <2>2, <2>4, <2>5 DEF OcAllowed, Submitted
    <2> QED BY <1>3, <2>1, <2>3, <2>6, OcCallSteps
  <1> QED BY <1>6, <1>7 DEF Opencode!PromptAsync

\* The session's pump, which is made when there is none.
LEMMA OcPumpRuns ==
  ASSUME OcInv, NEW g \in OcGens, Opencode!EnsurePump(g), obs' \in [Observers -> OcObserver]
  PROVE  /\ OcPumpsTyped' /\ PumpsStay
         /\ current' \in OcPumps
  <1>1. OcPumpsTyped
    BY DEF OcInv
  <1>2. CASE current # None
    BY <1>1, <1>2 DEF Opencode!EnsurePump, OcPumpsTyped, PumpsStay
  <1>3. CASE current = None
    <2> DEFINE q == pumps + 1
               z == Opencode!NewPump(g)
    <2>1. /\ q \in OcPumps /\ pumps' = q /\ current' = q /\ q \in Nat
          /\ pump' = [pump EXCEPT ![q] = z]
      BY <1>1, <1>3, OpencodeAssumption DEF Opencode!EnsurePump, OcPumpsTyped, OcPumps
    <2>2. z \in OcPump /\ z.pc = "idle" /\ z.resync = None /\ \A t \in Turns : z.taps[t] = None
      BY DEF Opencode!NewPump, OcPump
    <2> HIDE DEF z, q
    <2> QED BY <1>1, <2>1, <2>2 DEF OcPumpsTyped, PumpsStay
  <1> QED BY <1>2, <1>3

\* The outcome is published: an accepted turn was taken up, a rejected one was not.
LEMMA OcPublishes ==
  ASSUME OcInv, NEW c \in Calls, Opencode!FinishDispatch(c)
  PROVE  OcInv'
  <1> DEFINE t == Ref[c]
             v == call[c].outcome
             l == IF v = "rejected" THEN "release" ELSE "returned"
             d == IF v = "accepted" THEN "live" ELSE disp[t]
             k == [Opencode!Return(call[c], v) EXCEPT !.shared = v, !.pc = l]
  <1>1. /\ t \in Turns /\ call[c] \in OcCall /\ OcServerTyped /\ OcTurnsTyped /\ OcPumpsTyped
        /\ CallIs(c, call[c], launching[t], disp[t], nat[t].state)
    BY OcAt
  <1>2. /\ call[c].pc = "finish" /\ UNCHANGED <<child, gens, nat, obs>>
        /\ launching' = [launching EXCEPT ![t] = None] /\ verdict' = [verdict EXCEPT ![t] = v]
        /\ unknown' = CASE v = "accepted" -> unknown \ {t}
                        [] v = "unknown" -> unknown \cup {t}
                        [] OTHER -> unknown
        /\ IF v = "accepted"
           THEN disp' = [disp EXCEPT ![t] = "live"] /\ Opencode!EnsurePump(call[c].gen)
           ELSE UNCHANGED <<disp, pump, pumps, current>>
    BY DEF Opencode!FinishDispatch, Opencode!serverVars
  <1>3. /\ v \in {"accepted", "rejected", "unknown"} /\ disp[t] = "none" /\ call[c].pc \in Holding
        /\ (v = "accepted" => nat[t].state # "none") /\ (v = "rejected" => nat[t].state = "none")
    BY <1>1, <1>2 DEF CallIs, Holding
  <1>4. OcServerTyped' /\ OcPumpsTyped' /\ PumpsStay /\ UNCHANGED obs
    <2>1. CASE v = "accepted"
      <3>1. Opencode!EnsurePump(call[c].gen) /\ call[c].gen \in OcGens /\ obs' \in [Observers -> OcObserver]
        BY <1>1, <1>2, <2>1 DEF OcCall, OcPumpsTyped
      <3> QED BY <1>1, <1>2, <3>1, OcPumpRuns DEF OcServerTyped
    <2>2. CASE v # "accepted"
      BY <1>1, <1>2, <2>2 DEF OcServerTyped, OcPumpsTyped, PumpsStay
    <2> QED BY <2>1, <2>2
  <1>5. call' = [call EXCEPT ![c] = k]
    BY DEF Opencode!FinishDispatch, Opencode!Return
  <1>6. k \in OcCall /\ k.pc = l /\ k.outcome = v
    BY <1>1, <1>3 DEF OcCall, OcPcs, OcGens, OcAnswers, Opencode!Return
  <1>7. v \in OcAnswers
    BY <1>3 DEF OcAnswers
  <1>8. OcCallBecomes(c, k)
    <2> HIDE DEF k
    <2> QED BY <1>5, <1>6, OcSetCall
  <1>9. OcTurnBecomes(t, None, d, nat[t], v)
    BY <1>1, <1>2, <1>3, <1>7 DEF OcTurnBecomes, OcTurnsTyped
  <1>10. unknown \ {t} \subseteq unknown' /\ (v = "unknown" => t \in unknown')
    BY <1>2, <1>3
  <1> HIDE DEF k
  <1>11. CallIs(c, k, None, d, nat[t].state)
    BY <1>6 DEF CallIs, Before, Holding
  <1>12. OcAllowed(c, k, None, d, nat[t], v)
    BY <1>3, <1>6, <1>10, <1>11 DEF OcAllowed
  <1> QED BY <1>4, <1>8, <1>9, <1>12, OcCallSteps

\* A step of a call keeps what is known of the turns.
LEMMA OcDispatches ==
  ASSUME OcInv, NEW c \in Calls, Opencode!DispatchStep(c)
  PROVE  OcInv'
  BY OcCallGoes, OcRejects, OcReserves, OcAcquires, OcPrompts, OcPublishes DEF Opencode!DispatchStep

-----------------------------------------------------------------------------
(* Opencode: the child, the pumps and the observers.                       *)

\* The observers move; the pumps are new or go on.
LEMMA OcTapsMove ==
  ASSUME OcTaps, TurnsGoOn, PumpsStay,
         \A o \in Observers : (obs[o].got > 0 => obs'[o].got > 0) /\ ObserverIs(o, obs[o])'
  PROVE  OcTaps'
  <1>2. ASSUME NEW p \in OcPumps PROVE PumpIs(pump[p])'
    <2>1. PumpIs(pump[p])
      BY DEF OcTaps
    <2>2. CASE pump'[p].pc = "idle" /\ pump'[p].resync = None /\ \A t \in Turns : pump'[p].taps[t] = None
      BY <2>2 DEF PumpIs
    <2>3. CASE /\ pump'[p].taps = pump[p].taps /\ pump'[p].pc = pump[p].pc
               /\ pump'[p].turn = pump[p].turn /\ pump'[p].resync = pump[p].resync
      <3>1. \A t \in Turns : pump'[p].taps[t] # None => Watched[pump'[p].taps[t]] = t /\ disp'[t] # "none"
        BY <2>1, <2>3 DEF PumpIs, TurnsGoOn
      <3>2. pump'[p].pc # "idle" => pump'[p].turn \in Turns /\ nat'[pump'[p].turn].state = "done"
        BY <2>1, <2>3 DEF PumpIs, TurnsGoOn
      <3>3. pump'[p].resync # None =>
              /\ pump'[p].pc # "idle" /\ Watched[pump'[p].resync] = pump'[p].turn /\ disp'[pump'[p].turn] # "none"
              /\ pump'[p].pc \in {"route", "detach"} => disp'[pump'[p].turn] = "terminal"
        BY <2>1, <2>3 DEF PumpIs, TurnsGoOn
      <3>4. pump'[p].pc = "detach" => \A o \in Observers : Watched[o] = pump'[p].turn => obs'[o].got > 0
        BY <2>1, <2>3 DEF PumpIs
      <3> QED BY <3>1, <3>2, <3>3, <3>4 DEF PumpIs
    <2> QED BY <2>2, <2>3 DEF PumpsStay
  <1> QED BY <1>2 DEF OcTaps

\* What a pump is after the step.
PumpWillBe(k) ==
  /\ \A t \in Turns : k.taps[t] # None => Watched[k.taps[t]] = t /\ disp'[t] # "none"
  /\ k.pc # "idle" => k.turn \in Turns /\ nat'[k.turn].state = "done"
  /\ k.resync # None =>
       /\ k.pc # "idle" /\ Watched[k.resync] = k.turn /\ disp'[k.turn] # "none"
       /\ k.pc \in {"route", "detach"} => disp'[k.turn] = "terminal"
  /\ k.pc = "detach" => \A o \in Observers : Watched[o] = k.turn => obs'[o].got > 0

\* One pump moves.
LEMMA OcPumpMoves ==
  ASSUME OcInv, NEW p \in OcPumps, NEW k \in OcPump, pump' = [pump EXCEPT ![p] = k],
         UNCHANGED <<call, launching, verdict, unknown, nat, child, gens, pumps, current>>,
         disp' \in [Turns -> {"none", "live", "terminal"}],
         \A t \in Turns : disp'[t] = "none" <=> disp[t] = "none",
         \A t \in Turns : disp[t] = "terminal" => disp'[t] = "terminal",
         obs' \in [Observers -> OcObserver],
         \A o \in Observers : (obs[o].got > 0 => obs'[o].got > 0) /\ ObserverIs(o, obs[o])',
         PumpWillBe(k)
  PROVE  OcInv'
  <1>1. OcTurnsTyped' /\ OcCalls' /\ OcTurns'
    BY OcElsewhere DEF OcInv, OcTurnsTyped
  <1>2. OcPumpsTyped' /\ OcServerTyped'
    BY DEF OcInv, OcPumpsTyped, OcServerTyped
  <1>3. TurnsGoOn
    BY DEF TurnsGoOn
  <1>4. ASSUME NEW q \in OcPumps \ {p} PROVE PumpIs(pump[q])'
    <2>1. PumpIs(pump[q]) /\ pump'[q] = pump[q]
      BY DEF OcInv, OcTaps, OcPumpsTyped
    <2>2. \A t \in Turns : pump[q].taps[t] # None => Watched[pump[q].taps[t]] = t /\ disp'[t] # "none"
      BY <2>1 DEF PumpIs
    <2>3. pump[q].pc # "idle" => pump[q].turn \in Turns /\ nat'[pump[q].turn].state = "done"
      BY <2>1 DEF PumpIs
    <2>4. pump[q].resync # None =>
            /\ pump[q].pc # "idle" /\ Watched[pump[q].resync] = pump[q].turn /\ disp'[pump[q].turn] # "none"
            /\ pump[q].pc \in {"route", "detach"} => disp'[pump[q].turn] = "terminal"
      BY <2>1 DEF PumpIs
    <2>5. pump[q].pc = "detach" => \A o \in Observers : Watched[o] = pump[q].turn => obs'[o].got > 0
      BY <2>1 DEF PumpIs
    <2> QED BY <2>1, <2>2, <2>3, <2>4, <2>5 DEF PumpIs
  <1>5. PumpIs(pump[p])'
    BY DEF OcInv, OcPumpsTyped, PumpIs, PumpWillBe
  <1>6. OcTaps'
    BY <1>4, <1>5 DEF OcTaps
  <1> QED BY <1>1, <1>2, <1>6 DEF OcInv

\* An observer is left alone while the turns go on.
LEMMA OcObserved ==
  ASSUME OcInv, NEW o \in Observers, obs'[o] = obs[o],
         \A t \in Turns : disp[t] # "none" => disp'[t] # "none"
  PROVE  ObserverIs(o, obs[o])'
  <1>1. Watched[o] \in Turns /\ ObserverIs(o, obs[o])
    BY OpencodeAssumption DEF OcInv, OcTaps
  <1> QED BY <1>1 DEF ObserverIs

\* The native session and its child: prompts are answered or lost, and turns end.
LEMMA OcChildMoves ==
  ASSUME OcInv,
         \/ \E t \in Turns : Opencode!Answer(t) \/ Opencode!Collect(t) \/ Opencode!Reconcile(t)
         \/ Opencode!ChildStep
  PROVE  OcInv'
  <1>1. /\ OcTurnsTyped /\ OcPumpsTyped /\ OcServerTyped /\ OcTaps
    BY DEF OcInv
  <1>2. ASSUME UNCHANGED <<call, launching, verdict, unknown, obs>>, PumpsStay, OcPumpsTyped', OcServerTyped',
               disp' \in [Turns -> {"none", "live", "terminal"}], nat' \in [Turns -> OcNative],
               \A t \in Turns : /\ disp'[t] = disp[t] \/ (disp[t] # "none" /\ disp'[t] = "terminal")
                                /\ \/ nat'[t].state = nat[t].state
                                   \/ nat[t].state = "active" /\ nat'[t].state \in {"done", "lost"}
        PROVE  OcInv'
    <2>1. OcTurnsTyped' /\ OcCalls' /\ OcTurns'
      BY <1>2, OcElsewhere
    <2>2. TurnsGoOn
      BY <1>2 DEF TurnsGoOn
    <2>3. OcTaps'
      BY <1>1, <1>2, <2>2, OcTapsStay
    <2> QED BY <1>2, <2>1, <2>3 DEF OcInv
  <1>3. UNCHANGED Opencode!pumpVars => PumpsStay /\ OcPumpsTyped' /\ UNCHANGED obs
    BY OcPumpsKept
  <1>4. ASSUME NEW t \in Turns, Opencode!Answer(t) PROVE OcInv'
    <2> DEFINE n == [nat[t] EXCEPT !.state = "done"]
    <2>1. nat[t] \in OcNative
      BY <1>1 DEF OcTurnsTyped
    <2>2. n \in OcNative /\ n.state = "done"
      BY <2>1 DEF OcNative
    <2>3. nat' = [nat EXCEPT ![t] = n] /\ nat[t].state = "active"
          /\ UNCHANGED <<child, gens, Opencode!turnVars, Opencode!pumpVars>>
      BY <1>4 DEF Opencode!Answer, Opencode!NatRest, Opencode!serverVars
    <2> HIDE DEF n
    <2>4. nat' \in [Turns -> OcNative] /\ \A u \in Turns : nat'[u].state = IF u = t THEN "done" ELSE nat[u].state
      BY <1>1, <2>2, <2>3 DEF OcTurnsTyped
    <2> QED BY <1>1, <1>2, <1>3, <2>3, <2>4 DEF OcServerTyped, OcTurnsTyped, Opencode!turnVars
  <1>5. ASSUME NEW t \in Turns, Opencode!Collect(t) PROVE OcInv'
    <2>1. disp' = [disp EXCEPT ![t] = "terminal"] /\ disp[t] # "none"
          /\ UNCHANGED <<child, gens, call, launching, verdict, unknown, nat, Opencode!pumpVars>>
      BY <1>5 DEF Opencode!Collect, Opencode!serverVars
    <2> QED BY <1>1, <1>2, <1>3, <2>1 DEF OcServerTyped, OcTurnsTyped
  <1>6. ASSUME NEW t \in Turns, Opencode!Reconcile(t) PROVE OcInv'
    <2>1. disp' = [disp EXCEPT ![t] = IF @ = "none" THEN @ ELSE "terminal"]
          /\ UNCHANGED <<child, gens, call, launching, verdict, unknown, nat, Opencode!pumpVars>>
      BY <1>6 DEF Opencode!Reconcile, Opencode!MarkTurnTerminal, Opencode!serverVars
    <2> QED BY <1>1, <1>2, <1>3, <2>1 DEF OcServerTyped, OcTurnsTyped
  <1>7. ASSUME NEW g, nat' = Opencode!Lose(g)
        PROVE  /\ nat' \in [Turns -> OcNative]
               /\ \A t \in Turns : nat'[t].state = nat[t].state \/ (nat[t].state = "active" /\ nat'[t].state = "lost")
    <2>1. ASSUME NEW t \in Turns
          PROVE  [nat[t] EXCEPT !.state = "lost"] \in OcNative /\ [nat[t] EXCEPT !.state = "lost"].state = "lost"
      BY <1>1 DEF OcTurnsTyped, OcNative
    <2> QED BY <1>1, <1>7, <2>1 DEF OcTurnsTyped, Opencode!Lose
  <1>8. CASE Opencode!TimerFires \/ (\E g \in Opencode!Gens : Opencode!ChildDies(g)) \/ Opencode!Park
    <2>1. UNCHANGED <<gens, Opencode!turnVars, Opencode!pumpVars>> /\ (child' = child \/ child' = None)
      BY <1>8 DEF Opencode!TimerFires, Opencode!ChildDies, Opencode!Park, Opencode!NatRest, Opencode!serverVars
    <2>2. UNCHANGED nat \/ \E g : nat' = Opencode!Lose(g)
      BY <1>8 DEF Opencode!TimerFires, Opencode!ChildDies, Opencode!Park
    <2>3. OcServerTyped'
      BY <1>1, <2>1 DEF OcServerTyped, OcGens
    <2> QED BY <1>1, <1>2, <1>3, <1>7, <2>1, <2>2, <2>3 DEF OcTurnsTyped, Opencode!turnVars
  <1>9. CASE Opencode!Cancel
    <2>1. UNCHANGED <<child, gens, Opencode!turnVars, Opencode!pumpVars>>
          /\ nat' = [t \in Turns |-> IF nat[t].state = "active" /\ nat[t].gen = child
                                     THEN [nat[t] EXCEPT !.state = "done"] ELSE nat[t]]
      BY <1>9 DEF Opencode!Cancel, Opencode!NatRest, Opencode!serverVars
    <2>2. ASSUME NEW t \in Turns
          PROVE  [nat[t] EXCEPT !.state = "done"] \in OcNative /\ [nat[t] EXCEPT !.state = "done"].state = "done"
      BY <1>1 DEF OcTurnsTyped, OcNative
    <2>3. /\ nat' \in [Turns -> OcNative]
          /\ \A t \in Turns : nat'[t].state = nat[t].state \/ (nat[t].state = "active" /\ nat'[t].state = "done")
      BY <1>1, <2>1, <2>2 DEF OcTurnsTyped
    <2> QED BY <1>1, <1>2, <1>3, <2>1, <2>3 DEF OcServerTyped, OcTurnsTyped, Opencode!turnVars
  <1>10. CASE Opencode!StopPump
    <2>1. /\ UNCHANGED <<child, gens, Opencode!turnVars, nat, pumps, obs>> /\ current' = None
          /\ pump' = IF current = None THEN pump ELSE [pump EXCEPT ![current].stopped = TRUE]
      BY <1>10 DEF Opencode!StopPump, Opencode!serverVars
    <2>2. PumpsStay /\ OcPumpsTyped'
      <3>1. CASE current = None
        BY <1>1, <2>1, <3>1 DEF OcPumpsTyped, PumpsStay
      <3>2. CASE current # None
        <4> DEFINE k == [pump[current] EXCEPT !.stopped = TRUE]
        <4>1. current \in OcPumps /\ pump[current] \in OcPump
          BY <1>1, <3>2 DEF OcPumpsTyped
        <4>2. /\ k \in OcPump /\ k.taps = pump[current].taps /\ k.pc = pump[current].pc
              /\ k.turn = pump[current].turn /\ k.resync = pump[current].resync
          BY <4>1 DEF OcPump
        <4>3. pump' = [pump EXCEPT ![current] = k]
          BY <2>1, <3>2
        <4> HIDE DEF k
        <4> QED BY <1>1, <2>1, <4>1, <4>2, <4>3 DEF OcPumpsTyped, PumpsStay
      <3> QED BY <3>1, <3>2
    <2> QED BY <1>1, <1>2, <2>1, <2>2 DEF OcServerTyped, OcTurnsTyped, Opencode!turnVars
  <1> QED BY <1>4, <1>5, <1>6, <1>8, <1>9, <1>10 DEF Opencode!ChildStep

\* A pump that takes an event, marks its turn and passes it on: a tap is ended when it was sent.
LEMMA OcPumpSteps ==
  ASSUME OcInv, NEW p \in Opencode!Pumps, Opencode!PumpStep(p)
  PROVE  OcInv'
  <1> p \in OcPumps
    BY DEF OcPumps, Opencode!Pumps
  <1>1. /\ OcTurnsTyped /\ OcPumpsTyped /\ pump[p] \in OcPump /\ PumpIs(pump[p])
        /\ \A o \in Observers : obs[o] \in OcObserver /\ ObserverIs(o, obs[o]) /\ Watched[o] \in Turns
    BY OpencodeAssumption DEF OcInv, OcTaps, OcPumpsTyped
  <1>2. UNCHANGED <<call, launching, verdict, unknown, nat, child, gens, pumps, current>>
    BY DEF Opencode!PumpStep, Opencode!TakeEvent, Opencode!Resync, Opencode!Mark, Opencode!Route,
           Opencode!Detach, Opencode!PumpRest, Opencode!serverVars
  <1>3. ASSUME UNCHANGED disp
        PROVE  /\ disp' \in [Turns -> {"none", "live", "terminal"}]
               /\ \A t \in Turns : (disp'[t] = "none" <=> disp[t] = "none") /\ (disp[t] = "terminal" => disp'[t] = "terminal")
    BY <1>1, <1>3 DEF OcTurnsTyped
  <1>4. ASSUME UNCHANGED obs, \A t \in Turns : disp[t] # "none" => disp'[t] # "none"
        PROVE  /\ obs' \in [Observers -> OcObserver]
               /\ \A o \in Observers : (obs[o].got > 0 => obs'[o].got > 0) /\ ObserverIs(o, obs[o])'
    BY <1>1, <1>4, OcObserved DEF OcPumpsTyped
  <1>5. ASSUME NEW t \in Turns, Opencode!TakeEvent(p, t) PROVE OcInv'
    <2> DEFINE k1 == [pump[p] EXCEPT !.seen = @ \cup {t}]
               k2 == [k1 EXCEPT !.kept = @ \cup {t}, !.pc = "mark", !.turn = t]
    <2>1. /\ pump[p].pc = "idle" /\ nat[t].state = "done" /\ UNCHANGED <<disp, obs>>
          /\ pump' = [pump EXCEPT ![p] = k2] \/ pump' = [pump EXCEPT ![p] = k1]
      BY <1>5 DEF Opencode!TakeEvent
    <2>2. /\ k1 \in OcPump /\ k1.pc = "idle" /\ k1.taps = pump[p].taps /\ k1.resync = pump[p].resync
          /\ k2 \in OcPump /\ k2.pc = "mark" /\ k2.turn = t /\ k2.taps = pump[p].taps /\ k2.resync = pump[p].resync
      BY <1>1, <2>1 DEF OcPump
    <2> HIDE DEF k1, k2
    <2>3. pump[p].resync = None
      BY <1>1, <2>1 DEF PumpIs
    <2>4. PumpWillBe(k1) /\ PumpWillBe(k2)
      BY <1>1, <1>2, <2>1, <2>2, <2>3 DEF PumpIs, PumpWillBe
    <2>5. PICK k \in {k1, k2} : pump' = [pump EXCEPT ![p] = k]
      BY <2>1
    <2>6. k \in OcPump /\ PumpWillBe(k)
      BY <2>2, <2>4
    <2> QED BY <1>2, <1>3, <1>4, <2>1, <2>5, <2>6, OcPumpMoves
  <1>6. ASSUME NEW t \in Turns, Opencode!Resync(p, t) PROVE OcInv'
    <2> DEFINE k == [pump[p] EXCEPT !.kept = @ \cup {t}, !.pc = "mark", !.turn = t, !.resync = pump[p].taps[t]]
    <2>1. /\ pump[p].taps[t] # None /\ nat[t].state = "done" /\ UNCHANGED <<disp, obs>>
          /\ pump' = [pump EXCEPT ![p] = k]
      BY <1>6 DEF Opencode!Resync
    <2>2. pump[p].taps[t] \in Observers
      BY <1>1, <2>1 DEF OcPump
    <2>3. k \in OcPump /\ k.pc = "mark" /\ k.turn = t /\ k.taps = pump[p].taps /\ k.resync = pump[p].taps[t]
      BY <1>1, <2>2 DEF OcPump
    <2> HIDE DEF k
    <2>4. PumpWillBe(k)
      BY <1>1, <1>2, <2>1, <2>3 DEF PumpIs, PumpWillBe
    <2> QED BY <1>2, <1>3, <1>4, <2>1, <2>3, <2>4, OcPumpMoves
  <1>7. CASE Opencode!Mark(p)
    <2> DEFINE k == [pump[p] EXCEPT !.pc = "route"]
               t == pump[p].turn
    <2>1. /\ pump[p].pc = "mark" /\ pump' = [pump EXCEPT ![p] = k] /\ UNCHANGED obs
          /\ disp' = [disp EXCEPT ![t] = IF @ = "none" THEN @ ELSE "terminal"]
      BY <1>7 DEF Opencode!Mark, Opencode!MarkTurnTerminal
    <2>2. /\ k \in OcPump /\ k.pc = "route" /\ k.turn = t /\ k.taps = pump[p].taps /\ k.resync = pump[p].resync
      BY <1>1 DEF OcPump
    <2> HIDE DEF k
    <2>3. t \in Turns /\ nat[t].state = "done"
      BY <1>1, <2>1 DEF PumpIs
    <2>4. /\ disp' \in [Turns -> {"none", "live", "terminal"}]
          /\ \A u \in Turns : (disp'[u] = "none" <=> disp[u] = "none") /\ (disp[u] = "terminal" => disp'[u] = "terminal")
          /\ disp[t] # "none" => disp'[t] = "terminal"
      BY <1>1, <2>1, <2>3 DEF OcTurnsTyped
    <2>5. PumpWillBe(k)
      BY <1>1, <1>2, <2>2, <2>3, <2>4 DEF PumpIs, PumpWillBe
    <2> QED BY <1>2, <1>4, <2>1, <2>2, <2>4, <2>5, OcPumpMoves
  <1>8. CASE Opencode!Route(p)
    <2> DEFINE t == pump[p].turn
               q == pump[p].taps[t]
    <2>1. pump[p].pc = "route" /\ UNCHANGED disp
      BY <1>8 DEF Opencode!Route
    <2>2. t \in Turns /\ nat[t].state = "done"
      BY <1>1, <2>1 DEF PumpIs
    <2>3. q \in Observers \cup {None} /\ (q # None => Watched[q] = t)
      BY <1>1, <2>2 DEF OcPump, PumpIs
    <2>4. CASE Opencode!Sent(p, t) /\ pump' = [pump EXCEPT ![p].pc = "detach"]
      <3> DEFINE k == [pump[p] EXCEPT !.pc = "detach"]
                 w == [obs[q] EXCEPT !.got = @ + 1]
      <3>1. q \in Observers /\ obs' = [obs EXCEPT ![q] = w] /\ obs[q].stream = "open" /\ pump' = [pump EXCEPT ![p] = k]
        BY <2>3, <2>4 DEF Opencode!Sent
      <3>2. w \in OcObserver /\ w.got > 0 /\ w.pc = obs[q].pc /\ w.pump = obs[q].pump /\ w.stream = "open"
        BY <1>1, <3>1 DEF OcObserver
      <3>3. /\ k \in OcPump /\ k.pc = "detach" /\ k.turn = t /\ k.taps = pump[p].taps /\ k.resync = pump[p].resync
        BY <1>1 DEF OcPump
      <3> HIDE DEF k, w
      <3>4. obs' \in [Observers -> OcObserver] /\ obs'[q] = w /\ \A o \in Observers \ {q} : obs'[o] = obs[o]
        BY <1>1, <3>1, <3>2 DEF OcPumpsTyped
      <3>5. ASSUME NEW o \in Observers
            PROVE  (obs[o].got > 0 => obs'[o].got > 0) /\ ObserverIs(o, obs[o])'
        BY <1>1, <2>1, <3>2, <3>4 DEF ObserverIs
      <3>6. \A o \in Observers : Watched[o] = t => o = q
        BY <2>3, <3>1, OpencodeAssumption
      <3>7. PumpWillBe(k)
        BY <1>1, <1>2, <2>1, <3>2, <3>3, <3>4, <3>6 DEF PumpIs, PumpWillBe
      <3> QED BY <1>2, <1>3, <2>1, <3>1, <3>3, <3>4, <3>5, <3>7, OcPumpMoves
    <2>5. CASE Opencode!NotSent(p, t) /\ pump' = [pump EXCEPT ![p] = [Opencode!Done(p) EXCEPT !.taps[t] = None]]
      <3> DEFINE k == [Opencode!Done(p) EXCEPT !.taps[t] = None]
      <3>1. /\ k \in OcPump /\ k.pc = "idle" /\ k.resync = None
            /\ \A u \in Turns : k.taps[u] # None => k.taps[u] = pump[p].taps[u]
        BY <1>1, <2>2 DEF OcPump, Opencode!Done
      <3>2. /\ obs' \in [Observers -> OcObserver]
            /\ \A o \in Observers : (obs[o].got > 0 => obs'[o].got > 0) /\ ObserverIs(o, obs[o])'
        <4>1. CASE UNCHANGED obs
          BY <1>4, <2>1, <4>1
        <4>2. CASE q \in Observers /\ obs' = [obs EXCEPT ![q].stream = "overflow"]
          <5> DEFINE w == [obs[q] EXCEPT !.stream = "overflow"]
          <5>1. w \in OcObserver /\ w.got = obs[q].got /\ w.pc = obs[q].pc /\ w.pump = obs[q].pump /\ w.stream = "overflow"
            BY <1>1, <4>2 DEF OcObserver
          <5>2. obs' = [obs EXCEPT ![q] = w]
            BY <4>2
          <5> HIDE DEF w
          <5>3. obs' \in [Observers -> OcObserver] /\ obs'[q] = w /\ \A o \in Observers \ {q} : obs'[o] = obs[o]
            BY <1>1, <4>2, <5>1, <5>2 DEF OcPumpsTyped
          <5> QED BY <1>1, <2>1, <5>1, <5>3 DEF ObserverIs
        <4> QED BY <2>3, <2>5, <4>1, <4>2 DEF Opencode!NotSent
      <3> HIDE DEF k
      <3>3. PumpWillBe(k)
        BY <1>1, <2>1, <3>1 DEF PumpIs, PumpWillBe
      <3>4. pump' = [pump EXCEPT ![p] = k]
        BY <2>5 DEF k
      <3> QED BY <1>2, <1>3, <2>1, <3>1, <3>2, <3>3, <3>4, OcPumpMoves
    <2> QED BY <1>8, <2>4, <2>5 DEF Opencode!Route
  <1>9. CASE Opencode!Detach(p)
    <2> DEFINE t == pump[p].turn
               o1 == IF pump[p].resync # None THEN pump[p].resync ELSE pump[p].taps[t]
               k == [Opencode!Done(p) EXCEPT !.taps[t] = None]
    <2>1. /\ pump[p].pc = "detach" /\ pump' = [pump EXCEPT ![p] = k]
          /\ IF o1 # None THEN Opencode!StreamEnds(o1) ELSE UNCHANGED obs
          /\ disp' = [disp EXCEPT ![t] = IF pump[p].resync # None /\ @ # "none" THEN "terminal" ELSE @]
      BY <1>9 DEF Opencode!Detach
    <2>2. t \in Turns /\ nat[t].state = "done" /\ \A o \in Observers : Watched[o] = t => obs[o].got > 0
      BY <1>1, <2>1 DEF PumpIs
    <2>3. o1 \in Observers \cup {None} /\ (o1 # None => Watched[o1] = t)
      BY <1>1, <2>2 DEF OcPump, PumpIs
    <2>4. /\ k \in OcPump /\ k.pc = "idle" /\ k.resync = None
          /\ \A u \in Turns : k.taps[u] # None => k.taps[u] = pump[p].taps[u]
      BY <1>1, <2>2 DEF OcPump, Opencode!Done
    <2>5. /\ disp' \in [Turns -> {"none", "live", "terminal"}]
          /\ \A u \in Turns : (disp'[u] = "none" <=> disp[u] = "none") /\ (disp[u] = "terminal" => disp'[u] = "terminal")
      BY <1>1, <2>1, <2>2 DEF OcTurnsTyped
    <2>6. /\ obs' \in [Observers -> OcObserver]
          /\ \A o \in Observers : (obs[o].got > 0 => obs'[o].got > 0) /\ ObserverIs(o, obs[o])'
      <3>1. CASE o1 = None
        BY <1>4, <2>1, <2>5, <3>1
      <3>2. CASE o1 # None
        <4> DEFINE s == IF obs[o1].stream = "open" THEN "ended" ELSE obs[o1].stream
                   w == [obs[o1] EXCEPT !.stream = s]
        <4>1. o1 \in Observers /\ obs[o1].got > 0 /\ s \in {"none", "open", "ended", "overflow"}
          BY <1>1, <2>2, <2>3, <3>2 DEF OcObserver
        <4>2. obs' = [obs EXCEPT ![o1] = w]
          BY <2>1, <3>2 DEF Opencode!StreamEnds
        <4> HIDE DEF s
        <4>3. w \in OcObserver /\ w.got = obs[o1].got /\ w.pc = obs[o1].pc /\ w.pump = obs[o1].pump
          BY <1>1, <4>1 DEF OcObserver
        <4> HIDE DEF w
        <4>4. obs' \in [Observers -> OcObserver] /\ obs'[o1] = w /\ \A o \in Observers \ {o1} : obs'[o] = obs[o]
          BY <1>1, <4>1, <4>2, <4>3 DEF OcPumpsTyped
        <4> QED BY <1>1, <2>5, <4>1, <4>3, <4>4 DEF ObserverIs
      <3> QED BY <3>1, <3>2
    <2> HIDE DEF k
    <2>7. PumpWillBe(k)
      BY <1>1, <2>4, <2>5 DEF PumpIs, PumpWillBe
    <2> QED BY <1>2, <2>1, <2>4, <2>5, <2>6, <2>7, OcPumpMoves
  <1> QED BY <1>5, <1>6, <1>7, <1>8, <1>9 DEF Opencode!PumpStep

\* An observer registers, is given a kept terminal, and leaves.
LEMMA OcObserves ==
  ASSUME OcInv, NEW o \in Observers, Opencode!ObserveStep(o)
  PROVE  OcInv'
  <1> DEFINE t == Watched[o]
             p == obs[o].pump
             q == pump[p].taps[t]
  <1>1. /\ OcTurnsTyped /\ OcPumpsTyped /\ OcServerTyped /\ OcTaps /\ obs[o] \in OcObserver /\ t \in Turns
        /\ \A x \in Observers : ObserverIs(x, obs[x])
        /\ \A x \in Observers : Watched[x] = t => x = o
    BY OpencodeAssumption DEF OcInv, OcTaps, OcPumpsTyped
  <1>2. UNCHANGED <<call, launching, verdict, unknown, disp, nat, child, gens>>
    BY DEF Opencode!ObserveStep, Opencode!Observe, Opencode!Register, Opencode!RouteKept, Opencode!DetachKept,
           Opencode!CancelObserve, Opencode!DetachTap, Opencode!ObsRest, Opencode!serverVars, Opencode!turnVars
  <1>3. /\ disp' \in [Turns -> {"none", "live", "terminal"}]
        /\ \A u \in Turns : (disp'[u] = "none" <=> disp[u] = "none") /\ (disp[u] = "terminal" => disp'[u] = "terminal")
    BY <1>1, <1>2 DEF OcTurnsTyped
  <1>4. ASSUME NEW w \in OcObserver, obs' = [obs EXCEPT ![o] = w], obs[o].got > 0 => w.got > 0,
               w.pc # "idle" => w.pump \in OcPumps /\ disp[t] # "none",
               w.pc = "detach" => w.got > 0, w.stream = "ended" /\ w.pc # "cancelled" => w.got > 0
        PROVE  /\ obs' \in [Observers -> OcObserver]
               /\ \A x \in Observers : (obs[x].got > 0 => obs'[x].got > 0) /\ ObserverIs(x, obs[x])'
    <2>1. obs' \in [Observers -> OcObserver] /\ obs'[o] = w /\ \A x \in Observers \ {o} : obs'[x] = obs[x]
      BY <1>1, <1>4 DEF OcPumpsTyped
    <2> QED BY <1>1, <1>2, <1>4, <2>1 DEF ObserverIs
  <1>5. ASSUME Opencode!Observe(o) PROVE OcInv'
    <2> DEFINE w == [obs[o] EXCEPT !.pc = "register", !.pump = current', !.stream = "open"]
    <2>1. obs' = [obs EXCEPT ![o] = w] /\ disp[t] # "none" /\ Opencode!EnsurePump(child) /\ obs[o].pc = "idle"
      BY <1>5 DEF Opencode!Observe
    <2>2. child \in OcGens
      BY <1>1 DEF OcServerTyped
    <2>3. current' \in OcPumps
      BY <1>1, <2>1, OpencodeAssumption DEF OcPumpsTyped, Opencode!EnsurePump, OcPumps
    <2>4. w \in OcObserver /\ w.pc = "register" /\ w.pump = current' /\ w.stream = "open" /\ w.got = obs[o].got
      BY <1>1, <2>3 DEF OcObserver
    <2> HIDE DEF w
    <2>5. /\ obs' \in [Observers -> OcObserver]
          /\ \A x \in Observers : (obs[x].got > 0 => obs'[x].got > 0) /\ ObserverIs(x, obs[x])'
      BY <1>4, <2>1, <2>3, <2>4
    <2>6. OcPumpsTyped' /\ PumpsStay
      BY <2>1, <2>2, <2>5, OcPumpRuns
    <2>7. TurnsGoOn
      BY <1>2 DEF TurnsGoOn
    <2>8. OcTaps'
      BY <1>1, <2>5, <2>6, <2>7, OcTapsMove
    <2>9. OcTurnsTyped' /\ OcCalls' /\ OcTurns'
      BY <1>1, <1>2, OcElsewhere DEF OcTurnsTyped
    <2> QED BY <1>1, <1>2, <2>6, <2>8, <2>9 DEF OcInv, OcServerTyped
  <1>6. ASSUME obs[o].pc # "idle"
        PROVE  /\ p \in OcPumps /\ pump[p] \in OcPump /\ PumpIs(pump[p]) /\ disp[t] # "none"
               /\ q \in Observers \cup {None} /\ (q # None => q = o)
    <2>1. p \in OcPumps /\ disp[t] # "none"
      BY <1>1, <1>6 DEF ObserverIs
    <2>2. pump[p] \in OcPump /\ PumpIs(pump[p])
      BY <1>1, <2>1 DEF OcPumpsTyped, OcTaps
    <2>3. q \in Observers \cup {None} /\ (q # None => Watched[q] = t)
      BY <1>1, <2>2 DEF OcPump, PumpIs
    <2> QED BY <1>1, <2>1, <2>2, <2>3
  <1>7. ASSUME NEW x \in {o, None}, obs[o].pc # "idle", UNCHANGED <<pumps, current>>,
               pump' = [pump EXCEPT ![p].taps[t] = x],
               obs' \in [Observers -> OcObserver],
               \A y \in Observers : (obs[y].got > 0 => obs'[y].got > 0) /\ ObserverIs(y, obs[y])'
        PROVE  OcInv'
    <2> DEFINE k == [pump[p] EXCEPT !.taps[t] = x]
    <2>1. /\ p \in OcPumps /\ pump[p] \in OcPump /\ PumpIs(pump[p]) /\ disp[t] # "none"
      BY <1>6, <1>7
    <2>2. /\ k \in OcPump /\ k.pc = pump[p].pc /\ k.turn = pump[p].turn /\ k.resync = pump[p].resync
          /\ \A u \in Turns : k.taps[u] = IF u = t THEN x ELSE pump[p].taps[u]
      BY <1>1, <2>1 DEF OcPump
    <2>3. pump' = [pump EXCEPT ![p] = k]
      BY <1>7
    <2> HIDE DEF k
    <2>4. PumpWillBe(k)
      BY <1>2, <1>7, <2>1, <2>2 DEF PumpIs, PumpWillBe
    <2> QED BY <1>2, <1>3, <1>7, <2>1, <2>2, <2>3, <2>4, OcPumpMoves
  <1>8. CASE Opencode!Register(o)
    <2> DEFINE l == IF t \in pump[p].kept THEN "route" ELSE "open"
               w == [obs[o] EXCEPT !.pc = l]
    <2>1. /\ obs[o].pc = "register" /\ pump' = [pump EXCEPT ![p].taps[t] = o] /\ UNCHANGED <<pumps, current>>
          /\ obs' = [obs EXCEPT ![o] = w]
      BY <1>8 DEF Opencode!Register
    <2>2. /\ w \in OcObserver /\ w.pc = l /\ w.pump = p /\ w.stream = obs[o].stream /\ w.got = obs[o].got
      BY <1>1 DEF OcObserver
    <2> HIDE DEF w
    <2>3. /\ obs' \in [Observers -> OcObserver]
          /\ \A x \in Observers : (obs[x].got > 0 => obs'[x].got > 0) /\ ObserverIs(x, obs[x])'
      BY <1>1, <1>4, <1>6, <2>1, <2>2 DEF ObserverIs
    <2> QED BY <1>7, <2>1, <2>3
  <1>9. CASE Opencode!RouteKept(o)
    <2>1. obs[o].pc = "route" /\ UNCHANGED <<pumps, current>>
      BY <1>9 DEF Opencode!RouteKept
    <2>2. CASE /\ q # None /\ obs[q].stream = "open"
               /\ obs' = [obs EXCEPT ![q].got = @ + 1, ![o].pc = "detach"]
               /\ UNCHANGED pump
      <3> DEFINE g == obs[o].got + 1
                 w == [obs[o] EXCEPT !.got = g, !.pc = "detach"]
      <3>0. g \in Nat /\ g > 0
        BY <1>1 DEF OcObserver
      <3>1. q = o
        BY <1>6, <2>1, <2>2
      <3>2. obs' = [obs EXCEPT ![o] = w]
        BY <1>1, <2>2, <3>1 DEF OcPumpsTyped
      <3> HIDE DEF g
      <3>3. /\ w \in OcObserver /\ w.pc = "detach" /\ w.pump = p /\ w.got > 0
        BY <1>1, <3>0 DEF OcObserver
      <3> HIDE DEF w
      <3>4. /\ obs' \in [Observers -> OcObserver]
            /\ \A x \in Observers : (obs[x].got > 0 => obs'[x].got > 0) /\ ObserverIs(x, obs[x])'
        BY <1>4, <1>6, <2>1, <3>2, <3>3
      <3>5. OcPumpsTyped' /\ PumpsStay
        BY <1>1, <2>1, <2>2, <3>4 DEF OcPumpsTyped, PumpsStay
      <3>6. TurnsGoOn
        BY <1>2 DEF TurnsGoOn
      <3>7. OcTaps'
        BY <1>1, <3>4, <3>5, <3>6, OcTapsMove
      <3>8. OcTurnsTyped' /\ OcCalls' /\ OcTurns'
        BY <1>1, <1>2, OcElsewhere DEF OcTurnsTyped
      <3> QED BY <1>1, <1>2, <3>5, <3>7, <3>8 DEF OcInv, OcServerTyped
    <2>3. CASE /\ obs' = [obs EXCEPT ![o].pc = "open"] /\ pump' = [pump EXCEPT ![p].taps[t] = None]
      <3> DEFINE w == [obs[o] EXCEPT !.pc = "open"]
      <3>1. obs' = [obs EXCEPT ![o] = w]
        BY <2>3
      <3>2. /\ w \in OcObserver /\ w.pc = "open" /\ w.pump = p /\ w.stream = obs[o].stream /\ w.got = obs[o].got
        BY <1>1 DEF OcObserver
      <3> HIDE DEF w
      <3>3. /\ obs' \in [Observers -> OcObserver]
            /\ \A x \in Observers : (obs[x].got > 0 => obs'[x].got > 0) /\ ObserverIs(x, obs[x])'
        BY <1>1, <1>4, <1>6, <2>1, <3>1, <3>2 DEF ObserverIs
      <3> QED BY <1>7, <2>1, <2>3, <3>3
    <2> QED BY <1>9, <2>2, <2>3 DEF Opencode!RouteKept
  <1>10. ASSUME NEW l \in {"open", "cancelled"}, obs[o].pc # "idle", Opencode!DetachTap(o, l),
                l = "open" => obs[o].got > 0
         PROVE  OcInv'
    <2> DEFINE s == IF o = q /\ obs[o].stream = "open" THEN "ended" ELSE obs[o].stream
               w == [obs[o] EXCEPT !.stream = s, !.pc = l]
    <2>1. /\ pump' = [pump EXCEPT ![p].taps[t] = None] /\ UNCHANGED <<pumps, current>>
          /\ obs' = [x \in Observers |->
                       [obs[x] EXCEPT !.stream = IF x = q /\ @ = "open" THEN "ended" ELSE @,
                                      !.pc = IF x = o THEN l ELSE @]]
      BY <1>10 DEF Opencode!DetachTap
    <2>2. s \in {"none", "open", "ended", "overflow"}
      BY <1>1 DEF OcObserver
    <2>3. obs'[o] = w
      BY <2>1
    <2> HIDE DEF s
    <2>4. /\ w \in OcObserver /\ w.pc = l /\ w.pump = p /\ w.stream = s /\ w.got = obs[o].got
      BY <1>1, <2>2 DEF OcObserver
    <2>5. ASSUME NEW x \in Observers \ {o} PROVE obs'[x] = obs[x]
      <3>1. x # q
        BY <1>6, <1>10, OpencodeAssumption
      <3>2. obs[x] \in OcObserver
        BY <1>1 DEF OcPumpsTyped
      <3> QED BY <2>1, <3>1, <3>2 DEF OcObserver
    <2> HIDE DEF w
    <2>6. obs' \in [Observers -> OcObserver]
      BY <1>1, <2>1, <2>3, <2>4, <2>5 DEF OcPumpsTyped
    <2>7. obs' = [obs EXCEPT ![o] = w]
      BY <1>1, <2>3, <2>5, <2>6 DEF OcPumpsTyped
    <2>8. /\ obs' \in [Observers -> OcObserver]
          /\ \A x \in Observers : (obs[x].got > 0 => obs'[x].got > 0) /\ ObserverIs(x, obs[x])'
      BY <1>4, <1>6, <1>10, <2>4, <2>7
    <2>9. None \in {o, None}
      OBVIOUS
    <2> QED BY <1>7, <1>10, <2>1, <2>8, <2>9
  <1>11. CASE Opencode!DetachKept(o)
    BY <1>1, <1>10, <1>11 DEF Opencode!DetachKept, ObserverIs
  <1>12. CASE Opencode!CancelObserve(o)
    BY <1>10, <1>12 DEF Opencode!CancelObserve
  <1> QED BY <1>5, <1>8, <1>9, <1>11, <1>12 DEF Opencode!ObserveStep

\* Every step of the opencode adapter, of its child and of its pumps keeps the invariant.
LEMMA OcNext ==
  ASSUME OcInv, Opencode!Next
  PROVE  OcInv'
  BY OcDispatches, OcChildMoves, OcPumpSteps, OcObserves DEF Opencode!Next

\* What is stuttered keeps it too.
LEMMA OcStutter ==
  ASSUME OcInv, UNCHANGED Opencode!vars
  PROVE  OcInv'
  <1>1. /\ OcTurnsTyped /\ OcPumpsTyped /\ OcServerTyped /\ OcTaps
    BY DEF OcInv
  <1>2. UNCHANGED <<call, launching, verdict, unknown, disp, nat, child, gens, pump, pumps, current, obs>>
    BY DEF Opencode!vars, Opencode!turnVars, Opencode!serverVars, Opencode!pumpVars
  <1>3. TurnsGoOn /\ PumpsStay /\ OcPumpsTyped' /\ OcServerTyped'
    BY <1>1, <1>2 DEF TurnsGoOn, PumpsStay, OcPumpsTyped, OcServerTyped
  <1>4. OcTaps'
    BY <1>1, <1>2, <1>3, OcTapsStay
  <1>5. /\ disp' \in [Turns -> {"none", "live", "terminal"}] /\ nat' \in [Turns -> OcNative]
        /\ \A t \in Turns : /\ disp'[t] = "none" <=> disp[t] = "none"
                            /\ nat'[t].state = "none" <=> nat[t].state = "none"
    BY <1>1, <1>2 DEF OcTurnsTyped
  <1>6. OcTurnsTyped' /\ OcCalls' /\ OcTurns'
    BY <1>2, <1>5, OcElsewhere
  <1> QED BY <1>3, <1>4, <1>6 DEF OcInv

\* It holds at the start.
LEMMA OcStart ==
  ASSUME Opencode!Init
  PROVE  OcInv
  <1> USE DEF Opencode!Init
  <1>1. None # "rejected"
    BY CodexAssumption DEF Terminals
  <1>2. ASSUME NEW c \in Calls
        PROVE  call[c] \in OcCall /\ call[c].pc = "idle" /\ call[c].outcome = None /\ Ref[c] \in Turns
    <2>1. call[c] = [pc |-> "idle", gen |-> None, joined |-> None, outcome |-> None, shared |-> None]
      OBVIOUS
    <2> QED BY <2>1, OpencodeAssumption DEF OcCall, OcPcs, OcGens, OcAnswers
  <1>3. ASSUME NEW t \in Turns
        PROVE  nat[t] \in OcNative /\ nat[t].state = "none" /\ disp[t] = "none" /\ verdict[t] = None
    BY DEF OcNative, OcGens
  <1>4. ASSUME NEW p \in OcPumps
        PROVE  /\ pump[p] \in OcPump /\ pump[p].pc = "idle" /\ pump[p].resync = None
               /\ \A t \in Turns : pump[p].taps[t] = None
    <2> DEFINE z == Opencode!NewPump(None)
    <2>1. z \in OcPump /\ z.pc = "idle" /\ z.resync = None /\ \A t \in Turns : z.taps[t] = None
      BY DEF Opencode!NewPump, OcPump, OcGens
    <2>2. pump[p] = z
      BY DEF OcPumps, Opencode!Pumps
    <2> HIDE DEF z
    <2> QED BY <2>1, <2>2
  <1>5. ASSUME NEW o \in Observers
        PROVE  obs[o] \in OcObserver /\ obs[o].pc = "idle" /\ obs[o].stream = "none"
    BY DEF OcObserver
  <1>6. OcTurnsTyped
    <2>1. call \in [Calls -> OcCall] /\ nat \in [Turns -> OcNative]
      BY <1>2, <1>3
    <2> QED BY <2>1 DEF OcTurnsTyped, OcAnswers
  <1>7. OcPumpsTyped /\ OcServerTyped
    <2>1. pump \in [OcPumps -> OcPump] /\ obs \in [Observers -> OcObserver]
      BY <1>4, <1>5 DEF OcPumps, Opencode!Pumps
    <2> QED BY <2>1 DEF OcPumpsTyped, OcServerTyped, OcGens
  <1>8. OcCalls
    BY <1>2 DEF OcCalls, CallIs, Holding
  <1>9. OcTurns
    BY <1>1, <1>3 DEF OcTurns
  <1>10. OcTaps
    BY <1>4, <1>5 DEF OcTaps, PumpIs, ObserverIs
  <1> QED BY <1>6, <1>7, <1>8, <1>9, <1>10 DEF OcInv

\* The invariant holds in every behaviour of the opencode adapter.
THEOREM OpencodeInvariant == MCSpec => []OcPart
  <1>1. MCInit => OcPart
    BY OcStart DEF MCInit, OcPart
  <1>2. OcPart /\ [MCNext]_mcVars => OcPart'
    <2> SUFFICES ASSUME OcPart, [MCNext]_mcVars, part' = "opencode" PROVE OcInv'
      BY DEF OcPart
    <2>1. CASE UNCHANGED mcVars
      <3>1. UNCHANGED Opencode!vars /\ part = "opencode"
        BY <2>1 DEF mcVars, vars, serverVars, turnVars, opencodeOnly, Opencode!vars, Opencode!serverVars,
                    Opencode!parkVars, Opencode!turnVars, Opencode!pumpVars
      <3> QED BY <3>1, OcStutter DEF OcPart
    <2>2. CASE MCNext
      BY <2>2, OcNext DEF OcPart, MCNext
    <2> QED BY <2>1, <2>2
  <1> QED BY <1>1, <1>2, PTL DEF MCSpec, mcVars

\* A prompt that the native session took up was accepted or left unknown to some caller, a turn
\* that is registered was taken up, and a tap that ends by itself was given the turn's terminal.
THEOREM OpencodeAlwaysTrue == MCSpec => []OpencodeVerdictsTrue
  <1>1. OcPart => OpencodeVerdictsTrue
    <2> SUFFICES ASSUME OcInv PROVE Opencode!VerdictsAreTrue /\ Opencode!TapEndsWithTerminal
      BY DEF OcPart, OpencodeVerdictsTrue
    <2>1. Opencode!TapEndsWithTerminal
      BY DEF OcInv, OcTaps, ObserverIs, Opencode!TapEndsWithTerminal
    <2>2. ASSUME NEW t \in Turns
          PROVE  /\ nat[t].state # "none" =>
                      \E c \in Calls : Ref[c] = t /\ call[c].outcome \in {"accepted", "unknown"}
                 /\ disp[t] # "none" => nat[t].state # "none"
                 /\ verdict[t] = "rejected" => \E c \in Calls : Ref[c] = t /\ call[c].outcome = "rejected"
      BY <2>2 DEF OcInv, OcTurns, Submitted
    <2>3. ASSUME NEW t \in Turns, \A c, d \in Calls : Ref[c] = t /\ Ref[d] = t => c = d,
                 Opencode!DefinitivelyMissing(t)
          PROVE  nat[t].state = "none"
      <3>1. verdict[t] = "rejected"
        BY <2>3 DEF Opencode!DefinitivelyMissing
      <3>2. PICK d \in Calls : Ref[d] = t /\ call[d].outcome = "rejected"
        BY <2>2, <3>1
      <3> QED BY <2>2, <2>3, <3>2
    <2>4. Opencode!VerdictsAreTrue
      BY <2>2, <2>3 DEF Opencode!VerdictsAreTrue
    <2> QED BY <2>1, <2>4
  <1> QED BY <1>1, OpencodeInvariant, PTL

-----------------------------------------------------------------------------
(* Opencode: the slot.                                                     *)

\* A turn is handed over once, or a call waits until a rejected one of its turn let go of the slot.
OcHandover == ~LateCalls \/ \A c, d \in Calls : Ref[c] = Ref[d] => c = d

\* No turn is None.
LEMMA OcTurnsAre ==
  /\ None \notin Turns /\ \A c \in Calls : Ref[c] \in Turns
  BY OpencodeAssumption, CodexServerAssumption, CodexAssumption DEF Turns

\* A turn that is done gives up the slot.
LEMMA OcFrees ==
  ASSUME OcInv, OcSlot, NEW t \in Turns, nat[t].state = "done", disp[t] # "none",
         disp' = [disp EXCEPT ![t] = "terminal"], slot' = IF slot = t THEN None ELSE slot,
         UNCHANGED <<call, nat, unknown>>
  PROVE  OcSlot'
  <1>1. disp'[t] = "terminal" /\ \A u \in Turns \ {t} : disp'[u] = disp[u]
    BY DEF OcInv, OcTurnsTyped
  <1>2. ASSUME NEW c \in Calls, call[c].pc \in Owning PROVE Ref[c] # t
    <2>1. CallIs(c, call[c], launching[Ref[c]], disp[Ref[c]], nat[Ref[c]].state)
      BY OcAt
    <2> QED BY <1>2, <2>1 DEF CallIs, Owning, Holding, OcSlot, OcReleases
  <1>3. OcOwners'
    BY <1>2 DEF OcSlot, OcOwners
  <1>4. OcReleases'
    BY DEF OcSlot, OcReleases
  <1>5. OcOwned'
    BY <1>1, OcTurnsAre DEF OcSlot, OcOwned
  <1>6. OcOpen'
    BY <1>1 DEF OcSlot, OcOpen
  <1> QED BY <1>3, <1>4, <1>5, <1>6 DEF OcSlot

\* A prompt is answered or lost.
LEMMA OcSlotKept ==
  ASSUME OcSlot, UNCHANGED <<call, disp, unknown, slot>>,
         \A t \in Turns : \/ nat'[t].state = nat[t].state
                          \/ nat[t].state = "active" /\ nat'[t].state \in {"done", "lost"}
  PROVE  OcSlot'
  <1>1. OcOwners' /\ OcOwned' /\ OcOpen'
    BY DEF OcSlot, OcOwners, OcOwned, OcOpen
  <1>2. OcReleases'
    BY OcTurnsAre DEF OcSlot, OcReleases
  <1> QED BY <1>1, <1>2 DEF OcSlot

\* A call that has no part in the slot.
LEMMA OcSlotElsewhere ==
  ASSUME OcSlot, NEW c \in Calls, call[c].pc \notin Owning, call'[c].pc \notin Holding \cup Owning,
         \A e \in Calls \ {c} : call'[e] = call[e], UNCHANGED <<disp, unknown, slot, nat>>
  PROVE  OcSlot'
  <1>1. OcOwners'
    BY DEF OcSlot, OcOwners
  <1>2. OcReleases'
    BY DEF OcSlot, OcReleases, Owning
  <1>3. OcOwned'
    BY DEF OcSlot, OcOwned
  <1>4. OcOpen'
    BY DEF OcSlot, OcOpen
  <1> QED BY <1>1, <1>2, <1>3, <1>4 DEF OcSlot

\* The calls of a turn of which one holds the reservation are not releasing its slot.
LEMMA OcNoRelease ==
  ASSUME OcInv, OcSlot, NEW c \in Calls, call[c].pc \in Holding,
         NEW e \in Calls, e # c, Ref[e] = Ref[c]
  PROVE  call[e].pc \notin Holding \cup {"release"}
  <1>1. /\ CallIs(c, call[c], launching[Ref[c]], disp[Ref[c]], nat[Ref[c]].state)
        /\ CallIs(e, call[e], launching[Ref[e]], disp[Ref[e]], nat[Ref[e]].state)
    BY OcAt
  <1> QED BY <1>1 DEF CallIs, OcSlot, OcReleases

\* The holder of a reservation goes on in the slot.
LEMMA OcSlotHolder ==
  ASSUME OcInv, OcSlot, NEW c \in Calls, call[c].pc \in Holding,
         call'[c].pc \in Owning \ {"release"}, slot \in {None, Ref[c]}, slot' = Ref[c],
         \A e \in Calls \ {c} : call'[e] = call[e], UNCHANGED <<disp, unknown>>,
         \A t \in Turns \ {Ref[c]} : nat'[t] = nat[t]
  PROVE  OcSlot'
  <1>1. Ref[c] \in Turns /\ disp[Ref[c]] = "none"
    <2>1. CallIs(c, call[c], launching[Ref[c]], disp[Ref[c]], nat[Ref[c]].state)
      BY OcAt
    <2> QED BY <2>1, OcTurnsAre DEF CallIs
  <1>2. OcOwners'
    BY OcTurnsAre DEF OcSlot, OcOwners
  <1>3. OcReleases'
    <2> SUFFICES ASSUME NEW e \in Calls, call'[e].pc = "release"
                 PROVE  /\ nat'[Ref[e]].state = "none"
                        /\ \A d \in Calls \ {e} : Ref[d] = Ref[e] => call'[d].pc \notin Holding \cup {"release"}
      BY DEF OcReleases
    <2>1. e # c /\ call[e].pc = "release"
      OBVIOUS
    <2>2. Ref[e] # Ref[c]
      BY <2>1, OcNoRelease
    <2> QED BY <2>1, <2>2, OcTurnsAre DEF OcSlot, OcReleases
  <1>4. OcOwned'
    BY <1>1, OcTurnsAre DEF OcSlot, OcOwned
  <1>5. OcOpen'
    BY <1>1 DEF OcOpen
  <1> QED BY <1>2, <1>3, <1>4, <1>5 DEF OcSlot

\* A call that has nothing to do with the slot, or waits for it.
LEMMA OcSlotBegins ==
  ASSUME OcInv, OcSlot, OcHandover, NEW c \in Calls,
         \/ Opencode!NoAttempt(c) \/ Opencode!Dispatch(c) \/ Opencode!Launched(c) \/ Opencode!LaunchFails(c)
         \/ Opencode!LookUpChild(c) \/ Opencode!Reserve(c) \/ Opencode!Join(c) \/ Opencode!SlotWaitCancelled(c)
  PROVE  OcSlot'
  <1> USE DEF Opencode!Return
  <1>1. call \in [Calls -> OcCall] /\ call[c] \in OcCall
    BY DEF OcInv, OcTurnsTyped
  <1>2. ASSUME NEW k \in OcCall, call' = [call EXCEPT ![c] = k],
               k.pc \in {"launch", "await", "reserve", "join", "returned"},
               call[c].pc \in Before \ Owning, UNCHANGED <<disp, unknown, slot, nat>>
        PROVE  OcSlot'
    <2>1. call'[c].pc \notin Holding \cup Owning /\ call[c].pc \notin Owning
          /\ \A e \in Calls \ {c} : call'[e] = call[e]
      BY <1>1, <1>2 DEF Holding, Owning
    <2> QED BY <1>2, <2>1, OcSlotElsewhere
  <1>3. ASSUME Opencode!NoAttempt(c) \/ Opencode!LaunchFails(c) \/ Opencode!SlotWaitCancelled(c)
               \/ Opencode!Dispatch(c) \/ Opencode!Launched(c) \/ Opencode!Join(c) \/ Opencode!LookUpChild(c)
        PROVE  UNCHANGED <<disp, unknown, slot, nat>> /\ call[c].pc \in Before \ Owning
    BY <1>3 DEF Opencode!NoAttempt, Opencode!Dispatch, Opencode!Launched, Opencode!Join, Opencode!LaunchFails,
                Opencode!LookUpChild, Opencode!SlotWaitCancelled, Opencode!RejectEarly, Opencode!WithClient,
                Opencode!DispatchRest, Before, Owning
  <1>4. ASSUME NEW v \in OcAnswers, NEW s \in OcAnswers, call[c].pc \in Before \ Owning,
               call' = [call EXCEPT ![c] = [Opencode!Return(@, v) EXCEPT !.shared = s]],
               UNCHANGED <<disp, unknown, slot, nat>>
        PROVE  OcSlot'
    <2> DEFINE k == [Opencode!Return(call[c], v) EXCEPT !.shared = s]
    <2>1. k \in OcCall /\ k.pc = "returned"
      BY <1>1 DEF OcCall, OcPcs, OcGens
    <2>2. call' = [call EXCEPT ![c] = k]
      BY <1>4
    <2> HIDE DEF k
    <2> QED BY <1>2, <1>4, <2>1, <2>2
  <1>5. ASSUME NEW v \in OcAnswers, call[c].pc \in Before \ Owning,
               call' = [call EXCEPT ![c] = Opencode!Return(@, v)], UNCHANGED <<disp, unknown, slot, nat>>
        PROVE  OcSlot'
    <2> DEFINE k == Opencode!Return(call[c], v)
    <2>1. k \in OcCall /\ k.pc = "returned"
      BY <1>1 DEF OcCall, OcPcs, OcGens
    <2>2. call' = [call EXCEPT ![c] = k]
      BY <1>5
    <2> HIDE DEF k
    <2> QED BY <1>2, <1>5, <2>1, <2>2
  <1>6. ASSUME NEW l \in {"launch", "await"}, Opencode!Goto(c, l), call[c].pc \in Before \ Owning,
               UNCHANGED <<disp, unknown, slot, nat>>
        PROVE  OcSlot'
    <2> DEFINE k == [call[c] EXCEPT !.pc = l]
    <2>1. k \in OcCall /\ k.pc = l
      BY <1>1 DEF OcCall, OcPcs
    <2>2. call' = [call EXCEPT ![c] = k]
      BY <1>6 DEF Opencode!Goto
    <2> HIDE DEF k
    <2> QED BY <1>2, <1>6, <2>1, <2>2
  <1>7. ASSUME Opencode!WithClient(c, child), call[c].pc \in Before \ Owning,
               UNCHANGED <<disp, unknown, slot, nat>>
        PROVE  OcSlot'
    <2> DEFINE k == [call[c] EXCEPT !.pc = "reserve", !.gen = child]
    <2>1. k \in OcCall /\ k.pc = "reserve"
      BY <1>1 DEF OcCall, OcPcs, OcInv, OcServerTyped
    <2>2. call' = [call EXCEPT ![c] = k]
      BY <1>7 DEF Opencode!WithClient
    <2> HIDE DEF k
    <2> QED BY <1>2, <1>7, <2>1, <2>2
  <1>8. {"accepted", "rejected", "zero"} \subseteq OcAnswers
    BY DEF OcAnswers
  <1>9. CASE Opencode!NoAttempt(c)
    BY <1>3, <1>5, <1>8, <1>9 DEF Opencode!NoAttempt
  <1>10. CASE Opencode!LaunchFails(c)
    BY <1>3, <1>5, <1>8, <1>10 DEF Opencode!LaunchFails, Opencode!RejectEarly
  <1>11. CASE Opencode!SlotWaitCancelled(c)
    BY <1>3, <1>4, <1>8, <1>11 DEF Opencode!SlotWaitCancelled
  <1>12. CASE Opencode!Dispatch(c)
    BY <1>3, <1>6, <1>7, <1>12 DEF Opencode!Dispatch
  <1>13. CASE Opencode!Launched(c)
    BY <1>3, <1>6, <1>13 DEF Opencode!Launched
  <1>14. CASE Opencode!LookUpChild(c)
    BY <1>3, <1>5, <1>7, <1>8, <1>14 DEF Opencode!LookUpChild, Opencode!RejectEarly
  <1>15. CASE Opencode!Join(c)
    <2>1. call[c].pc = "join" /\ call' = [call EXCEPT ![c] = Opencode!Return(@, call[call[c].joined].shared)]
      BY <1>15 DEF Opencode!Join
    <2>2. CallIs(c, call[c], launching[Ref[c]], disp[Ref[c]], nat[Ref[c]].state)
      BY OcAt
    <2>3. call[call[c].joined].shared \in OcAnswers
      BY <1>1, <2>1, <2>2 DEF CallIs, OcCall
    <2> HIDE DEF Opencode!Return
    <2> QED BY <1>3, <1>5, <1>15, <2>1, <2>3
  <1>16. CASE Opencode!Reserve(c)
    <2>1. /\ call[c].pc = "reserve" /\ UNCHANGED <<slot, disp, unknown, nat>>
          /\ LateCalls \/ \A d \in Calls : Ref[d] = Ref[c] => call[d].pc # "release"
      BY <1>16 DEF Opencode!Reserve, Opencode!DispatchRest
    <2>2. call[c].pc \in Before \ Owning
      BY <2>1 DEF Before, Owning
    <2>3. CASE call' = [call EXCEPT ![c] = Opencode!Return(@, "accepted")]
      BY <1>5, <1>8, <2>1, <2>2, <2>3
    <2>4. CASE launching[Ref[c]] # None /\ call' = [call EXCEPT ![c].pc = "join", ![c].joined = launching[Ref[c]]]
      <3> DEFINE k == [call[c] EXCEPT !.pc = "join", !.joined = launching[Ref[c]]]
      <3>1. k \in OcCall /\ k.pc = "join"
        BY <1>1, OcAt DEF OcCall, OcPcs
      <3>2. call' = [call EXCEPT ![c] = k]
        BY <2>4
      <3> HIDE DEF k
      <3> QED BY <1>2, <2>1, <2>2, <3>1, <3>2
    <2>5. CASE disp[Ref[c]] = "none" /\ Opencode!Goto(c, "slot")
      <3>1. call'[c].pc = "slot" /\ \A e \in Calls \ {c} : call'[e] = call[e]
        BY <1>1, <2>5 DEF Opencode!Goto, OcCall
      <3>2. OcOwners' /\ OcOwned' /\ OcOpen'
        BY <2>1, <3>1 DEF OcSlot, OcOwners, OcOwned, OcOpen, Owning
      <3>3. OcReleases'
        <4> SUFFICES ASSUME NEW e \in Calls, call'[e].pc = "release"
                     PROVE  /\ nat'[Ref[e]].state = "none"
                            /\ \A d \in Calls \ {e} : Ref[d] = Ref[e] => call'[d].pc \notin Holding \cup {"release"}
          BY DEF OcReleases
        <4>1. e # c /\ call[e].pc = "release"
          BY <3>1
        <4>2. Ref[e] # Ref[c]
          BY <2>1, <4>1 DEF OcHandover
        <4> QED BY <2>1, <3>1, <4>1, <4>2 DEF OcSlot, OcReleases
      <3> QED BY <3>2, <3>3 DEF OcSlot
    <2> QED BY <1>16, <2>3, <2>4, <2>5 DEF Opencode!Reserve
  <1> QED BY <1>9, <1>10, <1>11, <1>12, <1>13, <1>14, <1>15, <1>16

\* The owner of the slot looks up, prompts, and has an outcome.
LEMMA OcSlotHeld ==
  ASSUME OcInv, OcSlot, NEW c \in Calls,
         Opencode!AcquireSlot(c) \/ Opencode!VerifyPrior(c) \/ Opencode!PromptAsync(c)
  PROVE  OcSlot'
  <1>1. call \in [Calls -> OcCall] /\ call[c] \in OcCall /\ nat \in [Turns -> OcNative] /\ Ref[c] \in Turns
    BY OcTurnsAre DEF OcInv, OcTurnsTyped
  <1>2. UNCHANGED <<disp, unknown>> /\ call[c].pc \in {"slot", "verify", "prompt"}
    BY DEF Opencode!AcquireSlot, Opencode!VerifyPrior, Opencode!PromptAsync, Opencode!DispatchRest,
           Opencode!NativeRest
  <1>3. slot \in {None, Ref[c]} /\ slot' = Ref[c]
    <2>1. CASE Opencode!AcquireSlot(c)
      BY <2>1 DEF Opencode!AcquireSlot
    <2>2. CASE Opencode!VerifyPrior(c) \/ Opencode!PromptAsync(c)
      <3>1. call[c].pc \in Owning /\ slot' = slot
        BY <2>2 DEF Opencode!VerifyPrior, Opencode!PromptAsync, Opencode!NativeRest, Owning
      <3> QED BY <3>1 DEF OcSlot, OcOwners
    <2> QED BY <2>1, <2>2
  <1>4. \A t \in Turns \ {Ref[c]} : nat'[t] = nat[t]
    BY <1>1 DEF Opencode!AcquireSlot, Opencode!VerifyPrior, Opencode!PromptAsync, Opencode!DispatchRest,
                Opencode!NativeRest, Opencode!Record
  <1>5. call'[c].pc \in {"verify", "prompt", "finish"} /\ \A e \in Calls \ {c} : call'[e] = call[e]
    <2>1. ASSUME NEW l \in {"verify", "prompt"}, Opencode!Goto(c, l)
          PROVE  call'[c].pc = l /\ \A e \in Calls \ {c} : call'[e] = call[e]
      BY <1>1, <2>1 DEF Opencode!Goto, OcCall
    <2>2. ASSUME NEW v, Opencode!Outcome(c, v)
          PROVE  call'[c].pc = "finish" /\ \A e \in Calls \ {c} : call'[e] = call[e]
      BY <1>1, <2>2 DEF Opencode!Outcome, OcCall
    <2>3. CASE Opencode!AcquireSlot(c)
      BY <2>1, <2>3 DEF Opencode!AcquireSlot
    <2>4. CASE Opencode!VerifyPrior(c)
      BY <2>1, <2>2, <2>4 DEF Opencode!VerifyPrior
    <2>5. CASE Opencode!PromptAsync(c)
      BY <2>2, <2>5 DEF Opencode!PromptAsync
    <2> QED BY <2>3, <2>4, <2>5
  <1>6. call[c].pc \in Holding /\ call'[c].pc \in Owning \ {"release"}
    BY <1>2, <1>5 DEF Holding, Owning
  <1> QED BY <1>2, <1>3, <1>4, <1>5, <1>6, OcSlotHolder

\* The outcome is published: the turn is live or unknown, or its slot is yet to be released.
LEMMA OcSlotPublished ==
  ASSUME OcInv, OcSlot, NEW c \in Calls, Opencode!FinishDispatch(c)
  PROVE  OcSlot'
  <1> DEFINE t == Ref[c]
             v == call[c].outcome
  <1>1. /\ t \in Turns /\ call[c] \in OcCall /\ call \in [Calls -> OcCall] /\ disp \in [Turns -> {"none", "live", "terminal"}]
        /\ CallIs(c, call[c], launching[t], disp[t], nat[t].state)
    BY OcAt DEF OcTurnsTyped
  <1>2. /\ call[c].pc = "finish" /\ UNCHANGED <<nat, slot>>
        /\ unknown' = CASE v = "accepted" -> unknown \ {t}
                        [] v = "unknown" -> unknown \cup {t}
                        [] OTHER -> unknown
        /\ disp' = IF v = "accepted" THEN [disp EXCEPT ![t] = "live"] ELSE disp
    BY DEF Opencode!FinishDispatch
  <1>3. v \in {"accepted", "rejected", "unknown"} /\ (v = "rejected" => nat[t].state = "none")
        /\ call[c].pc \in Holding /\ call[c].pc \in Owning
    BY <1>1, <1>2 DEF CallIs, Holding, Owning
  <1>4. call'[c].pc = (IF v = "rejected" THEN "release" ELSE "returned") /\ \A e \in Calls \ {c} : call'[e] = call[e]
    BY <1>1 DEF Opencode!FinishDispatch, Opencode!Return, OcCall
  <1>5. slot = t
    BY <1>3 DEF OcSlot, OcOwners
  <1>6. \A e \in Calls \ {c} : Ref[e] = t => call[e].pc \notin Holding \cup {"release"}
    BY <1>3, OcNoRelease
  <1>7. OcOwners'
    BY <1>2, <1>4, <1>5 DEF OcSlot, OcOwners
  <1>8. OcReleases'
    <2> SUFFICES ASSUME NEW e \in Calls, call'[e].pc = "release"
                 PROVE  /\ nat[Ref[e]].state = "none"
                        /\ \A d \in Calls \ {e} : Ref[d] = Ref[e] => call'[d].pc \notin Holding \cup {"release"}
      BY <1>2 DEF OcReleases
    <2>1. CASE e = c
      BY <1>3, <1>4, <1>6, <2>1
    <2>2. CASE e # c
      <3>1. call[e].pc = "release" /\ Ref[e] # t
        BY <1>4, <1>6, <2>2
      <3> QED BY <1>4, <3>1 DEF OcSlot, OcReleases
    <2> QED BY <2>1, <2>2
  <1>9. OcOwned'
    BY <1>1, <1>2 DEF OcSlot, OcOwned
  <1>10. OcOpen'
    <2>1. CASE v = "accepted"
      BY <1>1, <1>2, <1>5, <2>1 DEF OcOpen
    <2>2. CASE v = "unknown"
      BY <1>1, <1>2, <1>5, <2>2 DEF OcOpen
    <2>3. CASE v = "rejected"
      BY <1>1, <1>2, <1>4, <1>5, <2>3 DEF OcOpen, Owning
    <2> QED BY <1>3, <2>1, <2>2, <2>3
  <1> QED BY <1>7, <1>8, <1>9, <1>10 DEF OcSlot

\* A rejected call lets go of the slot, which is its turn's.
LEMMA OcSlotReleased ==
  ASSUME OcInv, OcSlot, NEW c \in Calls, Opencode!ReleaseSlot(c)
  PROVE  OcSlot'
  <1>1. /\ call[c].pc = "release" /\ slot' = None /\ UNCHANGED <<disp, unknown, nat>>
        /\ call'[c].pc = "returned" /\ \A e \in Calls \ {c} : call'[e] = call[e]
    BY DEF Opencode!ReleaseSlot, Opencode!Goto, Opencode!DispatchRest, OcInv, OcTurnsTyped, OcCall
  <1>2. /\ slot = Ref[c] /\ nat[Ref[c]].state = "none"
        /\ \A e \in Calls \ {c} : Ref[e] = Ref[c] => call[e].pc \notin Owning
    BY <1>1 DEF OcSlot, OcOwners, OcReleases, Owning, Holding
  <1>3. \A e \in Calls : call'[e].pc \notin Owning
    BY <1>1, <1>2 DEF OcSlot, OcOwners, Owning
  <1>4. OcOwners' /\ OcOpen'
    BY <1>1, <1>3 DEF OcOwners, OcOpen
  <1>5. OcReleases'
    BY <1>3 DEF OcReleases, Owning
  <1>6. OcOwned'
    BY <1>1, <1>2, OcTurnsAre DEF OcSlot, OcOwned
  <1> QED BY <1>4, <1>5, <1>6 DEF OcSlot

\* The turns of the native session, its child and its pumps: what ends frees the slot.
LEMMA OcSlotMoves ==
  ASSUME OcInv, OcSlot,
         \/ \E t \in Turns : Opencode!Answer(t) \/ Opencode!Collect(t) \/ Opencode!Reconcile(t)
         \/ Opencode!ChildStep
         \/ \E p \in Opencode!Pumps : Opencode!PumpStep(p)
         \/ \E o \in Observers : Opencode!ObserveStep(o)
  PROVE  OcSlot'
  <1>1. OcTurnsTyped /\ \A t \in Turns : nat[t] \in OcNative
    BY DEF OcInv, OcTurnsTyped
  <1>2. UNCHANGED <<call, disp, unknown, slot, nat>> => OcSlot'
    BY OcSlotKept
  <1>3. ASSUME NEW t \in Turns, Opencode!Answer(t) PROVE OcSlot'
    <2>1. UNCHANGED <<call, disp, unknown, slot>> /\ nat' = [nat EXCEPT ![t].state = "done"] /\ nat[t].state = "active"
      BY <1>3 DEF Opencode!Answer, Opencode!NatRest, Opencode!turnVars
    <2>2. \A u \in Turns : nat'[u].state = nat[u].state \/ (nat[u].state = "active" /\ nat'[u].state = "done")
      BY <1>1, <2>1 DEF OcTurnsTyped, OcNative
    <2> QED BY <2>1, <2>2, OcSlotKept
  <1>4. ASSUME NEW t \in Turns, Opencode!MarkTurnTerminal(t), nat[t].state = "done", UNCHANGED <<call, unknown, nat>>
        PROVE  OcSlot'
    <2>1. CASE disp[t] = "none"
      <3>1. UNCHANGED <<disp, slot>>
        BY <1>1, <1>4, <2>1 DEF Opencode!MarkTurnTerminal, OcTurnsTyped
      <3> QED BY <1>2, <1>4, <3>1
    <2>2. CASE disp[t] # "none"
      <3>1. disp' = [disp EXCEPT ![t] = "terminal"] /\ slot' = IF slot = t THEN None ELSE slot
        BY <1>4, <2>2 DEF Opencode!MarkTurnTerminal
      <3> QED BY <1>4, <2>2, <3>1, OcFrees
    <2> QED BY <2>1, <2>2
  <1>5. ASSUME NEW t \in Turns, Opencode!Collect(t) PROVE OcSlot'
    BY <1>5, OcFrees DEF Opencode!Collect, Opencode!ReleaseFor
  <1>6. ASSUME NEW t \in Turns, Opencode!Reconcile(t) PROVE OcSlot'
    BY <1>4, <1>6 DEF Opencode!Reconcile
  <1>7. CASE Opencode!ChildStep
    <2>1. UNCHANGED <<call, disp, unknown, slot>>
      BY <1>7 DEF Opencode!ChildStep, Opencode!TimerFires, Opencode!Park, Opencode!StopPump, Opencode!Cancel,
                  Opencode!ChildDies, Opencode!NatRest, Opencode!turnVars
    <2>2. \/ UNCHANGED nat
          \/ \E g : nat' = Opencode!Lose(g)
          \/ nat' = [t \in Turns |-> IF nat[t].state = "active" /\ nat[t].gen = child
                                     THEN [nat[t] EXCEPT !.state = "done"] ELSE nat[t]]
      BY <1>7 DEF Opencode!ChildStep, Opencode!TimerFires, Opencode!Park, Opencode!StopPump, Opencode!Cancel,
                  Opencode!ChildDies
    <2>3. \A t \in Turns : \/ nat'[t].state = nat[t].state
                           \/ nat[t].state = "active" /\ nat'[t].state \in {"done", "lost"}
      BY <1>1, <2>2 DEF Opencode!Lose, OcNative
    <2> QED BY <2>1, <2>3, OcSlotKept
  <1>8. ASSUME NEW p \in Opencode!Pumps, Opencode!PumpStep(p) PROVE OcSlot'
    <2>1. PumpIs(pump[p]) /\ UNCHANGED <<call, unknown, nat>>
      BY <1>8 DEF OcInv, OcTaps, OcPumps, Opencode!Pumps, Opencode!PumpStep, Opencode!TakeEvent, Opencode!Resync,
                  Opencode!Mark, Opencode!Route, Opencode!Detach, Opencode!PumpRest
    <2>2. CASE Opencode!Mark(p)
      <3>1. pump[p].turn \in Turns /\ nat[pump[p].turn].state = "done" /\ Opencode!MarkTurnTerminal(pump[p].turn)
        BY <2>1, <2>2 DEF PumpIs, Opencode!Mark
      <3> QED BY <1>4, <2>1, <3>1
    <2>3. CASE Opencode!Detach(p)
      <3> DEFINE t == pump[p].turn
      <3>1. /\ pump[p].pc = "detach" /\ UNCHANGED slot
            /\ disp' = [disp EXCEPT ![t] = IF pump[p].resync # None /\ @ # "none" THEN "terminal" ELSE @]
        BY <2>3 DEF Opencode!Detach
      <3>2. t \in Turns /\ (pump[p].resync # None => disp[t] = "terminal")
        BY <2>1, <3>1 DEF PumpIs
      <3>3. UNCHANGED disp
        BY <1>1, <3>1, <3>2 DEF OcTurnsTyped
      <3> QED BY <1>2, <2>1, <3>1, <3>3
    <2>4. CASE Opencode!Route(p) \/ \E t \in Turns : Opencode!TakeEvent(p, t) \/ Opencode!Resync(p, t)
      <3>1. UNCHANGED <<disp, slot>>
        BY <2>4 DEF Opencode!Route, Opencode!TakeEvent, Opencode!Resync
      <3> QED BY <1>2, <2>1, <3>1
    <2> QED BY <1>8, <2>2, <2>3, <2>4 DEF Opencode!PumpStep
  <1>9. ASSUME NEW o \in Observers, Opencode!ObserveStep(o) PROVE OcSlot'
    <2>1. UNCHANGED <<call, disp, unknown, slot, nat>>
      BY <1>9 DEF Opencode!ObserveStep, Opencode!Observe, Opencode!Register, Opencode!RouteKept,
                  Opencode!DetachKept, Opencode!CancelObserve, Opencode!DetachTap, Opencode!ObsRest,
                  Opencode!turnVars
    <2> QED BY <1>2, <2>1
  <1> QED BY <1>3, <1>5, <1>6, <1>7, <1>8, <1>9

\* Every step of the opencode adapter keeps the slot, if a turn is handed over once.
LEMMA OcSlotNext ==
  ASSUME OcInv, OcSlot, OcHandover, Opencode!Next
  PROVE  OcSlot'
  <1>1. ASSUME NEW c \in Calls, Opencode!DispatchStep(c) PROVE OcSlot'
    BY <1>1, OcSlotBegins, OcSlotHeld, OcSlotPublished, OcSlotReleased DEF Opencode!DispatchStep
  <1> QED BY <1>1, OcSlotMoves DEF Opencode!Next

\* A native session works on one prompt at a time, and its slot is not left behind by a turn that is
\* over, when a turn is handed over once or a rejected call is waited for.
THEOREM OpencodeAlwaysHeld ==
  ASSUME OcHandover
  PROVE  MCSpec => []OpencodeSlotHeld
  <1> DEFINE I == OcSlotPart
  <1>1. MCInit => I
    <2> SUFFICES ASSUME Opencode!Init PROVE OcInv /\ OcSlot
      BY DEF MCInit, OcSlotPart
    <2>1. OcInv
      BY OcStart
    <2>2. OcSlot
      BY OcTurnsAre DEF Opencode!Init, OcSlot, OcOwners, OcReleases, OcOwned, OcOpen, Owning
    <2> QED BY <2>1, <2>2
  <1>2. I /\ [MCNext]_mcVars => I'
    <2> SUFFICES ASSUME OcSlotPart, [MCNext]_mcVars, part' = "opencode" PROVE OcInv' /\ OcSlot'
      BY DEF OcSlotPart
    <2>1. CASE UNCHANGED mcVars
      <3>1. UNCHANGED Opencode!vars /\ part = "opencode"
        BY <2>1 DEF mcVars, vars, serverVars, turnVars, opencodeOnly, Opencode!vars, Opencode!serverVars,
                    Opencode!parkVars, Opencode!turnVars, Opencode!pumpVars
      <3>2. UNCHANGED <<call, disp, unknown, slot, nat>>
        BY <3>1 DEF Opencode!vars, Opencode!turnVars
      <3> QED BY <3>1, <3>2, OcStutter, OcSlotKept DEF OcSlotPart
    <2>2. CASE MCNext
      BY <2>2, OcNext, OcSlotNext DEF OcSlotPart, MCNext
    <2> QED BY <2>1, <2>2
  <1>3. I => OpencodeSlotHeld
    <2> SUFFICES ASSUME OcSlot PROVE Opencode!OneTurnPerNativeSession /\ Opencode!SlotOwnerIsOpen
      BY DEF OcSlotPart, OpencodeSlotHeld
    <2> QED BY DEF OcSlot, OcOwned, OcOpen, Owning, Opencode!OneTurnPerNativeSession, Opencode!SlotOwnerIsOpen
  <1> QED BY <1>1, <1>2, <1>3, PTL DEF MCSpec, mcVars
=============================================================================
