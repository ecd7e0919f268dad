----------------------------- MODULE OpencodeTurn -----------------------------
(***************************************************************************)
(* The opencode adapter's turns in one native session: Dispatch with its   *)
(* reservation and the native session's slot, the serve child that is      *)
(* launched on demand and parked when idle, the pump that drains the       *)
(* child's event stream into the taps of Observe, Collect, Cancel and      *)
(* Reconcile.                                                              *)
(*                                                                         *)
(* A step is one critical section of the adapter, of the server manager or *)
(* of a pump, or one request to the child; sections that commute with      *)
(* every other step are joined.  All of this state is in memory: a restart *)
(* of the service begins again from Init.  The session's binding does not  *)
(* change.  Left out: creation of the native session, payloads, progress   *)
(* and permission events (they only fill a tap, which is one of the        *)
(* faults), credentials and the launch's shape.  The native server keeps   *)
(* a prompt whose request failed after its body was sent, or does not; it  *)
(* does not take it up later.                                              *)
(***************************************************************************)
EXTENDS Naturals

CONSTANTS
  Turns, Calls, Ref,       \* Dispatch calls and the turn of each
  Observers, Watched,      \* Observe calls and the turn of each
  None,
  MaxGen,                  \* bound on serve children
  MaxPump,                 \* bound on pumps
  MaxFault,                \* bound on faults: a lost response, a broken stream, a full tap, a
                           \* child that dies or survives its termination
  LateCalls                \* a call may reserve its turn before a rejected call of the same
                           \* turn has released the slot

Gens == 1 .. MaxGen
Pumps == 1 .. MaxPump

VARIABLES
  child,      \* the registered serve child, or None
  gens,       \* children launched so far
  alive,      \* the children whose process runs
  launcher,   \* the call whose launch is in flight, or None
  parked,     \* a parked record exists
  timer,      \* the idle timer is armed
  parker,     \* where a fired timer's callback is: none, park, stop
  slot,       \* the turn that owns the native session's slot, or None
  launching,  \* launching[t]: the call that holds the turn's reservation, or None
  disp,       \* disp[t]: none, live or terminal: the entry in a.dispatches
  unknown,    \* the turns in a.unknown
  verdict,    \* a.verdicts
  call,       \* call[c]: program counter and locals of Dispatch
  nat,        \* nat[t]: the native message: none, active, done, lost; and its child
  pump,       \* pump[p]: the pumps; pumps: how many; current: the one in a.pumps, or None
  pumps,
  current,
  obs,        \* obs[o]: program counter of Observe, its tap's stream
  faults

serverVars == <<child, gens, alive, launcher, parked>>
parkVars == <<timer, parker>>
turnVars == <<slot, launching, disp, unknown, verdict, call>>
pumpVars == <<pump, pumps, current, obs>>
vars == <<serverVars, parkVars, turnVars, nat, pumpVars, faults>>

NewPump(g) == [gen |-> g, seen |-> {}, kept |-> {}, taps |-> [t \in Turns |-> None],
               pc |-> "idle", turn |-> None, resync |-> None, stopped |-> FALSE]

Init ==
  /\ child = None /\ gens = 0 /\ alive = {} /\ launcher = None /\ parked = FALSE
  /\ timer = FALSE /\ parker = "none"
  /\ slot = None
  /\ launching = [t \in Turns |-> None]
  /\ disp = [t \in Turns |-> "none"]
  /\ unknown = {}
  /\ verdict = [t \in Turns |-> None]
  /\ call = [c \in Calls |-> [pc |-> "idle", gen |-> None, joined |-> None,
                              outcome |-> None, shared |-> None]]
  /\ nat = [t \in Turns |-> [state |-> "none", gen |-> None]]
  /\ pump = [p \in Pumps |-> NewPump(None)] /\ pumps = 0 /\ current = None
  /\ obs = [o \in Observers |-> [pc |-> "idle", pump |-> None, stream |-> "none",
                                 got |-> 0]]
  /\ faults = 0

Fault == faults < MaxFault /\ faults' = faults + 1

-----------------------------------------------------------------------------
(* Dispatch.                                                               *)

Goto(c, l) == call' = [call EXCEPT ![c].pc = l]
Return(k, v) == [k EXCEPT !.pc = "returned", !.outcome = v, !.gen = None, !.joined = None]
WithClient(c, g) == call' = [call EXCEPT ![c].pc = "reserve", ![c].gen = g]
DispatchRest == UNCHANGED <<nat, pumpVars, parker>>

\* Rejected before the reservation: recordVerdict.
RejectEarly(c) ==
  /\ call' = [call EXCEPT ![c] = Return(@, "rejected")]
  /\ verdict' = [verdict EXCEPT ![Ref[c]] = "rejected"]
  /\ UNCHANGED <<slot, launching, disp, unknown>>

\* The turn has no attempt identity: rejected, and nothing is kept.
NoAttempt(c) ==
  /\ call[c].pc = "idle"
  /\ call' = [call EXCEPT ![c] = Return(@, "rejected")]
  /\ UNCHANGED <<serverVars, timer, slot, launching, disp, unknown, verdict, faults>>
  /\ DispatchRest

\* cancelIdleParkTimer and clientForOrResume: the registered child, dead or alive, or the
\* launch in flight, or a launch of its own.
Dispatch(c) ==
  /\ call[c].pc = "idle"
  /\ timer' = FALSE
  /\ \/ child # None /\ WithClient(c, child) /\ UNCHANGED launcher
     \/ child = None /\ launcher # None /\ Goto(c, "await") /\ UNCHANGED launcher
     \/ child = None /\ launcher = None /\ launcher' = c /\ Goto(c, "launch")
  /\ UNCHANGED <<child, gens, alive, parked, slot, launching, disp, unknown, verdict, faults>>
  /\ DispatchRest

\* start: the launch, its health check and, for a parked session, the check that the native
\* session survived; then the child is registered.
Launched(c) ==
  /\ call[c].pc = "launch"
  /\ gens < MaxGen
  /\ gens' = gens + 1 /\ child' = gens' /\ alive' = alive \cup {gens'} /\ parked' = FALSE
  /\ launcher' = None
  /\ Goto(c, "await")
  /\ UNCHANGED <<timer, slot, launching, disp, unknown, verdict, faults>> /\ DispatchRest

LaunchFails(c) ==
  /\ call[c].pc = "launch"
  /\ launcher' = None
  /\ RejectEarly(c)
  /\ UNCHANGED <<child, gens, alive, parked, timer, faults>> /\ DispatchRest

\* After a launch, its own or another's, the child is looked up again.
LookUpChild(c) ==
  /\ call[c].pc = "await" /\ launcher = None
  /\ \/ child # None /\ WithClient(c, child) /\ UNCHANGED <<slot, launching, disp, unknown, verdict>>
     \/ child = None /\ RejectEarly(c)
  /\ UNCHANGED <<serverVars, timer, faults>> /\ DispatchRest

\* The reservation: a dispatched turn answers at once, a second call joins the first.
Reserve(c) ==
  LET t == Ref[c] IN
  /\ call[c].pc = "reserve"
  /\ LateCalls \/ \A d \in Calls : Ref[d] = t => call[d].pc # "release"
  /\ \/ /\ disp[t] # "none"
        /\ call' = [call EXCEPT ![c] = Return(@, "accepted")]
        /\ UNCHANGED launching
     \/ /\ disp[t] = "none" /\ launching[t] # None
        /\ call' = [call EXCEPT ![c].pc = "join", ![c].joined = launching[t]]
        /\ UNCHANGED launching
     \/ /\ disp[t] = "none" /\ launching[t] = None
        /\ launching' = [launching EXCEPT ![t] = c]
        /\ Goto(c, "slot")
  /\ UNCHANGED <<serverVars, timer, slot, disp, unknown, verdict, faults>> /\ DispatchRest

Join(c) ==
  /\ call[c].pc = "join" /\ call[call[c].joined].shared # None
  /\ call' = [call EXCEPT ![c] = Return(@, call[call[c].joined].shared)]
  /\ UNCHANGED <<serverVars, timer, slot, launching, disp, unknown, verdict, faults>>
  /\ DispatchRest

\* acquireNativeSlot: the owner of the slot enters it again.
AcquireSlot(c) ==
  /\ call[c].pc = "slot" /\ slot \in {None, Ref[c]}
  /\ slot' = Ref[c]
  /\ Goto(c, IF Ref[c] \in unknown THEN "verify" ELSE "prompt")
  /\ UNCHANGED <<serverVars, timer, launching, disp, unknown, verdict, faults>> /\ DispatchRest

\* The caller gives up waiting: the reservation ends without an outcome.
SlotWaitCancelled(c) ==
  /\ call[c].pc = "slot" /\ slot \notin {None, Ref[c]}
  /\ launching' = [launching EXCEPT ![Ref[c]] = None]
  /\ verdict' = [verdict EXCEPT ![Ref[c]] = "rejected"]
  /\ call' = [call EXCEPT ![c] = [Return(@, "rejected") EXCEPT !.shared = "zero"]]
  /\ UNCHANGED <<serverVars, timer, slot, disp, unknown, faults>> /\ DispatchRest

Outcome(c, v) == call' = [call EXCEPT ![c].pc = "finish", ![c].outcome = v]
NativeRest == UNCHANGED <<serverVars, timer, parker, pumpVars, slot, launching, disp,
                          unknown, verdict>>

\* After an ambiguous attempt the exact message is looked up first.
VerifyPrior(c) ==
  /\ call[c].pc = "verify"
  /\ \/ /\ call[c].gen \in alive
        /\ IF nat[Ref[c]].state # "none" THEN Outcome(c, "accepted") ELSE Goto(c, "prompt")
        /\ UNCHANGED faults
     \/ call[c].gen \notin alive /\ Outcome(c, "unknown") /\ UNCHANGED faults
     \/ call[c].gen \in alive /\ Fault /\ Outcome(c, "unknown")
  /\ UNCHANGED nat /\ NativeRest

Record(c) == nat' = [nat EXCEPT ![Ref[c]] = [state |-> "active", gen |-> call[c].gen]]

\* PromptAsync: a failure before the body is sent, or a refusal, rejects; one after it is
\* unknown, and the prompt was recorded or not.
PromptAsync(c) ==
  /\ call[c].pc = "prompt"
  /\ \/ call[c].gen \in alive /\ Record(c) /\ Outcome(c, "accepted") /\ UNCHANGED faults
     \/ UNCHANGED nat /\ Outcome(c, "rejected") /\ UNCHANGED faults
     \/ call[c].gen \in alive /\ Fault /\ (Record(c) \/ UNCHANGED nat) /\ Outcome(c, "unknown")
  /\ NativeRest

EnsurePump(g) ==
  IF current # None THEN UNCHANGED <<pump, pumps, current>>
  ELSE /\ pumps < MaxPump
       /\ pumps' = pumps + 1 /\ current' = pumps'
       /\ pump' = [pump EXCEPT ![pumps'] = NewPump(g)]

\* The outcome is published: the reservation ends, the verdict is kept, an accepted turn is
\* registered and the session's pump runs, a rejected one has yet to release the slot.
FinishDispatch(c) ==
  LET t == Ref[c] v == call[c].outcome IN
  /\ call[c].pc = "finish"
  /\ launching' = [launching EXCEPT ![t] = None]
  /\ verdict' = [verdict EXCEPT ![t] = v]
  /\ call' = [call EXCEPT ![c] = [Return(@, v) EXCEPT !.shared = v,
                                    !.pc = IF v = "rejected" THEN "release" ELSE @]]
  /\ unknown' = CASE v = "accepted" -> unknown \ {t}
                  [] v = "unknown" -> unknown \cup {t}
                  [] OTHER -> unknown
  /\ IF v = "accepted"
     THEN disp' = [disp EXCEPT ![t] = "live"] /\ EnsurePump(call[c].gen)
     ELSE UNCHANGED <<disp, pump, pumps, current>>
  /\ UNCHANGED <<serverVars, parkVars, slot, nat, obs, faults>>

\* releaseNativeSlot: whoever owns it.
ReleaseSlot(c) ==
  /\ call[c].pc = "release"
  /\ slot' = None
  /\ Goto(c, "returned")
  /\ UNCHANGED <<serverVars, timer, launching, disp, unknown, verdict, faults>> /\ DispatchRest

DispatchStep(c) ==
  \/ NoAttempt(c) \/ Dispatch(c) \/ Launched(c) \/ LaunchFails(c) \/ LookUpChild(c)
  \/ Reserve(c) \/ Join(c) \/ AcquireSlot(c) \/ SlotWaitCancelled(c) \/ VerifyPrior(c)
  \/ PromptAsync(c) \/ FinishDispatch(c) \/ ReleaseSlot(c)

-----------------------------------------------------------------------------
(* The native session (external) and the serve child.                      *)

Lose(g) == [t \in Turns |-> IF nat[t].state = "active" /\ nat[t].gen = g
                            THEN [nat[t] EXCEPT !.state = "lost"] ELSE nat[t]]
NatRest == UNCHANGED <<turnVars, pumpVars>>

Answer(t) ==
  /\ nat[t].state = "active"
  /\ nat' = [nat EXCEPT ![t].state = "done"]
  /\ NatRest /\ UNCHANGED <<serverVars, parkVars, faults>>

\* Nothing watches the child: a dead one stays registered.
ChildDies(g) ==
  /\ g \in alive /\ Fault
  /\ alive' = alive \ {g}
  /\ nat' = Lose(g)
  /\ NatRest /\ UNCHANGED <<child, gens, launcher, parked, parkVars>>

\* Cancel: Abort ends whatever the native session is doing.
Cancel ==
  /\ child \in alive
  /\ \E t \in Turns : nat[t].state = "active" /\ nat[t].gen = child
  /\ nat' = [t \in Turns |-> IF nat[t].state = "active" /\ nat[t].gen = child
                             THEN [nat[t] EXCEPT !.state = "done"] ELSE nat[t]]
  /\ NatRest /\ UNCHANGED <<serverVars, parkVars, faults>>

Idle == \A t \in Turns : disp[t] # "live"

\* The idle timer's callback checks, and parks only after it has let go of the lock.
TimerFires ==
  /\ timer /\ parker = "none"
  /\ timer' = FALSE
  /\ parker' = IF Idle THEN "park" ELSE "none"
  /\ UNCHANGED <<serverVars, nat, faults>> /\ NatRest

\* park: the child is unregistered and terminated; when that fails its pump stays.
Park ==
  /\ parker = "park"
  /\ \/ child = None /\ parker' = "none" /\ UNCHANGED <<child, parked, alive, nat, faults>>
     \/ /\ child # None /\ child' = None /\ parked' = TRUE
        /\ \/ /\ alive' = alive \ {child} /\ nat' = Lose(child)
              /\ parker' = "stop" /\ UNCHANGED faults
           \/ Fault /\ parker' = "none" /\ UNCHANGED <<alive, nat>>
  /\ NatRest /\ UNCHANGED <<gens, launcher, timer>>

StopPump ==
  /\ parker = "stop" /\ parker' = "none"
  /\ current' = None
  /\ pump' = IF current = None THEN pump ELSE [pump EXCEPT ![current].stopped = TRUE]
  /\ UNCHANGED <<serverVars, timer, turnVars, nat, pumps, obs, faults>>

ChildStep == TimerFires \/ Park \/ StopPump \/ Cancel \/ (\E g \in Gens : ChildDies(g))

-----------------------------------------------------------------------------
(* The pump and its taps.                                                  *)

\* Slip: the terminal is marked, and the slot stays.
SlipMark(t) ==
  /\ disp' = [disp EXCEPT ![t] = IF @ = "none" THEN @ ELSE "terminal"]
  /\ UNCHANGED slot

\* markTurnTerminal: only a turn in a.dispatches is known.
MarkTurnTerminal(t) ==
  /\ disp' = [disp EXCEPT ![t] = IF @ = "none" THEN @ ELSE "terminal"]
  /\ slot' = IF disp[t] # "none" /\ slot = t THEN None ELSE slot

PumpRest == UNCHANGED <<serverVars, parkVars, launching, unknown, verdict, call, nat, pumps,
                        current>>
StreamEnds(o) == obs' = [obs EXCEPT ![o].stream = IF @ = "open" THEN "ended" ELSE @]

\* A terminal event: the cursor passes it and the terminal is kept.  The stream may break
\* between the event's id and its data, and then the event is gone.
TakeEvent(p, t) ==
  LET Next1 == [pump[p] EXCEPT !.seen = @ \cup {t}] IN
  /\ p <= pumps /\ pump[p].pc = "idle" /\ ~pump[p].stopped /\ pump[p].gen \in alive
  /\ nat[t].state = "done" /\ nat[t].gen = pump[p].gen /\ t \notin pump[p].seen
  /\ \/ /\ pump' = [pump EXCEPT ![p] = [Next1 EXCEPT !.kept = @ \cup {t}, !.pc = "mark",
                                                     !.turn = t]]
        /\ UNCHANGED faults
     \/ Fault /\ pump' = [pump EXCEPT ![p] = Next1]
  /\ UNCHANGED <<slot, disp, obs>> /\ PumpRest

\* resyncFromHistory, when the stream cannot be opened: only for the turns that have a tap.
Resync(p, t) ==
  /\ p <= pumps /\ pump[p].pc = "idle" /\ ~pump[p].stopped /\ pump[p].gen \in alive
  /\ nat[t].state = "done" /\ pump[p].taps[t] # None
  /\ Fault
  /\ pump' = [pump EXCEPT ![p].kept = @ \cup {t}, ![p].pc = "mark", ![p].turn = t,
                          ![p].resync = pump[p].taps[t]]
  /\ UNCHANGED <<slot, disp, obs>> /\ PumpRest

Mark(p) ==
  /\ pump[p].pc = "mark"
  /\ MarkTurnTerminal(pump[p].turn)
  /\ pump' = [pump EXCEPT ![p].pc = "route"]
  /\ UNCHANGED <<obs, faults>> /\ PumpRest

\* route: the event reaches the tap (sent), or the tap is closed or full and is dropped.
Sent(p, t) ==
  LET o == pump[p].taps[t] IN
  /\ o # None /\ obs[o].stream = "open"
  /\ obs' = [obs EXCEPT ![o].got = @ + 1]
  /\ UNCHANGED faults
NotSent(p, t) ==
  LET o == pump[p].taps[t] IN
  \/ (o = None \/ (o # None /\ obs[o].stream # "open")) /\ UNCHANGED <<obs, faults>>
  \/ /\ o # None /\ obs[o].stream = "open" /\ Fault
     /\ obs' = [obs EXCEPT ![o].stream = "overflow"]

Done(p) == [pump[p] EXCEPT !.pc = "idle", !.turn = None, !.resync = None]

\* Slip: the tap is ended whether or not the event reached it.
SlipRoute(p) ==
  /\ pump[p].pc = "route"
  /\ pump' = [pump EXCEPT ![p].pc = "detach"]
  /\ UNCHANGED <<obs, faults>>
  /\ UNCHANGED <<slot, disp>> /\ PumpRest

Route(p) ==
  LET t == pump[p].turn IN
  /\ pump[p].pc = "route"
  /\ \/ Sent(p, t) /\ pump' = [pump EXCEPT ![p].pc = "detach"]
     \/ NotSent(p, t) /\ pump' = [pump EXCEPT ![p] = [Done(p) EXCEPT !.taps[t] = None]]
  /\ UNCHANGED <<slot, disp>> /\ PumpRest

\* detach by message id; the resync closes the tap it had read.
Detach(p) ==
  LET t == pump[p].turn
      o == IF pump[p].resync # None THEN pump[p].resync ELSE pump[p].taps[t] IN
  /\ pump[p].pc = "detach"
  /\ pump' = [pump EXCEPT ![p] = [Done(p) EXCEPT !.taps[t] = None]]
  /\ IF o # None THEN StreamEnds(o) ELSE UNCHANGED obs
  /\ disp' = [disp EXCEPT ![t] = IF pump[p].resync # None /\ @ # "none" THEN "terminal" ELSE @]
  /\ UNCHANGED <<slot, faults>> /\ PumpRest

PumpStep(p) ==
  \/ \E t \in Turns : TakeEvent(p, t) \/ Resync(p, t)
  \/ Mark(p) \/ Route(p) \/ Detach(p)

ObsRest == UNCHANGED <<serverVars, parkVars, turnVars, nat>>

\* Observe: the session's pump, made anew when it is gone and a child is registered.
Observe(o) ==
  /\ obs[o].pc = "idle" /\ disp[Watched[o]] # "none"
  /\ current # None \/ child # None
  /\ EnsurePump(child)
  /\ obs' = [obs EXCEPT ![o].pc = "register", ![o].pump = current', ![o].stream = "open"]
  /\ ObsRest /\ UNCHANGED faults

\* register: the tap is stored and a kept terminal is read in one section, and delivered
\* after it.
Register(o) ==
  LET p == obs[o].pump t == Watched[o] IN
  /\ obs[o].pc = "register"
  /\ pump' = [pump EXCEPT ![p].taps[t] = o]
  /\ obs' = [obs EXCEPT ![o].pc = IF t \in pump[p].kept THEN "route" ELSE "open"]
  /\ ObsRest /\ UNCHANGED <<pumps, current, faults>>

RouteKept(o) ==
  LET p == obs[o].pump t == Watched[o] q == pump[p].taps[t] IN
  /\ obs[o].pc = "route"
  /\ \/ /\ q # None /\ obs[q].stream = "open"
        /\ obs' = [obs EXCEPT ![q].got = @ + 1, ![o].pc = "detach"]
        /\ UNCHANGED pump
     \/ /\ q = None \/ (q # None /\ obs[q].stream # "open")
        /\ obs' = [obs EXCEPT ![o].pc = "open"]
        /\ pump' = [pump EXCEPT ![p].taps[t] = None]
  /\ ObsRest /\ UNCHANGED <<pumps, current, faults>>

DetachTap(o, l) ==
  LET p == obs[o].pump t == Watched[o] q == pump[p].taps[t] IN
  /\ pump' = [pump EXCEPT ![p].taps[t] = None]
  /\ obs' = [x \in Observers |->
               [obs[x] EXCEPT !.stream = IF x = q /\ @ = "open" THEN "ended" ELSE @,
                              !.pc = IF x = o THEN l ELSE @]]
  /\ ObsRest /\ UNCHANGED <<pumps, current, faults>>

DetachKept(o) == obs[o].pc = "detach" /\ DetachTap(o, "open")

\* The caller's context ends: detach by message id.
CancelObserve(o) == obs[o].pc = "open" /\ DetachTap(o, "cancelled")

ObserveStep(o) ==
  Observe(o) \/ Register(o) \/ RouteKept(o) \/ DetachKept(o) \/ CancelObserve(o)

-----------------------------------------------------------------------------
(* Collect and Reconcile.                                                  *)

ReleaseFor(t) == slot' = IF slot = t THEN None ELSE slot

\* The assistant's reply is found: the turn is terminal, its slot is freed and the idle timer
\* is armed if no turn of the session is live.
Collect(t) ==
  /\ disp[t] # "none" /\ child \in alive /\ nat[t].state = "done"
  /\ disp' = [disp EXCEPT ![t] = "terminal"]
  /\ ReleaseFor(t)
  /\ timer' = (timer \/ \A u \in Turns \ {t} : disp[u] # "live")
  /\ UNCHANGED <<serverVars, parker, launching, unknown, verdict, call, nat, pumpVars,
                 faults>>

\* Reconcile's answer that the turn never was: a rejection that is kept is evidence when the
\* server cannot be asked, or does not have the message.
DefinitivelyMissing(t) ==
  /\ verdict[t] = "rejected"
  /\ child \notin alive \/ (nat[t].state = "none" /\ (disp[t] # "none" \/ t \in unknown))

\* Reconcile's terminal answer, the only one that changes anything.
Reconcile(t) ==
  /\ disp[t] # "none" \/ t \in unknown
  /\ child \in alive /\ nat[t].state = "done"
  /\ MarkTurnTerminal(t)
  /\ UNCHANGED <<serverVars, parkVars, launching, unknown, verdict, call, nat, pumpVars, faults>>

Next ==
  \/ \E c \in Calls : DispatchStep(c)
  \/ \E t \in Turns : Answer(t) \/ Collect(t) \/ Reconcile(t)
  \/ ChildStep
  \/ \E p \in Pumps : PumpStep(p)
  \/ \E o \in Observers : ObserveStep(o)

Spec == Init /\ [][Next]_vars

-----------------------------------------------------------------------------

\* The slot keeps the native session to one turn: a second prompt is never submitted while
\* one is being worked on (acquireNativeSlot).
OneTurnPerNativeSession ==
  \A t, u \in Turns : nat[t].state = "active" /\ nat[u].state = "active" => t = u

\* What the callers of Dispatch were told is true: a prompt the native session took up was
\* accepted or unknown to some caller, a registered turn was taken up, and a turn that was
\* dispatched by one call is found definitively missing only if it was not.
VerdictsAreTrue ==
  \A t \in Turns :
    /\ nat[t].state # "none" =>
         \E c \in Calls : Ref[c] = t /\ call[c].outcome \in {"accepted", "unknown"}
    /\ disp[t] # "none" => nat[t].state # "none"
    /\ (\A c, d \in Calls : Ref[c] = t /\ Ref[d] = t => c = d) /\ DefinitivelyMissing(t) =>
         nat[t].state = "none"

\* A tap whose stream ended without its caller's cancellation and without an overflow was
\* given the turn's terminal (one Observe call per turn).
TapEndsWithTerminal ==
  \A o \in Observers : obs[o].stream = "ended" /\ obs[o].pc # "cancelled" => obs[o].got > 0

\* The slot is never left behind: its owner is being dispatched, is live or is unknown.
SlotOwnerIsOpen ==
  slot # None =>
    \/ disp[slot] = "live" \/ slot \in unknown
    \/ \E c \in Calls : Ref[c] = slot /\ call[c].pc \in {"verify", "prompt", "finish", "release"}

\* "parks the session's serve child after the idle grace period when every turn for the session
\* has reached a terminal outcome and none is in flight" (scheduleIdleParkIfIdle): no prompt
\* is being worked on when the child is unregistered to be terminated.
ParkIsQuiet == [][child # None /\ child' = None => \A t \in Turns : nat[t].state # "active"]_vars
=============================================================================
