---------------------------- MODULE StreamProofs ----------------------------
(***************************************************************************)
(* The channels of the control plane, for every number of threads and of   *)
(* clients and every capacity: no sender or broadcast reaches a channel    *)
(* that was closed, and a terminal event follows the commit it announces.  *)
(***************************************************************************)
EXTENDS MCControl, FiniteSetTheorems, TLAPS

-----------------------------------------------------------------------------
(* The adapters' buffered stream.                                          *)

Places == {"idle", "send", "sendOrOverflow", "overflow", "drain", "finish", "follow"}

Senders == {h \in Threads : Sending(h)}

\* The wait group counts the senders; a thread that drains or finishes found the
\* stream closed, after which no sender enters; and the events channel is closed
\* only when no sender was left.
StreamInv ==
  /\ pc \in [Threads -> Places]
  /\ IsFiniteSet(Senders) /\ wg = Cardinality(Senders)
  /\ \A h \in Threads : pc[h] \in {"drain", "finish"} => closed
  /\ shut => closed /\ Senders = {}

\* Nobody uses a new stream.
LEMMA StreamInvInit == StreamInit => StreamInv
  <1> SUFFICES ASSUME StreamInit PROVE StreamInv
    OBVIOUS
  <1>1. Senders = {} /\ \A h \in Threads : pc[h] = "idle"
    BY DEF StreamInit, Senders, Sending
  <1> QED BY <1>1, FS_EmptySet DEF StreamInit, StreamInv, Places

\* A thread that joins the senders is counted, unless it was one already.
LEMMA Joins ==
  ASSUME StreamInv, NEW h \in Threads, pc[h] = "idle", NEW l \in {"send", "sendOrOverflow"},
         To(h, l), wg' = wg + 1
  PROVE  IsFiniteSet(Senders') /\ wg' = Cardinality(Senders')
  <1>1. h \notin Senders
    BY DEF Senders, Sending
  <1>2. Senders' = Senders \cup {h}
    BY DEF Senders, Sending, To, StreamInv
  <1> QED BY <1>1, <1>2, FS_AddElement DEF StreamInv

\* A sender that leaves is no longer counted.
LEMMA Leaves ==
  ASSUME StreamInv, NEW h \in Threads, Sending(h), NEW l \in Places \ {"send", "sendOrOverflow"},
         To(h, l), CountDown
  PROVE  /\ IsFiniteSet(Senders') /\ wg' = Cardinality(Senders')
         /\ Senders' \subseteq Senders /\ pc' \in [Threads -> Places]
  <1>1. h \in Senders
    BY DEF Senders
  <1>2. Senders' = Senders \ {h}
    BY DEF Senders, Sending, To, StreamInv
  <1>3. pc' \in [Threads -> Places]
    BY DEF To, StreamInv
  <1> QED BY <1>1, <1>2, <1>3, FS_RemoveElement DEF StreamInv, CountDown

\* A thread that is no sender and becomes none changes no count.
LEMMA Passes ==
  ASSUME StreamInv, NEW h \in Threads, ~Sending(h), NEW l \in Places \ {"send", "sendOrOverflow"},
         To(h, l)
  PROVE  Senders' = Senders /\ pc' \in [Threads -> Places]
  BY DEF StreamInv, Senders, Sending, To

\* Every step of every thread, and of the consumer, keeps the count exact.
LEMMA StreamInvNext == ASSUME StreamInv, StreamNext PROVE StreamInv'
  <1>1. ASSUME NEW h \in Threads, NEW l \in {"send", "sendOrOverflow"}, Enter(h, l)
        PROVE  StreamInv'
    <2>1. CASE closed /\ UNCHANGED <<pc, wg>>
      BY <1>1, <2>1 DEF Enter, StreamInv, Senders, Sending
    <2>2. CASE ~closed /\ To(h, l) /\ wg' = wg + 1
      <3>1. IsFiniteSet(Senders') /\ wg' = Cardinality(Senders')
        BY <1>1, <2>2, Joins DEF Enter, At
      <3>2. pc' \in [Threads -> Places]
        BY <2>2 DEF StreamInv, To, Places
      <3>3. \A g \in Threads : pc'[g] \in {"drain", "finish"} => pc[g] = pc'[g]
        BY <2>2 DEF StreamInv, To
      <3> QED BY <1>1, <2>2, <3>1, <3>2, <3>3 DEF Enter, StreamInv
    <2> QED BY <1>1, <2>1, <2>2 DEF Enter
  <1>2. ASSUME NEW h \in Threads, Put(h) \/ GiveUp(h) PROVE StreamInv'
    <2>1. Sending(h) /\ CountDown /\ To(h, "idle") /\ UNCHANGED <<closed, shut>>
      BY <1>2 DEF Put, GiveUp
    <2>2. \A g \in Threads : pc'[g] \in {"drain", "finish"} => pc[g] = pc'[g]
      BY <2>1 DEF StreamInv, To
    <2>3. "idle" \in Places \ {"send", "sendOrOverflow"}
      BY DEF Places
    <2> QED BY <2>1, <2>2, <2>3, Leaves DEF StreamInv
  <1>3. ASSUME NEW h \in Threads, Overflow(h) PROVE StreamInv'
    <2>1. Sending(h) /\ CountDown /\ To(h, "overflow") /\ UNCHANGED <<closed, shut>>
      BY <1>3 DEF Overflow, At, Sending
    <2>2. \A g \in Threads : pc'[g] \in {"drain", "finish"} => pc[g] = pc'[g]
      BY <2>1 DEF StreamInv, To
    <2>3. "overflow" \in Places \ {"send", "sendOrOverflow"}
      BY DEF Places
    <2> QED BY <2>1, <2>2, <2>3, Leaves DEF StreamInv
  <1>4. ASSUME NEW h \in Threads, NEW e, Close(h, e) PROVE StreamInv'
    <2>1. ~Sending(h) /\ UNCHANGED <<wg, shut>>
      BY <1>4 DEF Close, At, Sending
    <2>2. "follow" \in Places \ {"send", "sendOrOverflow"} /\ "drain" \in Places \ {"send", "sendOrOverflow"}
      BY DEF Places
    <2>3. CASE closed /\ To(h, "follow") /\ UNCHANGED closed
      <3>1. Senders' = Senders /\ pc' \in [Threads -> Places]
        BY <2>1, <2>2, <2>3, Passes
      <3>2. wg' = Cardinality(Senders')
        BY <2>1, <3>1 DEF StreamInv
      <3> QED BY <2>1, <2>3, <3>1, <3>2 DEF StreamInv
    <2>4. CASE ~closed /\ To(h, "drain") /\ closed' = TRUE
      <3>1. Senders' = Senders /\ pc' \in [Threads -> Places]
        BY <2>1, <2>2, <2>4, Passes
      <3>2. wg' = Cardinality(Senders')
        BY <2>1, <3>1 DEF StreamInv
      <3> QED BY <2>1, <2>4, <3>1, <3>2 DEF StreamInv
    <2> QED BY <1>4, <2>3, <2>4 DEF Close
  <1>5. ASSUME NEW h \in Threads, CloseEvents(h) PROVE StreamInv'
    <2>1. pc[h] = "drain" /\ wg = 0 /\ To(h, "finish") /\ UNCHANGED <<wg, closed>>
      BY <1>5 DEF CloseEvents, At
    <2>2. "finish" \in Places \ {"send", "sendOrOverflow"} /\ ~Sending(h)
      BY <2>1 DEF Places, Sending
    <2>3. Senders' = Senders /\ pc' \in [Threads -> Places]
      BY <2>1, <2>2, Passes
    <2>4. closed /\ Senders = {}
      BY <2>1, FS_EmptySet DEF StreamInv
    <2>5. wg' = Cardinality(Senders')
      BY <2>1, <2>3 DEF StreamInv
    <2> QED BY <2>1, <2>3, <2>4, <2>5 DEF StreamInv
  <1>6. ASSUME NEW h \in Threads, CloseDone(h) \/ Follow(h) PROVE StreamInv'
    <2>1. ~Sending(h) /\ To(h, "idle") /\ UNCHANGED <<wg, closed, shut>>
      BY <1>6 DEF CloseDone, Follow, At, Sending
    <2>2. "idle" \in Places \ {"send", "sendOrOverflow"}
      BY DEF Places
    <2>3. Senders' = Senders /\ pc' \in [Threads -> Places]
      BY <2>1, <2>2, Passes
    <2>4. \A g \in Threads : pc'[g] \in {"drain", "finish"} => pc[g] = pc'[g]
      BY <2>1 DEF StreamInv, To
    <2>5. wg' = Cardinality(Senders')
      BY <2>1, <2>3 DEF StreamInv
    <2> QED BY <2>1, <2>3, <2>4, <2>5 DEF StreamInv
  <1>7. ASSUME Receive PROVE StreamInv'
    BY <1>7 DEF Receive, StreamInv, Senders, Sending
  <1> QED BY <1>1, <1>2, <1>3, <1>4, <1>5, <1>6, <1>7 DEF StreamNext, CallStep

\* Senders and closers of one stream, however many: nobody sends on the closed
\* events channel.
THEOREM SendersAreSafe == StreamSpec => []NoSendOnClosedChannel
  <1>1. StreamInv /\ UNCHANGED streamVars => StreamInv'
    BY DEF StreamInv, streamVars, Senders, Sending
  <1>2. StreamInv => NoSendOnClosedChannel
    BY DEF StreamInv, NoSendOnClosedChannel, Senders
  <1> QED BY <1>1, <1>2, StreamInvInit, StreamInvNext, PTL DEF StreamSpec

-----------------------------------------------------------------------------
(* The events route.                                                       *)

Channel == [waiting : Nat, terminal : BOOLEAN, closed : BOOLEAN]

\* A terminal event is announced, waits or was shown only once the outcome is
\* committed, and whoever is about to announce has committed; a channel is closed
\* only when its observer is taken off the list, and no observer comes back on it.
EventInv ==
  /\ channel \in [Clients -> Channel] /\ subs \subseteq Clients
  /\ handler \in [Clients -> {"idle", "registered", "streaming", "ended"}]
  /\ (shown # {} \/ \E o \in Clients : channel[o].terminal) => outcome # "none"
  /\ supervisor = "tell" \/ command = "tell" => outcome # "none"
  /\ \A o \in subs : ~channel[o].closed /\ handler[o] # "idle"
  /\ \A o \in Clients : handler[o] = "idle" => ~channel[o].closed

\* Nothing was announced and nobody registered.
LEMMA EventInvInit == EventInit => EventInv
  <1>1. NewChannel \in Channel /\ ~NewChannel.terminal /\ ~NewChannel.closed
    BY DEF NewChannel, Channel
  <1> QED BY <1>1 DEF EventInit, EventInv

\* A broadcast offers the event to those on the list that have room and closes the
\* channels of those it takes off.
LEMMA Broadcasts ==
  ASSUME EventInv, NEW ev \in {"progress", "terminal"}, BroadcastEvent(ev), UNCHANGED handler
  PROVE  /\ channel' \in [Clients -> Channel] /\ subs' \subseteq subs
         /\ \A o \in Clients : channel'[o].terminal => channel[o].terminal \/ ev = "terminal"
         /\ \A o \in subs' : ~channel'[o].closed
         /\ \A o \in Clients : handler[o] = "idle" => channel'[o] = channel[o]
  <1>1. \A o \in Clients :
          /\ channel[o] \in Channel
          /\ Offered(o, ev) \in Channel /\ Offered(o, ev).closed = channel[o].closed
          /\ Offered(o, ev).terminal => channel[o].terminal \/ ev = "terminal"
          /\ [channel[o] EXCEPT !.closed = TRUE] \in Channel
          /\ [channel[o] EXCEPT !.closed = TRUE].terminal = channel[o].terminal
    <2> SUFFICES ASSUME NEW o \in Clients
                 PROVE  /\ channel[o] \in Channel
                        /\ Offered(o, ev) \in Channel /\ Offered(o, ev).closed = channel[o].closed
                        /\ Offered(o, ev).terminal => channel[o].terminal \/ ev = "terminal"
                        /\ [channel[o] EXCEPT !.closed = TRUE] \in Channel
                        /\ [channel[o] EXCEPT !.closed = TRUE].terminal = channel[o].terminal
      OBVIOUS
    <2>1. channel[o] \in Channel
      BY DEF EventInv
    <2>2. /\ [channel[o] EXCEPT !.closed = TRUE] \in Channel
          /\ [channel[o] EXCEPT !.closed = TRUE].terminal = channel[o].terminal
      BY <2>1 DEF Channel
    <2>3. CASE ev = "terminal"
      <3>1. Offered(o, ev) = [channel[o] EXCEPT !.terminal = TRUE]
        BY <2>3 DEF Offered
      <3>2. Offered(o, ev) \in Channel /\ Offered(o, ev).closed = channel[o].closed
        BY <2>1, <3>1 DEF Channel
      <3> QED BY <2>1, <2>2, <2>3, <3>2
    <2>4. CASE ev # "terminal"
      <3>1. Offered(o, ev) = [channel[o] EXCEPT !.waiting = channel[o].waiting + 1]
        BY <2>4 DEF Offered
      <3>2. /\ Offered(o, ev) \in Channel /\ Offered(o, ev).closed = channel[o].closed
            /\ Offered(o, ev).terminal = channel[o].terminal
        BY <2>1, <3>1 DEF Channel
      <3> QED BY <2>1, <2>2, <3>2
    <2> QED BY <2>3, <2>4
  <1>2. channel' \in [Clients -> Channel] /\ subs' \subseteq subs
    BY <1>1 DEF BroadcastEvent
  <1>3. \A o \in Clients : channel'[o].terminal => channel[o].terminal \/ ev = "terminal"
    BY <1>1 DEF BroadcastEvent
  <1>4. \A o \in subs' : o \in subs /\ o \in Clients /\ ~Full(o) /\ channel'[o] = Offered(o, ev)
    BY DEF BroadcastEvent, EventInv
  <1>5. \A o \in subs' : ~channel'[o].closed
    BY <1>1, <1>4 DEF EventInv
  <1>6. \A o \in Clients : handler[o] = "idle" => channel'[o] = channel[o]
    BY DEF BroadcastEvent, EventInv
  <1> QED BY <1>2, <1>3, <1>5, <1>6

\* Closing every subscriber's channel leaves nobody on the list.
LEMMA Closes ==
  ASSUME EventInv, CloseSubscribers, UNCHANGED handler
  PROVE  /\ channel' \in [Clients -> Channel] /\ subs' = {}
         /\ \A o \in Clients : channel'[o].terminal = channel[o].terminal
         /\ \A o \in Clients : handler[o] = "idle" => ~channel'[o].closed
  <1>1. \A o \in Clients :
          /\ channel[o] \in Channel
          /\ channel'[o] = [channel[o] EXCEPT !.closed = channel[o].closed \/ o \in subs]
    BY DEF CloseSubscribers, EventInv
  <1>2. \A o \in Clients :
          /\ channel'[o] \in Channel /\ channel'[o].terminal = channel[o].terminal
          /\ channel'[o].closed <=> channel[o].closed \/ o \in subs
    BY <1>1 DEF Channel
  <1>3. channel' \in [Clients -> Channel]
    BY <1>2 DEF CloseSubscribers
  <1> QED BY <1>2, <1>3 DEF CloseSubscribers, EventInv

\* Every step of the supervisor, of a command, of an observer's handler and of the
\* teardown keeps it so.
LEMMA EventInvNext == ASSUME EventInv, EventNext PROVE EventInv'
  <1>1. CASE Rejected \/ Abandons \/ Accepted
    BY <1>1 DEF Rejected, Abandons, Accepted, EventInv
  <1>2. CASE Collected
    BY <1>2 DEF Collected, EventInv
  <1>3. CASE CommandCommits
    BY <1>3 DEF CommandCommits, EventInv
  <1>4. ASSUME NEW ev \in {"progress", "terminal"}, BroadcastEvent(ev),
               ev = "terminal" => outcome # "none",
               UNCHANGED <<outcome, handler, shown>>,
               supervisor' # "tell" \/ supervisor' = supervisor,
               command' # "tell" \/ command' = command
        PROVE  EventInv'
    <2>1. /\ channel' \in [Clients -> Channel] /\ subs' \subseteq subs
          /\ \A o \in Clients : channel'[o].terminal => channel[o].terminal \/ ev = "terminal"
          /\ \A o \in subs' : ~channel'[o].closed
          /\ \A o \in Clients : handler[o] = "idle" => channel'[o] = channel[o]
      BY <1>4, Broadcasts
    <2> QED BY <1>4, <2>1 DEF EventInv
  <1>5. CASE Progress
    BY <1>4, <1>5 DEF Progress, partyVars
  <1>6. CASE Announce \/ CommandAnnounces
    BY <1>4, <1>6 DEF Announce, CommandAnnounces, EventInv
  <1>7. ASSUME NEW o \in Clients, Register(o) PROVE EventInv'
    BY <1>7 DEF Register, partyVars, EventInv
  <1>8. ASSUME NEW o \in Clients, End(o), shown' # shown => outcome # "none",
               UNCHANGED <<partyVars, channel>>
        PROVE  EventInv'
    BY <1>8 DEF End, partyVars, EventInv
  <1>9. ASSUME NEW o \in Clients, Snapshot(o) PROVE EventInv'
    <2>1. CASE outcome # "none"
      BY <1>8, <1>9, <2>1 DEF Snapshot
    <2>2. CASE outcome = "none"
      BY <1>9, <2>2 DEF Snapshot, partyVars, EventInv
    <2> QED BY <2>1, <2>2
  <1>10. ASSUME NEW o \in Clients, Deliver(o) PROVE EventInv'
    <2>1. CASE /\ channel[o].waiting > 0
               /\ channel' = [channel EXCEPT ![o].waiting = @ - 1]
               /\ UNCHANGED <<handler, subs, shown>>
      <3>1. channel[o] \in Channel
        BY DEF EventInv
      <3>2. [channel[o] EXCEPT !.waiting = @ - 1] \in Channel
        BY <2>1, <3>1 DEF Channel
      <3>3. /\ channel' \in [Clients -> Channel]
            /\ \A p \in Clients : channel'[p].terminal = channel[p].terminal /\ channel'[p].closed = channel[p].closed
        BY <2>1, <3>1, <3>2 DEF EventInv, Channel
      <3> QED BY <1>10, <2>1, <3>3 DEF Deliver, partyVars, EventInv
    <2>2. CASE channel[o].terminal /\ End(o) /\ UNCHANGED channel
      <3>1. outcome # "none"
        BY <2>2 DEF EventInv
      <3> QED BY <1>8, <1>10, <2>2, <3>1 DEF Deliver
    <2>3. CASE End(o) /\ UNCHANGED <<channel, shown>>
      BY <1>8, <1>10, <2>3 DEF Deliver
    <2> QED BY <1>10, <2>1, <2>2, <2>3 DEF Deliver
  <1>11. ASSUME NEW o \in Clients, Disconnect(o) PROVE EventInv'
    BY <1>8, <1>11 DEF Disconnect
  <1>12. CASE CloseAllSubscribers \/ CancelAll
    <2>1. CloseSubscribers /\ UNCHANGED <<outcome, supervisor, command, handler, shown>>
      BY <1>12 DEF CloseAllSubscribers, CancelAll, partyVars
    <2> QED BY <2>1, Closes DEF EventInv
  <1> QED BY <1>1, <1>2, <1>3, <1>5, <1>6, <1>7, <1>9, <1>10, <1>11, <1>12
          DEF EventNext, Party, ObserverStep, Stopped

\* The invariant says more than the property, and stutters do not break it.
LEMMA EventInvImplies ==
  /\ EventInv => StreamsAreSound
  /\ EventInv /\ UNCHANGED eventVars => EventInv'
  BY DEF EventInv, StreamsAreSound, eventVars

\* The events route, for every number of observers and every channel capacity: no
\* closed channel is sent to, and no terminal event precedes its commit.
THEOREM ObserversAreSafe == EventSpec => []StreamsAreSound
  BY EventInvInit, EventInvNext, EventInvImplies, PTL DEF EventSpec

-----------------------------------------------------------------------------

\* The two together, as the run of the control plane checks them.
THEOREM ChannelsAlwaysSound == MCSpec => []ChannelsAreSound
  <1>1. MCInit => StreamInv /\ EventInv
    BY StreamInvInit, EventInvInit DEF MCInit
  <1>2. StreamInv /\ EventInv /\ [MCNext]_mcVars => StreamInv' /\ EventInv'
    <2> SUFFICES ASSUME StreamInv, EventInv, [MCNext]_mcVars PROVE StreamInv' /\ EventInv'
      OBVIOUS
    <2>1. ASSUME UNCHANGED streamVars PROVE StreamInv'
      BY <2>1 DEF StreamInv, streamVars, Senders, Sending
    <2>2. ASSUME UNCHANGED eventVars PROVE EventInv'
      BY <2>2, EventInvImplies
    <2> QED BY <2>1, <2>2, StreamInvNext, EventInvNext DEF MCNext, mcVars
  <1>3. StreamInv /\ EventInv => ChannelsAreSound
    BY EventInvImplies DEF StreamInv, NoSendOnClosedChannel, Senders, ChannelsAreSound
  <1> QED BY <1>1, <1>2, <1>3, PTL DEF MCSpec
=============================================================================
