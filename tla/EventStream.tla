------------------------------ MODULE EventStream ------------------------------
(***************************************************************************)
(* Live observation of one turn: the handlers of the events route, the     *)
(* coordinator's subscriber channels, and the parties that conclude the    *)
(* turn and announce it.                                                   *)
(*                                                                         *)
(* A step is one critical section of the coordinator, one query of the     *)
(* store, or one event a handler writes.  Of a channel the model keeps how *)
(* many progress events wait in it and whether a terminal event follows.   *)
(***************************************************************************)
EXTENDS Naturals

CONSTANTS
  Clients,         \* requests of the events route
  SubCapacity      \* of a subscriber's channel (64 in the code)

VARIABLES
  outcome,     \* the turn's row: none, told (its party announces it) or quiet
  supervisor,  \* the supervisor: dispatch, observe, tell or done
  command,     \* a cancel, reconcile or disposition handler: idle, tell or done
  subs,        \* registered observers
  channel,     \* channel[o]: waiting events, a terminal after them, closed
  handler,     \* handler[o]: idle, registered, streaming, ended
  shown,       \* observers that were shown a terminal event
  stopping     \* teardown: no, closed (subscribers were), cancelled (the context is)

eventVars == <<outcome, supervisor, command, subs, channel, handler, shown, stopping>>
partyVars == <<outcome, supervisor, command>>

NewChannel == [waiting |-> 0, terminal |-> FALSE, closed |-> FALSE]

EventInit ==
  /\ outcome = "none" /\ supervisor = "dispatch" /\ command = "idle"
  /\ subs = {} /\ shown = {} /\ stopping = "no"
  /\ channel = [o \in Clients |-> NewChannel]
  /\ handler = [o \in Clients |-> "idle"]

Full(o) == channel[o].waiting + (IF channel[o].terminal THEN 1 ELSE 0) = SubCapacity

Offered(o, ev) ==
  IF ev = "terminal" THEN [channel[o] EXCEPT !.terminal = TRUE]
  ELSE [channel[o] EXCEPT !.waiting = @ + 1]

\* Slip: an event that does not fit is dropped, and the observer stays.
SlipBroadcastEvent(ev) ==
  /\ channel' = [o \in Clients |-> IF o \in subs /\ ~Full(o) THEN Offered(o, ev) ELSE channel[o]]
  /\ UNCHANGED subs

\* BroadcastEvent: an observer whose channel is full is disconnected.
BroadcastEvent(ev) ==
  /\ channel' = [o \in Clients |->
                   IF o \notin subs THEN channel[o]
                   ELSE IF Full(o) THEN [channel[o] EXCEPT !.closed = TRUE]
                   ELSE Offered(o, ev)]
  /\ subs' = {o \in subs : ~Full(o)}

-----------------------------------------------------------------------------
\* The supervisor: a rejected dispatch commits the failure and says nothing; an accepted one is
\* observed, collected, committed and announced, unless somebody else was first.

Rejected ==
  /\ supervisor = "dispatch" /\ supervisor' = "done"
  /\ outcome' = IF outcome = "none" THEN "quiet" ELSE outcome
  /\ UNCHANGED <<command, subs, channel, handler, shown, stopping>>

\* An unknown dispatch, a collection that fails or the end of the worker's context: nothing is
\* committed.
Abandons ==
  /\ supervisor \in {"dispatch", "observe"} /\ supervisor' = "done"
  /\ UNCHANGED <<outcome, command, subs, channel, handler, shown, stopping>>

Accepted ==
  /\ supervisor = "dispatch" /\ supervisor' = "observe"
  /\ UNCHANGED <<outcome, command, subs, channel, handler, shown, stopping>>

\* Once the workers' contexts are cancelled nothing is passed on: the streams tied to them close,
\* and what another stream still yields could reach only observers that leave (Stopped).
Progress ==
  /\ supervisor = "observe"
  /\ stopping # "cancelled"
  /\ BroadcastEvent("progress")
  /\ UNCHANGED <<partyVars, handler, shown, stopping>>

Collected ==
  /\ supervisor = "observe"
  /\ IF outcome = "none" THEN outcome' = "told" /\ supervisor' = "tell"
     ELSE supervisor' = "done" /\ UNCHANGED outcome
  /\ UNCHANGED <<command, subs, channel, handler, shown, stopping>>

Announce ==
  /\ supervisor = "tell" /\ supervisor' = "done"
  /\ BroadcastEvent("terminal")
  /\ UNCHANGED <<outcome, command, handler, shown, stopping>>

\* A command that concludes the turn, or a reconciliation that finds it concluded, announces,
\* unless the request's context ends after the commit and before the row is read back.
CommandCommits ==
  /\ command = "idle"
  /\ \/ command' = "tell" /\ outcome' = IF outcome = "none" THEN "told" ELSE outcome
     \/ command' = "done" /\ outcome' = IF outcome = "none" THEN "quiet" ELSE outcome
  /\ UNCHANGED <<supervisor, subs, channel, handler, shown, stopping>>

CommandAnnounces ==
  /\ command = "tell" /\ command' = "done"
  /\ BroadcastEvent("terminal")
  /\ UNCHANGED <<outcome, supervisor, handler, shown, stopping>>

-----------------------------------------------------------------------------
\* handleEvents: registered before the store is read.

Register(o) ==
  /\ handler[o] = "idle"
  /\ subs' = subs \cup {o}
  /\ handler' = [handler EXCEPT ![o] = "registered"]
  /\ UNCHANGED <<partyVars, channel, shown, stopping>>

End(o) == handler' = [handler EXCEPT ![o] = "ended"] /\ subs' = subs \ {o}

\* The snapshot shows a concluded turn as terminal and ends the stream.
Snapshot(o) ==
  /\ handler[o] = "registered"
  /\ IF outcome # "none"
     THEN End(o) /\ shown' = shown \cup {o}
     ELSE handler' = [handler EXCEPT ![o] = "streaming"] /\ UNCHANGED <<subs, shown>>
  /\ UNCHANGED <<partyVars, channel, stopping>>

\* What waits in the channel is written in order, also after it was closed.
Deliver(o) ==
  /\ handler[o] = "streaming"
  /\ \/ /\ channel[o].waiting > 0
        /\ channel' = [channel EXCEPT ![o].waiting = @ - 1]
        /\ UNCHANGED <<handler, subs, shown>>
     \/ /\ channel[o].waiting = 0 /\ channel[o].terminal
        /\ End(o) /\ shown' = shown \cup {o} /\ UNCHANGED channel
     \/ /\ channel[o].waiting = 0 /\ ~channel[o].terminal /\ channel[o].closed
        /\ End(o) /\ UNCHANGED <<channel, shown>>
  /\ UNCHANGED <<partyVars, stopping>>

\* The client goes away, or the query fails.
Disconnect(o) ==
  /\ handler[o] \in {"registered", "streaming"} /\ End(o)
  /\ UNCHANGED <<partyVars, channel, shown, stopping>>

\* The coordinator's context is cancelled.
Stopped(o) == stopping = "cancelled" /\ handler[o] = "streaming" /\ Disconnect(o)

ObserverStep(o) == Snapshot(o) \/ Deliver(o) \/ Stopped(o)

CloseSubscribers ==
  /\ channel' = [o \in Clients |-> [channel[o] EXCEPT !.closed = @ \/ o \in subs]]
  /\ subs' = {}

\* Teardown closes the subscribers once, while requests under way may still register; a forced
\* one cancels the context as well.
CloseAllSubscribers ==
  /\ stopping = "no" /\ stopping' = "closed"
  /\ CloseSubscribers
  /\ UNCHANGED <<partyVars, handler, shown>>

CancelAll ==
  /\ stopping # "cancelled" /\ stopping' = "cancelled"
  /\ CloseSubscribers
  /\ UNCHANGED <<partyVars, handler, shown>>

Party == Collected \/ Announce \/ CommandAnnounces

EventNext ==
  \/ Rejected \/ Accepted \/ Abandons \/ Progress \/ CommandCommits \/ Party
  \/ \E o \in Clients : Register(o) \/ Disconnect(o) \/ ObserverStep(o)
  \/ CloseAllSubscribers \/ CancelAll

\* Teardown's deadline expires over an observer that stays.
Forced ==
  /\ stopping = "closed"
  /\ \E o \in Clients : handler[o] \in {"registered", "streaming"}
  /\ CancelAll

\* A party that has committed announces, a handler goes on as long as it can, and a teardown
\* does not wait for ever.  Nothing obliges an execution to end or a client to go away.
EventFairness ==
  /\ WF_eventVars(Announce) /\ WF_eventVars(CommandAnnounces) /\ WF_eventVars(Forced)
  /\ \A o \in Clients : WF_eventVars(ObserverStep(o))

EventSpec == EventInit /\ [][EventNext]_eventVars /\ EventFairness

-----------------------------------------------------------------------------

\* A terminal event is on its way to an observer, or was shown, only once the outcome is
\* committed; and no channel that was closed is sent to again, which would panic.
StreamsAreSound ==
  /\ (shown # {} \/ \E o \in Clients : channel[o].terminal) => outcome # "none"
  /\ \A o \in subs : ~channel[o].closed

\* Once a party that announces has concluded the turn, every observer's stream ends, however
\* slow the observer, whatever the order of registration, snapshot and announcement.  A turn
\* that is concluded quietly (Rejected, a cut-off command) has nobody to announce it.
ToldStreamsEnd ==
  \A o \in Clients : outcome = "told" /\ handler[o] # "idle" ~> handler[o] = "ended"
=============================================================================
