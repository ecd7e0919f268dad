---------------------------- MODULE BufferedStream ----------------------------
(***************************************************************************)
(* The bounded observation stream every adapter hands to its observers:    *)
(* senders, closers and one consumer of one stream.                        *)
(*                                                                         *)
(* A step is one critical section of the stream's lock, one choice of a    *)
(* select, or one operation on a channel.  A thread makes one call after   *)
(* another.  Event validation is left out: it rejects an event before any  *)
(* state is touched.                                                       *)
(***************************************************************************)
EXTENDS Integers

CONSTANTS
  Threads,   \* goroutines that use the stream
  Capacity   \* of the events channel

ASSUME StreamAssumption == Capacity \in Nat \ {0}

VARIABLES
  pc,          \* pc[h]: where a thread is
  closed,      \* closed and the cancelled context, set together
  err,         \* the stream's terminal error
  wg,          \* the wait group's counter
  buffered,    \* events in the channel
  shut,        \* the events channel is closed
  done         \* the done channel is closed

streamVars == <<pc, closed, err, wg, buffered, shut, done>>

StreamInit ==
  /\ pc = [h \in Threads |-> "idle"]
  /\ closed = FALSE /\ err = "none" /\ wg = 0 /\ buffered = 0 /\ shut = FALSE /\ done = FALSE

At(h, l) == pc[h] = l
To(h, l) == pc' = [pc EXCEPT ![h] = l]

\* Slip: the sender is not counted.
SlipEnter(h, kind) ==
  /\ At(h, "idle")
  /\ ~closed /\ To(h, kind)
  /\ UNCHANGED <<wg, closed, err, buffered, shut, done>>

\* Send and SendOrOverflow, up to the select: a closed stream is refused, otherwise the sender
\* is counted before the lock is released.
Enter(h, kind) ==
  /\ At(h, "idle")
  /\ \/ ~closed /\ To(h, kind) /\ wg' = wg + 1
     \/ closed /\ UNCHANGED <<pc, wg>>
  /\ UNCHANGED <<closed, err, buffered, shut, done>>

Sending(h) == pc[h] \in {"send", "sendOrOverflow"}
CountDown == wg' = wg - 1

\* The channel has room.  A cancelled context may be chosen as well.
Put(h) ==
  /\ Sending(h) /\ buffered < Capacity
  /\ buffered' = buffered + 1
  /\ CountDown /\ To(h, "idle")
  /\ UNCHANGED <<closed, err, shut, done>>

GiveUp(h) ==
  /\ Sending(h) /\ closed
  /\ CountDown /\ To(h, "idle")
  /\ UNCHANGED <<closed, err, buffered, shut, done>>

\* Slip: the overflowing sender closes the stream while it is still counted.
SlipOverflow(h) ==
  /\ At(h, "sendOrOverflow") /\ ~closed /\ buffered = Capacity
  /\ To(h, "overflow")
  /\ UNCHANGED <<wg, closed, err, buffered, shut, done>>

\* SendOrOverflow finds neither ready: it leaves the wait group and closes the stream.
Overflow(h) ==
  /\ At(h, "sendOrOverflow") /\ ~closed /\ buffered = Capacity
  /\ CountDown /\ To(h, "overflow")
  /\ UNCHANGED <<closed, err, buffered, shut, done>>

\* CloseWithErr: the first to come closes; the others wait for it.
Close(h, e) ==
  /\ \/ At(h, "idle") /\ e = "closed"
     \/ At(h, "overflow") /\ e = "overflow"
  /\ IF closed
     THEN To(h, "follow") /\ UNCHANGED <<closed, err>>
     ELSE To(h, "drain") /\ closed' = TRUE /\ err' = e
  /\ UNCHANGED <<wg, buffered, shut, done>>

CloseEvents(h) ==
  /\ At(h, "drain") /\ wg = 0
  /\ shut' = TRUE
  /\ To(h, "finish")
  /\ UNCHANGED <<closed, err, wg, buffered, done>>

CloseDone(h) ==
  /\ At(h, "finish")
  /\ done' = TRUE
  /\ To(h, "idle")
  /\ UNCHANGED <<closed, err, wg, buffered, shut>>

Follow(h) ==
  /\ At(h, "follow") /\ done
  /\ To(h, "idle")
  /\ UNCHANGED <<closed, err, wg, buffered, shut, done>>

\* The consumer takes an event; what is buffered can be read after the close.
Receive ==
  /\ buffered > 0
  /\ buffered' = buffered - 1
  /\ UNCHANGED <<pc, closed, err, wg, shut, done>>

\* What a call does by itself once it was made.
CallStep(h) ==
  Put(h) \/ GiveUp(h) \/ Overflow(h) \/ Close(h, "overflow") \/ CloseEvents(h) \/ CloseDone(h)
  \/ Follow(h)

StreamNext ==
  \/ \E h \in Threads :
       Enter(h, "send") \/ Enter(h, "sendOrOverflow") \/ Close(h, "closed") \/ CallStep(h)
  \/ Receive

StreamFairness == \A h \in Threads : WF_streamVars(CallStep(h))

StreamSpec == StreamInit /\ [][StreamNext]_streamVars /\ StreamFairness

-----------------------------------------------------------------------------

\* No sender can reach the events channel after it was closed: that would panic.
NoSendOnClosedChannel == shut => \A h \in Threads : ~Sending(h)

\* A close returns, whatever the consumer does, and so does a SendOrOverflow, although it may
\* close the stream from within.
CallsReturn ==
  \A h \in Threads : pc[h] \in {"sendOrOverflow", "overflow", "drain", "finish", "follow"} ~> At(h, "idle")
=============================================================================
