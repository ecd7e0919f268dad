---------------------------- MODULE CodexCreation ----------------------------
(***************************************************************************)
(* The birth of a codex session: CreateCodexSession in the service, the    *)
(* shared creation call and the tombstone in the adapter, the pending      *)
(* creation of the child's event pump, the uncertainty episodes and the    *)
(* binding in the store, and the controller's resolution.                  *)
(*                                                                         *)
(* One Council session, whose child has one pending creation at a time.    *)
(* Nothing durable precedes thread/start: an episode is opened only by a   *)
(* caller that was told the outcome is uncertain.  Requests carry the same *)
(* configuration.  A refusal before the adapter is called changes nothing; *)
(* the one for an open episode is the guard of CreateCodexSession.         *)
(***************************************************************************)
EXTENDS Naturals

CONSTANTS
  Callers,       \* concurrent create requests
  MaxCreation,   \* bound on creation calls in the adapter
  MaxEpisode,    \* bound on uncertainty episodes
  MaxInstance    \* bound on service instances

VARIABLES
  bound,       \* the creation whose thread the session is bound to, or 0
  open,        \* an uncertainty episode is open
  episodes,    \* episodes recorded so far
  tombstone,   \* a.uncertain holds the session
  current,     \* the creation call in a.creations, or 0
  result,      \* result[k]: what creation call k published
  pending,     \* the pump's pending creation: none, reserved, notified
  thread,      \* thread[k]: the native thread of creation k: none, live (exists), bound;
               \* uncertain, recorded (in an episode), resolved (by a controller);
               \* or out of sight: forgotten (with a process), exposed (see ClearTombstone)
  caller,      \* caller[c]: program counter and the creation it runs or joined
  resolver,    \* a resolution is committed and its tombstone not yet cleared
  instance

storeVars == <<bound, open, episodes>>
adapterVars == <<tombstone, current, result, pending>>
vars == <<storeVars, adapterVars, thread, caller, resolver, instance>>

Creations == 1 .. MaxCreation
IdleCaller == [pc |-> "idle", call |-> 0]

Init ==
  /\ bound = 0 /\ open = FALSE /\ episodes = 0
  /\ tombstone = FALSE /\ current = 0 /\ pending = "none"
  /\ result = [k \in Creations |-> "none"]
  /\ thread = [k \in Creations |-> "none"]
  /\ caller = [c \in Callers |-> IdleCaller]
  /\ resolver = FALSE
  /\ instance = 1

Goto(c, l) == caller' = [caller EXCEPT ![c].pc = l]
Call(c) == caller[c].call
Return(c) == caller' = [caller EXCEPT ![c] = IdleCaller]

\* The durable block is read before the adapter is called.
CreateCodexSession(c) ==
  /\ caller[c].pc = "idle" /\ ~open
  /\ Goto(c, "adapter")
  /\ UNCHANGED <<storeVars, adapterVars, thread, resolver, instance>>

\* CreateSession: a tombstone answers uncertain; a creation call on record is shared, a
\* succeeded one for good; otherwise this caller runs a new one.
CreateSession(c) ==
  /\ caller[c].pc = "adapter"
  /\ \/ tombstone /\ Goto(c, "record") /\ UNCHANGED <<current, result>>
     \/ /\ ~tombstone /\ current # 0
        /\ caller' = [caller EXCEPT ![c] = [pc |-> "join", call |-> current]]
        /\ UNCHANGED <<current, result>>
     \/ /\ ~tombstone /\ current = 0
        /\ \E k \in Creations :
             /\ result[k] = "none" /\ \A j \in Creations : j < k => result[j] # "none"
             /\ current' = k
             /\ result' = [result EXCEPT ![k] = "running"]
             /\ caller' = [caller EXCEPT ![c] = [pc |-> "create", call |-> k]]
  /\ UNCHANGED <<storeVars, tombstone, pending, thread, resolver, instance>>

\* createBinding up to thread/start: a persisted binding is the answer; eligibility, launch
\* and authentication may refuse; then the pump reserves the creation.
CreateBinding(c) ==
  /\ caller[c].pc = "create"
  /\ \/ bound # 0 /\ Goto(c, "ok") /\ UNCHANGED pending
     \/ Goto(c, "rejected") /\ UNCHANGED pending
     \/ bound = 0 /\ pending' = "reserved" /\ Goto(c, "start")
  /\ UNCHANGED <<storeVars, tombstone, current, result, thread, resolver, instance>>

\* thread/start is not transmitted, or the child answers with an error: no thread.
ThreadStartRefused(c) ==
  /\ caller[c].pc = "start" /\ thread[Call(c)] = "none"
  /\ pending' = "none" /\ Goto(c, "rejected")
  /\ UNCHANGED <<storeVars, tombstone, current, result, thread, resolver, instance>>

\* The child creates the thread; its notification and its response come in either order.
NativeStarts(c) ==
  /\ caller[c].pc = "start" /\ thread[Call(c)] = "none"
  /\ thread' = [thread EXCEPT ![Call(c)] = "live"]
  /\ UNCHANGED <<storeVars, adapterVars, caller, resolver, instance>>

ThreadStarted(c) ==
  /\ caller[c].pc \in {"start", "confirm"} /\ thread[Call(c)] = "live" /\ pending = "reserved"
  /\ pending' = "notified"
  /\ UNCHANGED <<storeVars, tombstone, current, result, thread, caller, resolver, instance>>

Response(c) ==
  /\ caller[c].pc = "start" /\ thread[Call(c)] = "live"
  /\ Goto(c, "confirm")
  /\ UNCHANGED <<storeVars, adapterVars, thread, resolver, instance>>

Uncertain(c) ==
  /\ pending' = "none" /\ Goto(c, "uncertain")
  /\ thread' = [thread EXCEPT ![Call(c)] = "uncertain"]

\* The response is lost: AbandonCreation, and the child is stopped.
ResponseLost(c) ==
  /\ caller[c].pc = "start" /\ Uncertain(c)
  /\ UNCHANGED <<storeVars, tombstone, current, result, resolver, instance>>

\* CompleteCreation: the notified id is the response's and well formed, or it is not, or the
\* notification does not come within the grace.
CompleteCreation(c) ==
  /\ caller[c].pc = "confirm"
  /\ \/ pending = "notified" /\ pending' = "none" /\ Goto(c, "ok") /\ UNCHANGED thread
     \/ Uncertain(c)
  /\ UNCHANGED <<storeVars, tombstone, current, result, resolver, instance>>

\* Slip: a failed call is retired as it is published, before the tombstone stands.
SlipPublish(c) ==
  /\ caller[c].pc \in {"ok", "rejected", "uncertain"}
  /\ result' = [result EXCEPT ![Call(c)] = caller[c].pc]
  /\ Goto(c, CASE caller[c].pc = "ok" -> "bind" [] caller[c].pc = "rejected" -> "retire"
               [] OTHER -> "entomb")
  /\ current' = IF caller[c].pc = "ok" THEN current ELSE 0
  /\ UNCHANGED <<storeVars, tombstone, pending, thread, resolver, instance>>

\* The outcome is published to the callers that share it.
Publish(c) ==
  /\ caller[c].pc \in {"ok", "rejected", "uncertain"}
  /\ result' = [result EXCEPT ![Call(c)] = caller[c].pc]
  /\ Goto(c, CASE caller[c].pc = "ok" -> "bind" [] caller[c].pc = "rejected" -> "retire"
               [] OTHER -> "entomb")
  /\ UNCHANGED <<storeVars, tombstone, current, pending, thread, resolver, instance>>

Entomb(c) ==
  /\ caller[c].pc = "entomb"
  /\ tombstone' = TRUE
  /\ Goto(c, "retire")
  /\ UNCHANGED <<storeVars, current, result, pending, thread, resolver, instance>>

\* A failed creation call is retired, if it still is the one on record.
Retire(c) ==
  /\ caller[c].pc = "retire"
  /\ current' = IF current = Call(c) THEN 0 ELSE current
  /\ IF result[Call(c)] = "uncertain" THEN Goto(c, "record") ELSE Return(c)
  /\ UNCHANGED <<storeVars, tombstone, result, pending, thread, resolver, instance>>

Join(c) ==
  /\ caller[c].pc = "join"
  /\ \/ result[Call(c)] = "ok" /\ Goto(c, "bind")
     \/ result[Call(c)] = "uncertain" /\ Goto(c, "record")
     \/ result[Call(c)] = "rejected" /\ Return(c)
  /\ UNCHANGED <<storeVars, adapterVars, thread, resolver, instance>>

\* RecordCodexCreationUncertain: idempotent while an episode is open, which is then of every
\* creation published as uncertain.  The write may fail.
RecordUncertain(c) ==
  /\ caller[c].pc = "record"
  /\ \/ /\ IF open THEN UNCHANGED episodes ELSE episodes < MaxEpisode /\ episodes' = episodes + 1
        /\ open' = TRUE
        /\ thread' = [k \in Creations |->
                        IF thread[k] = "uncertain" /\ result[k] = "uncertain" THEN "recorded"
                        ELSE thread[k]]
     \/ UNCHANGED <<open, episodes, thread>>
  /\ Return(c)
  /\ UNCHANGED <<bound, adapterVars, resolver, instance>>

\* BindCodexSession: authority may be gone, and a session is bound once.
BindCodexSession(c) ==
  /\ caller[c].pc = "bind"
  /\ \/ /\ bound = 0 /\ thread[Call(c)] = "live"
        /\ bound' = Call(c)
        /\ thread' = [thread EXCEPT ![Call(c)] = "bound"]
     \/ UNCHANGED <<bound, thread>>
  /\ Return(c)
  /\ UNCHANGED <<open, episodes, adapterVars, resolver, instance>>

\* ResolveCodexCreationUncertainty in the store, then the adapter's tombstone is cleared.
Resolve ==
  /\ open /\ ~resolver
  /\ open' = FALSE /\ resolver' = TRUE
  /\ thread' = [k \in Creations |-> IF thread[k] = "recorded" THEN "resolved" ELSE thread[k]]
  /\ UNCHANGED <<bound, episodes, adapterVars, caller, instance>>

\* A resolution that is sent again is answered from the journal, and clears as the first did.
ReplayResolve ==
  /\ ~resolver /\ episodes > (IF open THEN 1 ELSE 0)
  /\ resolver' = TRUE
  /\ UNCHANGED <<storeVars, adapterVars, thread, caller, instance>>

\* The tombstone is cleared whatever it was set for.  A thread of a later creation, not yet in
\* an episode, or in one that a request under way did not see, blocks nobody from here on.
ClearTombstone ==
  /\ resolver /\ resolver' = FALSE
  /\ tombstone' = FALSE
  /\ thread' = [k \in Creations |->
                  IF /\ tombstone
                     /\ \/ thread[k] = "uncertain"
                        \/ thread[k] = "recorded" /\ \E c \in Callers : caller[c].pc = "adapter"
                  THEN "exposed" ELSE thread[k]]
  /\ UNCHANGED <<storeVars, current, result, pending, caller, instance>>

\* The next process knows of no thread that is not in the store.
Crash ==
  /\ instance < MaxInstance /\ instance' = instance + 1
  /\ tombstone' = FALSE /\ current' = 0 /\ pending' = "none" /\ resolver' = FALSE
  /\ result' = [k \in Creations |-> IF result[k] = "none" THEN "none" ELSE "gone"]
  /\ caller' = [c \in Callers |-> IdleCaller]
  /\ thread' = [k \in Creations |->
                  IF thread[k] \in {"live", "uncertain"} THEN "forgotten" ELSE thread[k]]
  /\ UNCHANGED storeVars

Requesting(c) ==
  \/ CreateCodexSession(c) \/ CreateSession(c) \/ CreateBinding(c) \/ ThreadStartRefused(c)
  \/ NativeStarts(c) \/ ThreadStarted(c) \/ Response(c) \/ ResponseLost(c) \/ CompleteCreation(c)
  \/ Publish(c) \/ Entomb(c) \/ Retire(c) \/ Join(c) \/ RecordUncertain(c) \/ BindCodexSession(c)

Next == (\E c \in Callers : Requesting(c)) \/ Resolve \/ ReplayResolve \/ ClearTombstone \/ Crash

Spec == Init /\ [][Next]_vars

-----------------------------------------------------------------------------

\* Recreation is blocked while a thread is live, bound, or uncertain and neither resolved nor
\* out of sight: the session has one such thread at most, whatever requests and resolutions
\* overlap.  So a crash forgets one thread at most, and a resolution exposes one at most; that
\* they may, and that another thread can then be started beside it, is what the code does.
OneNativeThread ==
  \A j, k \in Creations :
    {thread[j], thread[k]} \subseteq {"live", "uncertain", "recorded", "bound"} => j = k
=============================================================================
