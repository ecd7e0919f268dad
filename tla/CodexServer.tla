----------------------------- MODULE CodexServer -----------------------------
(***************************************************************************)
(* The codex app-server children of one logical session: at most one is    *)
(* registered; it is launched on demand, parked after an idle grace unless *)
(* the session is marked busy, stopped, or poisoned when its stream breaks.*)
(*                                                                         *)
(* Terminating a child closes its connection first and then ends the       *)
(* process, so there is a time in which the connection is done and the     *)
(* process still runs ("ending").  The fatal handler of a connection runs  *)
(* in a goroutine of its own and names only the session, not the child.    *)
(* Drift that the pump detects is modelled with the broken stream: both    *)
(* end in the same handler.                                                *)
(***************************************************************************)
EXTENDS Naturals

CONSTANTS
  None,
  MaxGen     \* bound on child generations

ASSUME CodexServerAssumption == MaxGen \in Nat /\ None \notin Nat

Gens == 1 .. MaxGen

VARIABLES
  child,       \* the generation of the registered child, or None
  generation,  \* the generations started so far
  conn,        \* conn[g]: "none", "open" or "done"
  proc,        \* proc[g]: "none", "up", "ending" or "exited"
  fatal,       \* the generations whose fatal handler is about to run
  busy,        \* the session is marked busy
  timer,       \* the idle timer is armed
  firing       \* a fired idle timer is about to call park

serverVars == <<child, generation, conn, proc, fatal, busy, timer, firing>>
processVars == <<conn, proc, fatal, generation>>

ServerInit ==
  /\ child = None
  /\ generation = 0
  /\ conn = [g \in Gens |-> "none"]
  /\ proc = [g \in Gens |-> "none"]
  /\ fatal = {}
  /\ busy = FALSE /\ timer = FALSE /\ firing = FALSE

ServerTypeOK ==
  /\ child \in Gens \cup {None}
  /\ generation \in 0 .. MaxGen
  /\ conn \in [Gens -> {"none", "open", "done"}]
  /\ proc \in [Gens -> {"none", "up", "ending", "exited"}]
  /\ fatal \subseteq Gens
  /\ {busy, timer, firing} \subseteq BOOLEAN

-----------------------------------------------------------------------------

\* terminate: the connection is closed, then the process is ended.
Terminate(g) ==
  /\ conn' = [conn EXCEPT ![g] = "done"]
  /\ proc' = [proc EXCEPT ![g] = IF @ = "up" THEN "ending" ELSE @]
  /\ UNCHANGED <<generation, fatal>>

Unregister ==
  /\ child' = None
  /\ IF child = None THEN UNCHANGED processVars ELSE Terminate(child)

MarkBusy ==
  /\ busy' = TRUE /\ timer' = FALSE
  /\ UNCHANGED <<child, firing>> /\ UNCHANGED processVars

\* Without a child there is nothing to park and the timer is left alone.
MarkIdle ==
  /\ busy' = FALSE /\ timer' = (timer \/ child # None)
  /\ UNCHANGED <<child, firing>> /\ UNCHANGED processVars

\* stop: the registered child, whichever generation it is; the busy mark goes too.
Stop ==
  /\ Unregister
  /\ busy' = FALSE /\ timer' = FALSE
  /\ UNCHANGED firing

\* start, when no child is registered: the launch, the handshake and its attestation
\* succeed.  The timer is armed with the registration unless the session is busy: a stop or
\* the previous turn's late markIdle may have cleared the mark.
Launch ==
  /\ child = None /\ generation < MaxGen
  /\ generation' = generation + 1
  /\ child' = generation'
  /\ conn' = [conn EXCEPT ![generation'] = "open"]
  /\ proc' = [proc EXCEPT ![generation'] = "up"]
  /\ timer' = (timer \/ ~busy)
  /\ UNCHANGED <<fatal, busy, firing>>

\* start fails: nothing is launched, or the handshake fails and the child is ended.
LaunchFails ==
  /\ child = None /\ generation < MaxGen
  /\ generation' = generation + 1
  /\ proc' = [proc EXCEPT ![generation'] = "exited"]
  /\ UNCHANGED <<child, conn, fatal, busy, timer, firing>>

\* The idle timer fires; park takes the lock later.
TimerFires ==
  /\ timer /\ ~firing
  /\ firing' = TRUE /\ timer' = FALSE
  /\ UNCHANGED <<child, busy>> /\ UNCHANGED processVars

\* park re-checks the busy mark under the lock.
Park ==
  /\ firing
  /\ firing' = FALSE
  /\ IF busy THEN UNCHANGED child /\ UNCHANGED processVars ELSE Unregister
  /\ UNCHANGED <<busy, timer>>

\* The reader of a connection fails on anything but a clean end of the stream, of a
\* live child or of one that is being ended: the handler is started.  The pump has a
\* handler of its own, so a child may have more than one.
StreamBreaks(g) ==
  /\ proc[g] \in {"up", "ending"} /\ g \notin fatal
  /\ conn' = [conn EXCEPT ![g] = "done"]
  /\ fatal' = fatal \cup {g}
  /\ UNCHANGED <<child, generation, proc, busy, timer, firing>>

\* poison(key): ends whatever child the session has by now.
Poison(g) ==
  /\ g \in fatal
  /\ child' = None
  /\ conn' = IF child = None THEN conn ELSE [conn EXCEPT ![child] = "done"]
  /\ proc' = IF child = None THEN proc
             ELSE [proc EXCEPT ![child] = IF @ = "up" THEN "ending" ELSE @]
  /\ fatal' = fatal \ {g}
  /\ UNCHANGED <<generation, busy, timer, firing>>

\* The process ends, by itself or because it is being terminated; the reader sees a clean
\* end of the stream.  The child stays registered.
Exit(g, state) ==
  /\ proc[g] = state
  /\ proc' = [proc EXCEPT ![g] = "exited"]
  /\ conn' = [conn EXCEPT ![g] = "done"]
  /\ UNCHANGED <<child, generation, fatal, busy, timer, firing>>

\* The service crashes: its table of children is gone, the processes are not.
ServerCrash ==
  /\ child' = None
  /\ conn' = [g \in Gens |-> IF conn[g] = "open" THEN "done" ELSE conn[g]]
  /\ fatal' = {}
  /\ busy' = FALSE /\ timer' = FALSE /\ firing' = FALSE
  /\ UNCHANGED <<generation, proc>>

=============================================================================
