------------------------------- MODULE MCServers -------------------------------
(***************************************************************************)
(* The adapters whose turns share a resident child, for model checking.    *)
(* They share no state: a behaviour is one of one of them, and a variable  *)
(* that it does not have is 0.  The opencode session has the same number   *)
(* of turns; in the runs the first is dispatched by two calls or observed. *)
(***************************************************************************)
EXTENDS CodexTurn

CONSTANTS Calls, Ref, Observers, Watched, MaxPump, LateCalls   \* OpencodeTurn

\* A turn is observed by one call.
ASSUME OpencodeAssumption ==
  /\ Ref \in [Calls -> Turns]
  /\ Watched \in [Observers -> Turns]
  /\ \A o, p \in Observers : Watched[o] = Watched[p] => o = p
  /\ None \notin Calls /\ None \notin Observers /\ None # "unknown"
  /\ MaxPump \in Nat

MCRef == <<1, 1, 2>>
MCWatched == <<1>>

VARIABLES
  part,                                              \* whose behaviour this is
  gens, alive, launcher, parked, parker, launching, unknown, verdict, call,
  pump, pumps, current, obs                          \* OpencodeTurn

Opencode == INSTANCE OpencodeTurn

codexOnly == <<generation, conn, proc, fatal, busy, firing, row, protected, materialized, cancel,
               resp, rollout>>
opencodeOnly == <<gens, alive, launcher, parked, parker, launching, unknown, verdict, call,
                  pump, pumps, current, obs>>

NoCodex ==
  /\ generation = 0 /\ conn = 0 /\ proc = 0 /\ fatal = 0 /\ busy = 0 /\ firing = 0 /\ row = 0
  /\ protected = 0 /\ materialized = 0 /\ cancel = 0 /\ resp = 0 /\ rollout = 0
NoOpencode ==
  /\ gens = 0 /\ alive = 0 /\ launcher = 0 /\ parked = 0 /\ parker = 0 /\ launching = 0
  /\ unknown = 0 /\ verdict = 0 /\ call = 0 /\ pump = 0 /\ pumps = 0 /\ current = 0 /\ obs = 0

MCInit ==
  \/ part = "codex" /\ Init /\ NoOpencode
  \/ part = "opencode" /\ Opencode!Init /\ NoCodex

\* The calls for a turn are interchangeable: they are made in the order of their numbers.  A
\* turn is dispatched twice or it is observed.
CallsInOrder ==
  \A c, d \in Calls :
    c < d /\ Ref[c] = Ref[d] /\ call[d].pc # "idle" =>
      call[c].pc # "idle" /\ \A o \in Observers : Watched[o] = Ref[c] => obs[o].pc = "idle"

MCNext ==
  \/ part = "codex" /\ Next /\ UNCHANGED <<protected, opencodeOnly, part>>
  \/ part = "opencode" /\ Opencode!Next /\ CallsInOrder' /\ UNCHANGED <<codexOnly, part>>

MCSpec == MCInit /\ [][MCNext]_<<vars, opencodeOnly, part>>

-----------------------------------------------------------------------------

\* What the codex adapter says of a turn is so: a turn it rejected never runs, a verdict it
\* commits is the one the child reached, and a confirmed cancellation has an interrupted
\* turn behind it.
CodexVerdictsTrue ==
  part = "codex" =>
    ServerTypeOK /\ RejectedNeverRuns /\ VerdictIsNative /\ ConfirmedIsInterrupted

\* The codex adapter keeps the promise of NativeTurns, whatever children its turns share: one
\* turn at a time is worked on, each once, across the children that replace a parked, stopped
\* or crashed one.  The service is told once how a turn ended: a verdict of a turn that a child
\* took up and no child works on any more, a failure of one that no child took up and none will.
\* Which verdict it is, is CodexVerdictsTrue's; verified absence is excepted (AbsentTookNothing).
CodexImplementsTurns ==
  /\ part = "codex" => Native!Init
  /\ [][part = "codex" => UNCHANGED Native!vars \/ Native!Next]_vars

\* What the opencode adapter says of a turn is so: no prompt that a caller was told is
\* rejected was taken up, a registered turn was, and a tap that ends by itself was given
\* the turn's terminal.
OpencodeVerdictsTrue ==
  part = "opencode" => Opencode!VerdictsAreTrue /\ Opencode!TapEndsWithTerminal

\* A native session works on one prompt at a time, and its slot is not left behind by a turn
\* that is over.
OpencodeSlotHeld ==
  part = "opencode" => Opencode!OneTurnPerNativeSession /\ Opencode!SlotOwnerIsOpen
=============================================================================
