--------------------------- MODULE MCSessionStore ---------------------------
(* SessionStore for model checking: turns, prompts and tool sets are model  *)
(* values; turns and tool sets are interchangeable.  The longest histories  *)
(* and those with a second generation of controllers are explored where no  *)
(* operation id is presented again.                                         *)
EXTENDS SessionStore, TLC

CONSTANT MaxRetriedVersion   \* bound on the row version once an id was presented

Symmetry == Permutations(TurnKeys) \cup Permutations(Tools)

InBounds ==
  gen > 1 \/ rowVersion > MaxRetriedVersion => \A o \in OpIDs : journal[o] = NoReceipt
=============================================================================
