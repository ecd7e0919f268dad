------------------------------- MODULE Ballots -------------------------------
(***************************************************************************)
(* Tally of internal/council: the count of one sealed vote, as an operator *)
(* on the submitted ballots, checked against what a valid vote is.         *)
(***************************************************************************)
EXTENDS Naturals, Sequences, FiniteSets

CONSTANTS
  Roster,     \* the contributors that take part
  Strangers,  \* names that are not contributors
  Sealed,     \* the proposal set that is voted on
  Stale       \* an earlier proposal set

ASSUME BallotsAssumption ==
  /\ IsFiniteSet(Roster)
  /\ Roster \cap Strangers = {}
  /\ Sealed # Stale

Ballot == [voter : Roster \cup Strangers, choice : Roster \cup Strangers,
           proposalSet : {Sealed, Stale}, reasoned : BOOLEAN]

\* Slip: the voters already counted are not looked up.
SlipAcceptable(b, seen) ==
  /\ b.voter \in Roster /\ b.choice \in Roster
  /\ b.voter # b.choice
  /\ b.proposalSet = Sealed
  /\ b.reasoned

\* The checks of the loop on one ballot.
Acceptable(b, seen) ==
  /\ b.voter \in Roster /\ b.choice \in Roster
  /\ b.voter # b.choice
  /\ b.voter \notin seen
  /\ b.proposalSet = Sealed
  /\ b.reasoned

\* One turn of the loop; an error ends it.
Count(acc, b) ==
  IF acc.ok /\ Acceptable(b, acc.seen)
    THEN [acc EXCEPT !.seen = @ \cup {b.voter}, !.out[b.choice] = @ + 1]
    ELSE [acc EXCEPT !.ok = FALSE]

\* Before the loop.
NoneCounted == [ok |-> TRUE, seen |-> {}, out |-> [c \in Roster |-> 0]]

\* The loop over the ballots.
Counted(bs) ==
  LET upTo[n \in 0 .. Len(bs)] == IF n = 0 THEN NoneCounted ELSE Count(upTo[n - 1], bs[n])
  IN  upTo[Len(bs)]

Tally(bs) ==
  IF Len(bs) # Cardinality(Roster) THEN [NoneCounted EXCEPT !.ok = FALSE] ELSE Counted(bs)

-----------------------------------------------------------------------------
(* The ballots as they come in, until one of them spoils the vote.         *)

VARIABLE ballots

BallotInit == ballots = <<>>

Submit(b) ==
  /\ Len(ballots) <= Cardinality(Roster)
  /\ Counted(ballots).ok
  /\ ballots' = Append(ballots, b)

BallotNext == \E b \in Ballot : Submit(b)

BallotSpec == BallotInit /\ [][BallotNext]_ballots

-----------------------------------------------------------------------------

\* A valid vote, said without the loop: every contributor cast exactly one
\* reasoned ballot for somebody else, on the sealed proposal set.
ValidVote ==
  /\ Len(ballots) = Cardinality(Roster)
  /\ {ballots[i].voter : i \in DOMAIN ballots} = Roster
  /\ \A i \in DOMAIN ballots :
       /\ ballots[i].choice \in Roster \ {ballots[i].voter}
       /\ ballots[i].proposalSet = Sealed
       /\ ballots[i].reasoned

\* Tally accepts the valid votes and no others, and then counts every ballot
\* once: the choices add up and nobody is credited with a ballot of their own.
TallyCorrect ==
  /\ Tally(ballots).ok <=> ValidVote
  /\ Tally(ballots).ok =>
       \A c \in Roster :
         Tally(ballots).out[c] = Cardinality({i \in DOMAIN ballots : ballots[i].choice = c})
=============================================================================
