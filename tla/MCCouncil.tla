------------------------------- MODULE MCCouncil -------------------------------
(***************************************************************************)
(* The council's domain objects for model checking: the session kernel,    *)
(* the tally of the ballots, and the artifacts and sealed proposal sets.   *)
(* They share no state; a behaviour is one of one of them.                 *)
(***************************************************************************)
EXTENDS CouncilKernel, Ballots, Artifacts, TLC

CONSTANTS e1, e2, e3, s1, s2, s3

VARIABLE part   \* whose behaviour this is

\* Three executions in three sessions, two of them of the same contributor.
MCSessionOf == [e \in {e1, e2, e3} |-> CASE e = e1 -> s1 [] e = e2 -> s2 [] OTHER -> s3]
MCContributorOf == [s \in {s1, s2, s3} |-> IF s = s2 THEN "codex" ELSE "claude"]

\* The names that only artifacts use are interchangeable.
Symmetry == Permutations(Publishers) \cup Permutations(Contents) \cup Permutations(ArtOps)

\* So are the contributors in a vote: one of them is the first to cast a ballot.
FirstVoter == CHOOSE r \in Roster : TRUE
CastBallot ==
  \E b \in Ballot : (ballots = <<>> => b.voter \in Strangers \cup {FirstVoter}) /\ Submit(b)

MCInit == part \in {"kernel", "ballots", "artifacts"} /\ Init /\ BallotInit /\ ArtInit

\* A spoiled or complete vote, and a finished publication, take no further step.
Rest == part # "kernel" /\ UNCHANGED <<vars, ballots, artVars, part>>

MCNext ==
  \/ part = "kernel" /\ Next /\ UNCHANGED <<ballots, artVars, part>>
  \/ part = "ballots" /\ CastBallot /\ UNCHANGED <<vars, artVars, part>>
  \/ part = "artifacts" /\ ArtNext /\ UNCHANGED <<vars, ballots, part>>
  \/ Rest

MCSpec == MCInit /\ [][MCNext]_<<vars, ballots, artVars, part>>

-----------------------------------------------------------------------------

\* The kernel's types hold, and a lost session stays recoverable (EpisodeNamesTurn).
KernelInv == part = "kernel" => TypeOK /\ EpisodeNamesTurn

\* The kernel obeys the same turn lifecycle as the durable store (ImplementsLifecycle): a probe
\* cannot bring a turn that is being cancelled back to running, and nothing begins while the
\* host is lost.
KernelImplementsLifecycle ==
  Lifecycle!Init /\ [][part = "kernel" => [Lifecycle!Next]_(Lifecycle!vars)]_vars

\* Every record of an artifact names a blob that is on disk with that content (RecordsHold),
\* however its publication was interleaved, retried or cut off, and an operation that is sent
\* twice records one revision.
ArtifactInv == part = "artifacts" => RecordsHold /\ OneRevisionPerOp
=============================================================================
