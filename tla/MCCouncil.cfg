\* Two turns and two recovery episodes; the code's roster and a stranger; two publishers.
CONSTANTS
  TurnKeys = {k1, k2}
  Prompts = {p1, p2}
  Results = {r1}
  NoKey = noKey
  NoResult = noResult
  NoPrompt = noPrompt
  MaxRecoveries = 2
  Roster = {opencode, claude, codex, agy}
  Strangers = {stranger}
  Sealed = sealed
  Stale = stale
  e1 = e1
  e2 = e2
  e3 = e3
  s1 = s1
  s2 = s2
  s3 = s3
  Ids = {i1}
  Contents = {d1, d2}
  Executions = {e1, e2, e3}
  SessionOf <- MCSessionOf
  ContributorOf <- MCContributorOf
  Publishers = {u1, u2}
  ArtOps = {o1, o2}
  MaxRevision = 3
  NoExecution = NoExecution
SPECIFICATION MCSpec
INVARIANTS
  KernelInv
  TallyCorrect
  ArtifactInv
PROPERTIES
  KernelImplementsLifecycle
  SealedReadsAreStable
SYMMETRY Symmetry
