SPECIFICATION FairSpec
CONSTANTS
  Selectors = {zero, groth}
  Implementations = {v1, v2}
  UNSET = UNSET
  TOMBSTONE = TOMBSTONE
  Requests = {1, 2, 3}
  Workers = {w1, w2}
  NoWorker = NoWorker
  Workloads <- SomeWorkloads
  ZeroSelector = zero
  ProverSelector = groth
  Unsupported = Unsupported
INVARIANT AnsweredIsSettled
 
INVARIANT NoNonceGap
INVARIANT OneVerifierPerSelector
INVARIANT DeletedStaysDeleted
PROPERTY DeadStaysDead
PROPERTY EveryRequestAnswered
CHECK_DEADLOCK FALSE
