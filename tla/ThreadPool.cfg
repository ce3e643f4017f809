SPECIFICATION FairSpec
CONSTANTS
  Workers = {t1, t2, t3}
  QueueJobs = {q1, q2}
  RunJobs = {r1}
  NoJob = none
  InitThreads = 1
  MinThreads = 1
  MaxThreads = 3
  CreateMayFail = TRUE
INVARIANTS
  NoWorkStranded
  QueueCannotFail
  FreedClean
PROPERTIES
  ImplementsJobPool
  FreeReturns
