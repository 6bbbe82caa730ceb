SPECIFICATION FairSpec
CONSTANTS
  w1 = w1  w2 = w2
  p1 = p1  p2 = p2
  j1 = j1  j2 = j2  j3 = j3
  NoJob = NoJob
  MsgExit = MsgExit
  Idle = Idle
  Gone = Gone
  Worker <- TwoWorkers
  Producer <- TwoProducers
  Job <- ThreeJobs
  FailingJob <- OneFails
  MaxLen = 6
INVARIANTS
  EachJobRunsAtMostOnce
PROPERTIES
  AcceptedJobsRun
  CloseReturns
