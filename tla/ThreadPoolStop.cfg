SPECIFICATION FairSpec
CONSTANTS
  main = main
  j1 = j1
  j2 = j2
  NoTask = NoTask
  Callers <- MCCallers
  Tasks <- MCTasks
  NumThreads = 2
  QueueSize = 2
  SerialEnqueue = TRUE
CHECK_DEADLOCK FALSE
PROPERTIES
  StopReturns
