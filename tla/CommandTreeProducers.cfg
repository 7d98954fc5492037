SPECIFICATION FairSpec
CONSTANTS
  a = a
  b = b
  c = c
  d = d
  NoNode = NoNode
  Main = Main
  NumThreads = 2
  Nodes <- MCNodes
  Dependencies <- MCDependencies
  Children <- MCChildren
  Roots <- MCRoots
  Failing <- MCFailing
  SerialEnqueue = FALSE
CHECK_DEADLOCK FALSE
INVARIANTS
  OneProducer
