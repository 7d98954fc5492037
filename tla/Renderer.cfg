SPECIFICATION Spec
CONSTANTS
  Clients = {c1, c2}
  c1 = c1
  c2 = c2
  None = None
  Scenes <- MCScenes
  FieldSetups <- MCFieldSetups
  MaxActive <- MCMaxActive
  MaxVertexBuffers = 2
  MaxBuffersPerData = 1
  MaxEnqueuedRenderKeys = 2
CHECK_DEADLOCK FALSE
INVARIANTS
  TypeOK
  CountsMatch
  ChecksHold
  
