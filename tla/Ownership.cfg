SPECIFICATION Spec
CONSTANTS
  p1 = p1
  p2 = p2
  p3 = p3
  pool1 = pool1
  pool2 = pool2
  log1 = log1
  log2 = log2
  log3 = log3
  e1 = e1
  e2 = e2
  t1 = t1
  t2 = t2
  s1 = s1
  s2 = s2
  s3 = s3
  Handles <- AllHandles
  Cells <- AllCells
  Class <- ClassOf
  Null = Null
  MoveConnected = FALSE
SYMMETRY Interchangeable
INVARIANTS TypeOK OwnedOnce EnginesOwned CallbacksFindProcess
