SPECIFICATION PromiseSpec
CONSTANTS
  Bodies <- MCBodies
  Askers = {"a", "b"}
  Keys = {"k"}
  NoRecord = NoRecord
  MaxId = 3
  HoldPending = TRUE
  BlockingFirst = TRUE
  Supersedes = TRUE
  Procs = {p1, p2}
  Nobody = Nobody
  KeepsProjection = TRUE
  OldLogs <- MCOldLogs
  MaxGrowth = 2
SYMMETRY Symmetry
INVARIANTS
  ProjectionSound
  WriterUpToDate
  LogInOrder
PROPERTIES KeepsLifecycle
