SPECIFICATION LocalSpec
CONSTANTS
  Procs = {p1, p2}
  Nobody = Nobody
  Consumers = {c1}
  Files = {f1, f2}
  NoFile = NoFile
  narrow = narrow
  wide = wide
  Kinds = {narrow, wide}
  Width <- MCWidth
  Admitted = {narrow, wide}
  Newline = Newline
  NoCheckpoint = NoCheckpoint
  OldCells <- MCOldCells
  MaxPushed = 2
  MaxMeddling = 1
SYMMETRY Symmetry
INVARIANT PlacesHold
PROPERTIES
  CheckpointsChangeNoAnswer
  DoneStaysDone
