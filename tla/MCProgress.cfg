SPECIFICATION ProgressSpec
CONSTANTS
  Bodies <- JustQuestions
  Askers = {"a"}
  Keys = {"k"}
  NoRecord = NoRecord
  MaxId = 2
  HoldPending = TRUE
  BlockingFirst = TRUE
  Supersedes = FALSE
  Procs = {p1, p2}
  Nobody = Nobody
  KeepsProjection = TRUE
  OldLogs <- PendingLogs
  MaxGrowth = 1
  Offers = {o1}
  Receivers = {plain, other, choosy}
  choosy = choosy
  passedOver = {o1}
  None = None
  Accepts <- MCAccepts
  Selective = {choosy}
  Reasons = {ended, dropped}
  Open = Open
CHECK_DEADLOCK FALSE
PROPERTIES CallsEnd ReceiversWake NoSenderLeftWaiting
