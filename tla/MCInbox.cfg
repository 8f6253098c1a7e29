CONSTANTS
  Offers = {o1, o2}
  Receivers = {plain, choosy}
  choosy = choosy
  passedOver = {o1}
  None = None
  Accepts <- MCAccepts
  Selective = {choosy}
  Reasons = {ended, dropped}
  Open = Open
SPECIFICATION Spec
SYMMETRY Symmetry
CHECK_DEADLOCK FALSE
INVARIANTS OneReply TakenOnce QueueInArrivalOrder OverdueNeverQueued ToldWhatHappened
PROPERTY KeepsThePromise
