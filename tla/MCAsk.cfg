SPECIFICATION Spec
CONSTANTS
  Bodies <- MCBodies
  Askers = {"a"}
  Keys = {"k"}
  NoRecord = NoRecord
  MaxId = 2
  HoldPending = TRUE
  BlockingFirst = TRUE
  Supersedes = FALSE
  Listeners = {l1}
  Repliers = {r1, r2}
  AskerOf <- MCAskerOf
  None = None
  MaxLines = 4
CHECK_DEADLOCK FALSE
SYMMETRY Symmetry
INVARIANTS
  FirstReplySettles
  NoReplyMissed
  ReleasedByAReply
  OneAnswerPerClaim
