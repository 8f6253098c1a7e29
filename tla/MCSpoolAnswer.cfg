CONSTANTS
  Messages = {1}
  Clocks <- SharedClock
  Lives = 1
  Faults = 1
  Refusable <- OnlyAnswers
SPECIFICATION Spec
CHECK_DEADLOCK FALSE
INVARIANT NeverHadOnceGivenUp
