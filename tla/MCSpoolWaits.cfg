CONSTANTS
  Messages = {1}
  Clocks <- SharedClock
  Lives = 1
  Faults = 1
  Refusable <- ButAnswers
SPECIFICATION FairSpec
CHECK_DEADLOCK FALSE
PROPERTIES OfferReturns DeadlineEndsTheWait GoneIsNoticed
