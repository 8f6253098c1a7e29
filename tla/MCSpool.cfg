CONSTANTS
  Messages = {1}
  Clocks <- AllClocks
  Lives = 2
  Faults = 1
  Refusable <- ButAnswers
SPECIFICATION Spec
CHECK_DEADLOCK FALSE
INVARIANTS NeverHadOnceGivenUp AnswersArrive TakenIsAccountedFor
