SPECIFICATION ServicesSpec
CONSTANTS
  h1 = h1
  h2 = h2
  h3 = h3
  s1 = s1
  s2 = s2
  Handles = {h1, h2, h3}
  Stores = {s1, s2}
  Inside <- SecondInside
  Calls <- TheCalls
  MaxOps <- TheOps
  Free = Free
  MaxLength = 2
  Writers = {"w1", "w2"}
  Readers = {"r"}
  Sinks = {"single", "shared"}
  MaxEmits = 3
  MaxReads = 2
  MaxFaults = 1
  Carriers = {"s1", "s2"}
  MaxCarried = 2
  MaxSessions = 2
  MaxMishaps = 1
  Residents = {d1, d2, d3}
  NoResident = NoResident
  Gone = Gone
  MaxSetbacks = 2
  RequestIds = {1, 2}
  NoId = 0
  Streaming = {1}
  MaxRequests = 3
  MaxEvents = 1
  Polite = FALSE
  Letters = {"a", "b"}
  Star = "*"
  MaxPattern = 4
  MaxText = 4
  Resolvers = {"x", "y"}
  Declares <- OneVersion
  Tagged = {1, 2}
  Pin <- Eight
  MaxVerbs = 3
  MaxTroubles = 1
  MaxFrames = 3
  Offerers = {"x", "y"}
  Contents = {"c"}
  Routes <- TheRoutes
  JudgedBy <- TheValidators
  Questions = {"none", "q"}
  Commands <- TheCommands
  Cached = {"cached", "shared"}
  Whens <- TheJudged
  Bars = {1, 2}
  Passing <- ThePassing
  NoBar = 0
  MaxMoves = 2
  MaxOffers = 1
CHECK_DEADLOCK FALSE
INVARIANTS
  WaitsAndSectionsHold
  StreamIntact
  ResumedReadsTile
  CarriedInOrder
  RunsCanBeStopped
  RaceLeavesOne
  GlobMeansIt
  ConfirmedIsServed
  EndingDecides
  
PROPERTY EntriesStay
