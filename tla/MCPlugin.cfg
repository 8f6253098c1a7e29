CONSTANTS
  t1 = t1
  t2 = t2
  t3 = t3
  c1 = c1
  c2 = c2
  q1 = q1
  q2 = q2
  Threads = {t1, t2, t3}
  Clients = {c1, c2}
  ClientOf <- MCClientOf
  Queues = {q1, q2}
  Uses <- MCUses
  Nests <- MCNests
  NoOne = NoOne
  MaxCalls = 1
  MaxRecords = 2
  Slices = 1
  Refusals = 0
  Deaths = 1
SPECIFICATION PluginSpec
CHECK_DEADLOCK FALSE
INVARIANTS NoStrayReply SectionsAreAtomic
PROPERTY CallsReturn
