SPECIFICATION Spec
CONSTANTS
  Req = {1, 2}
  Thread = {"k1", "k2"}
  NoThread = "none"
  MaxConv = 2
  Group = {"g1", "g2"}
  Tool = {"t1", "t3"}
  Blacklist = {"t3"}
  Catalogues <- MCCatalogues
  Explicit = {}
  Smart = TRUE
  Id = {"a", "b"}
  Histories <- MCHistories
  MaxCalls = 2
  MaxIterations = 3
  Posts = {1, 2}
  Langs = {"de"}
  Slotless = {1}
  Window = 2
  MaxToots = 7
  MaxOwn = 1
  MaxFaults = 2
  Chatter = Chatter
  Slot = Slot
  NoSlot = NoSlot
  Torn = Torn
  Absent = Absent
  None = None
INVARIANTS
  TypeOK
  ResultsSeen
  OneToot
PROPERTIES
  ImplementsAtomicStore
  OneConversation
  CacheConsistent
  EveryoneServed
CHECK_DEADLOCK FALSE
