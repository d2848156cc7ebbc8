SPECIFICATION FairSpec
CONSTANTS
  t1 = t1 t2 = t2 r1 = r1 r2 = r2 r3 = r3 c1 = c1 c2 = c2 c3 = c3
  s1 = s1 s2 = s2 rev1 = rev1 rev2 = rev2
  None = None
  NormalActions = {"move"}
  ControlActions = {"stop"}
  ForeignActions = {"dance"}
  Targets = {t1, t2}
  Contents <- PairContents
  RequestIds = {r1, r2}
  CommandIds = {c1, c2}
  SessionIds = {s1}
  Ttls = {0}
  DefaultTtl = 1
  ObserveTimeout = 1
  Revisions = {rev1, rev2}
  JournalLimit = 2
  MaxGeneration = 4
  MaxBoots = 2
INVARIANTS
  JournalNamesActive
PROPERTIES
  ApplyInvalidates
  ImplementsContract
  EveryCommandEnds
CHECK_DEADLOCK FALSE
