SPECIFICATION Spec
CONSTANTS
  t1 = t1 t2 = t2 r1 = r1 r2 = r2 r3 = r3 c1 = c1 c2 = c2 c3 = c3
  s1 = s1 s2 = s2 rev1 = rev1 rev2 = rev2
  None = None
  NormalActions = {"move"}
  ControlActions = {"stop"}
  ForeignActions = {"dance"}
  Targets = {t1}
  Contents <- MotorContents
  RequestIds = {r1, r2, r3}
  CommandIds = {c1, c2, c3}
  SessionIds = {s1, s2}
  Ttls = {0}
  DefaultTtl = 1
  ObserveTimeout = 2
  Revisions = {}
  JournalLimit = 1
  MaxGeneration = 5
  MaxBoots = 1
SYMMETRY RequestSymmetry
INVARIANTS
  ControlInv
  LedgerInv
PROPERTIES
  TerminalIsFinal
  ObservedSuccessIsLatest
CHECK_DEADLOCK FALSE
