SPECIFICATION Spec
CONSTANTS
  Tabs = {t1, t2}
  Sids = {a, b}
  NoSid = NoSid
  MaxEntries = 1
  Ttls = {0, 1}
  MaxTime = 2
  MaxWrites = 3
SYMMETRY Interchangeable
CHECK_DEADLOCK FALSE
INVARIANTS
  CapHolds
  LinkedMeansSeeded
PROPERTIES
  HydratesFresh
  HydratesLatest
