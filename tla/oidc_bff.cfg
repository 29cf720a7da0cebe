SPECIFICATION Spec
CONSTANTS
  Logins = {l1, l2}
  Callbacks = {c1, c2}
  Tabs = {t1, t2}
  NoLogin = NoLogin
  NoCode = NoCode
  StateTtl = 2
  OtcTtl = 1
  MaxTime = 3
SYMMETRY Interchangeable
CHECK_DEADLOCK FALSE
INVARIANTS
  UsedOnce
  OnlyFresh
  NoFalseReject
PROPERTIES
  LoggedInNeverRaises
  ImplementsTokenStore
