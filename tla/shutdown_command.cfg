SPECIFICATION FairSpec
CONSTANTS
  Pids = {p1, p2}
  Commands = {s1, s2}
  NoFile = NoFile
  Garbled = Garbled
INVARIANTS
  SuccessMeansStopped
  RecordedUnlessRaced
PROPERTY CommandEnds
