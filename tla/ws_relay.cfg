SPECIFICATION FairSpec
CONSTANT MaxFrames = 2
INVARIANTS
  RelayInOrder
  OneClose
PROPERTY LeavingEndsRelay
