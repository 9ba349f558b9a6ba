\* Two connections of up to three jobs each, one pool thread, fair loop and pool.
CONSTANTS
  Client = {c1, c2}
  Worker = {w1}
  None = None
  MaxReads = 3
SPECIFICATION FairSpec
INVARIANTS
  TypeOK
  EndpointAlive
  ReadingIsSafe
  WorkDataOwnedOnce
  AnswersInOrder
PROPERTIES
  ConnectionsReleased
  WorkReleased
CHECK_DEADLOCK FALSE
