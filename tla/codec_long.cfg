\* A frame with an eight-byte length.
CONSTANTS
  Packets <- LongPackets
  EdgeSize = 15
  Key <- MCKey
SPECIFICATION Spec
INVARIANTS
  RoundTrip
CHECK_DEADLOCK FALSE
