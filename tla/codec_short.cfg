\* Frames of every length form up to 65535 bytes, cut near both ends.
CONSTANTS
  Packets <- ShortPackets
  EdgeSize = 15
  Key <- MCKey
SPECIFICATION Spec
INVARIANTS
  PacksRFCFrame
  PrefixIsNoFrame
  RoundTrip
CHECK_DEADLOCK FALSE
