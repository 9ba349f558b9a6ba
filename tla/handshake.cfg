\* Requests in all their forms, with whatever was in memory before, and keys whose hash input ends around every block boundary.
CONSTANTS
  Text <- MCText
  MaxHandshake = 300
  UninitHs <- MCUninitHs
  Requests <- MCRequestSet
  ExpectedAccept <- Accept
  Compress <- Rounds
  UninitM <- MCUninitM
  Wrap = 1073741824
SPECIFICATION AnswerSpec
INVARIANTS
  AnswerTypeOK
  
  ClientAccepts
  BlocksArePadded
  Base64Inverse
CHECK_DEADLOCK FALSE
