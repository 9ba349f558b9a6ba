\* A peer that waits for each answer.
CONSTANTS
  Text <- MCText
  AcceptKey <- MCAcceptKey
  MaxHandshake = 300
  UninitHs <- MCUninitHs
  UninitKeys <- MCUninitKeys
  Peers <- MCPeers
  MayEnd <- OutsideHeaders
  Calls <- AlwaysCallback
  AwaitsAnswer = TRUE
SPECIFICATION DemoSpec
INVARIANTS
  AnswersWritten
  PeerIsAnswered
  SlotIsFree
