\* A peer whose next message is read together with the last one.
CONSTANTS
  Text <- MCText
  AcceptKey <- MCAcceptKey
  MaxHandshake = 300
  UninitHs <- MCUninitHs
  UninitKeys <- MCUninitKeys
  Peers <- MCPeers
  MayEnd <- OutsideHeaders
  Calls <- AlwaysCallback
  AwaitsAnswer = FALSE
SPECIFICATION DemoSpec
INVARIANTS
  SlotIsFree
