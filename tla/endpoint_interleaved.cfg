\* A ping between two fragments of a message.
CONSTANTS
  Text <- MCText
  AcceptKey <- MCAcceptKey
  MaxHandshake = 300
  UninitHs <- MCUninitHs
  UninitKeys <- MCUninitKeys
  Peers <- InterleavedPeers
  MayEnd <- OutsideHeaders
  Calls <- AlwaysCallback
SPECIFICATION Spec
INVARIANTS
  PayloadsDelivered
