\* A read that ends inside the request, with the hs_length_ of the packet uninitialised.
CONSTANTS
  Text <- MCText
  AcceptKey <- MCAcceptKey
  MaxHandshake = 300
  UninitHs <- MCUninitHs
  UninitKeys <- MCUninitKeys
  Peers <- ShortPeers
  MayEnd <- Anywhere
  Calls <- AlwaysCallback
SPECIFICATION Spec
INVARIANTS
  AnswersWholeRequest
