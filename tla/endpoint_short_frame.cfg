\* A read that ends inside a header: the frame is taken before it is there.
CONSTANTS
  Text <- MCText
  AcceptKey <- MCAcceptKey
  MaxHandshake = 300
  UninitHs <- MCUninitHs
  UninitKeys <- MCUninitKeys
  Peers <- ShortPeers
  MayEnd <- BehindRequest
  Calls <- AlwaysCallback
SPECIFICATION Spec
INVARIANTS
  FramesTaken
