\* Messages in one frame or in fragments; reads end behind the request, and inside headers of sturdy frames.
CONSTANTS
  Text <- MCText
  AcceptKey <- MCAcceptKey
  MaxHandshake = 300
  UninitHs <- MCUninitHs
  UninitKeys <- MCUninitKeys
  Peers <- MessagePeers
  MayEnd <- ReadsWholeHeaders
  Calls <- AlwaysCallback
SPECIFICATION FairSpec
INVARIANTS
  FramesTaken
  MessagesDelivered
  MessagesEchoed
PROPERTIES
  EchoesEveryMessage
