\* Every kind of input in reads of every size, with every value of the uninitialised members.
CONSTANTS
  Text <- MCText
  AcceptKey <- MCAcceptKey
  MaxHandshake = 32
  UninitHs <- MCUninitHs
  UninitKeys <- MCUninitKeys
  Peers <- StrayPeers
  MayEnd <- StrayEnds
  Calls <- AllCalls
SPECIFICATION FairSpec
INVARIANTS
  TypeOK
  BytesConserved
  CursorRewound
  DiesOfTheseOnly
  OneHandshakeAnswer
PROPERTIES
  ProcessReturns
