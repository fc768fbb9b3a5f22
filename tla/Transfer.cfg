SPECIFICATION FairSpec
CONSTANTS
  U32Max = 63
  SizeMax = 63
  PageSize = 8
  Senders = {"commit", "worker"}
  Devices <- MCDevices
  Frames <- MCFrames
  PayloadLimit = 40
  Chunk = 12
  MaxRetries = 1
  ProbeLengths = {6}
  MaxFrames = 3
INVARIANT TypeOK
INVARIANT EachRowOnce
INVARIANT PayloadIsAsked
INVARIANT ContextLives
PROPERTY TransferEnds
PROPERTY SenderSpec
