CONSTANTS
  MaxMemberIndex = 3
  Sources <- MCAnySource
  MayBeOld <- MCOld
  SourceLength = 3
  Window = 1
  Grant = 1
  Chunk = 2
  MaxFaults = 1
  Prompt = FALSE
SPECIFICATION PipeSpec
INVARIANTS PipeTypeOK StreamsAreUnbroken WithinWindow EndMeansComplete
PROPERTIES BroadcastMovesOn ReceiversEnd
CHECK_DEADLOCK FALSE
