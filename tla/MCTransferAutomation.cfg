CONSTANTS
  ChannelId = {1, 2, 3}
  ChannelKind <- MCKinds
  TransferOffer <- MCOffers
  NoTransfer = NoTransfer
  NoChannel = NoChannel
  MaxMemberIndex = 3
  Modes <- MCModes
  MaxFaults = 1
SPECIFICATION AutomationSpec
CHECK_DEADLOCK FALSE
INVARIANTS AutomationTypeOK
PROPERTIES NobodyIsCutOff OneShotEnds
VIEW MCView
