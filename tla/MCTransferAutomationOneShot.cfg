CONSTANTS
  ChannelId = {1, 2}
  ChannelKind <- MCKinds
  TransferOffer <- MCOffers
  NoTransfer = NoTransfer
  NoChannel = NoChannel
  MaxMemberIndex = 2
  Modes <- MCOneShot
  MaxFaults = 1
SPECIFICATION AutomationSpec
CHECK_DEADLOCK FALSE
INVARIANTS SomebodyIsServed
VIEW MCView
