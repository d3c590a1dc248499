CONSTANTS
  ChannelId = {"c1"}
  ChannelKind = {"file"}
  TransferOffer <- MCOffers
  NoTransfer = "none"
  NoChannel = NoChannel
  MaxMemberIndex = 3
  MaxCommands = 2
SPECIFICATION ReplicaSpec
INVARIANTS ReplicaTypeOK StreamsCarryMembership StreamsCarryChannels
CHECK_DEADLOCK FALSE
VIEW MCView
CONSTRAINT InBounds
