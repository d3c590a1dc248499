CONSTANTS
  c1 = c1
  c2 = c2
  ChannelId <- MCChannelId
  ChannelKind <- MCKinds
  TransferOffer <- MCOffers
  NoTransfer = NoTransfer
  NoChannel = NoChannel
  MaxMemberIndex = 3
  Plans <- BroadcastPlans
SPECIFICATION TransferSpec
CHECK_DEADLOCK FALSE
INVARIANT AcceptedIsAnswered
VIEW MCView
