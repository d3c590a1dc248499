CONSTANTS
  c1 = c1
  c2 = c2
  ChannelId <- MCChannelId
  ChannelKind <- MCKinds
  TransferOffer <- MCOffers
  NoTransfer = NoTransfer
  NoChannel = NoChannel
  MaxMemberIndex = 3
  Plans <- DirectPlans
SPECIFICATION TransferSpec
CHECK_DEADLOCK FALSE
INVARIANTS TransferTypeOK SavedPathsHoldVerifiedBytes ProcessesSurvive
PROPERTIES EveryAcceptEnds
VIEW MCView
CONSTRAINT InBounds
