CONSTANTS
  c1 = c1
  c2 = c2
  ChannelId <- MCChannelId
  ChannelKind <- MCKinds
  TransferOffer <- MCOffers
  NoTransfer = "none"
  NoChannel = NoChannel
  MaxMemberIndex = 3
SPECIFICATION Spec
SYMMETRY MCSymmetry
INVARIANTS TypeOK ParticipantsAreMembers NobodyIsLeftAlone
PROPERTIES AudienceOnlyShrinks LossIsAnnounced DepartedStayDeparted
