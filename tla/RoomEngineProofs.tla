-------------------------- MODULE RoomEngineProofs --------------------------
(***************************************************************************)
(* What the room engine guarantees for every set of channel ids, kinds and *)
(* offers and however many members join.                                   *)
(***************************************************************************)
EXTENDS RoomEngine, TLAPS

USE DEF MemberId, Host, All, Route

IInv == TypeOK /\ ParticipantsAreMembers /\ NobodyIsLeftAlone

-----------------------------------------------------------------------------
\* A call that only answers, with events or with an error, keeps the invariant.
LEMMA AnswerStep ==
  ASSUME IInv, UNCHANGED room, reply' \in Reply
  PROVE  IInv'
BY DEF IInv, TypeOK, ParticipantsAreMembers, NobodyIsLeftAlone, room

LEMMA RefusedStep ==
  ASSUME IInv, NEW event \in Event, NEW m \in MemberId,
         NEW c \in ChannelId \cup {NoChannel}, Refused(event, m, c)
  PROVE  IInv'
BY AnswerStep DEF Refused, Reply

LEMMA JoinStep ==
  ASSUME IInv, Join
  PROVE  IInv'
<1>1. nextMemberIndex \in MemberId /\ members \subseteq MemberId
  BY MaxMemberIndexAssumption DEF IInv, TypeOK, Join
<1>2. reply' \in Reply
  BY <1>1 DEF Join, Routed, Reply, Event
<1>3. QED
  BY <1>1, <1>2, MaxMemberIndexAssumption
  DEF IInv, TypeOK, ParticipantsAreMembers, NobodyIsLeftAlone, Join

LEMMA LeaveStep ==
  ASSUME IInv, NEW m \in MemberId, Leave(m)
  PROVE  IInv'
<1>1. CASE ~(m \in members \ {Host})
  BY <1>1, RefusedStep DEF Leave, Event
<1>2. CASE m \in members \ {Host}
  <2>1. /\ members' = members \ {m}
        /\ channels' = WithoutMember(m)
        /\ nextMemberIndex' = nextMemberIndex
        /\ Routed("member_left", m, NoChannel, members \ {m})
    BY <1>2 DEF Leave
  <2>2. reply' \in Reply
    BY <2>1 DEF IInv, TypeOK, Routed, Reply, Event
  <2>3. ASSUME NEW c \in DOMAIN channels'
        PROVE  /\ c \in DOMAIN channels
               /\ channels'[c] = [channels[c] EXCEPT !.participants = @ \ {m}]
               /\ HasCompany(channels[c].participants \ {m})
    BY <2>1, <2>3 DEF WithoutMember
  <2>4. ASSUME NEW c \in DOMAIN channels'
        PROVE  /\ c \in ChannelId
               /\ channels'[c] \in Channel
               /\ ValidOffer(channels'[c].kind, channels'[c].transfer)
               /\ channels'[c].participants = channels[c].participants \ {m}
    <3>1. c \in ChannelId /\ channels[c] \in Channel
          /\ ValidOffer(channels[c].kind, channels[c].transfer)
      BY <2>3 DEF IInv, TypeOK
    <3>2. /\ channels'[c].kind = channels[c].kind
          /\ channels'[c].transfer = channels[c].transfer
          /\ channels'[c].participants = channels[c].participants \ {m}
      BY <3>1, <2>3 DEF Channel
    <3>3. channels'[c] \in Channel
      BY <3>1, <2>3 DEF Channel
    <3>4. QED
      BY <3>1, <3>2, <3>3 DEF ValidOffer
  <2>5. TypeOK'
    BY <2>1, <2>2, <2>4 DEF IInv, TypeOK
  <2>6. ParticipantsAreMembers'
    BY <2>1, <2>3, <2>4 DEF IInv, ParticipantsAreMembers
  <2>7. NobodyIsLeftAlone'
    BY <2>3, <2>4 DEF NobodyIsLeftAlone
  <2>8. QED
    BY <2>5, <2>6, <2>7 DEF IInv
<1>3. QED
  BY <1>1, <1>2

LEMMA SendChatStep ==
  ASSUME IInv, NEW m \in MemberId, NEW to \in Route, SendChat(m, to)
  PROVE  IInv'
<1>1. members \subseteq MemberId
  BY DEF IInv, TypeOK
<1> DEFINE Allowed == m \in members /\ (to = All \/ to \in members)
<1>2. CASE ~Allowed
  BY <1>2, RefusedStep DEF SendChat, Event
<1>3. CASE Allowed
  <2>1. /\ Routed("chat", m, NoChannel, IF to = All THEN members \ {m} ELSE {to} \ {m})
        /\ UNCHANGED room
    BY <1>3 DEF SendChat
  <2>2. reply' \in Reply
    BY <1>1, <1>3, <2>1 DEF Routed, Reply, Event
  <2>3. QED
    BY <2>1, <2>2, AnswerStep
<1>4. QED
  BY <1>2, <1>3

-----------------------------------------------------------------------------
LEMMA OpenChannelStep ==
  ASSUME IInv, NEW m \in MemberId, NEW c \in ChannelId, NEW kind \in ChannelKind,
         NEW to \in Route, NEW offer \in TransferOffer \cup {NoTransfer},
         OpenChannel(m, c, kind, to, offer)
  PROVE  IInv'
<1> DEFINE Allowed == /\ m \in members
                      /\ c \notin DOMAIN channels
                      /\ to = All \/ to \in members
                      /\ ValidOffer(kind, offer)
<1>1. CASE ~Allowed
  BY <1>1, RefusedStep DEF OpenChannel, Event
<1>2. CASE Allowed
  <2> DEFINE new == [opener |-> m, kind |-> kind,
                     participants |-> Audience(m, to), transfer |-> offer]
  <2>1. /\ channels' = [d \in DOMAIN channels \cup {c} |->
                          IF d = c THEN new ELSE channels[d]]
        /\ Routed("channel_opened", m, c, Audience(m, to) \ {m})
        /\ UNCHANGED <<members, nextMemberIndex>>
    BY <1>2 DEF OpenChannel
  <2>2. Audience(m, to) \subseteq members /\ m \in Audience(m, to)
    BY <1>2 DEF Audience
  <2>3. members \subseteq MemberId
    BY DEF IInv, TypeOK
  <2>4. reply' \in Reply
    BY <2>1, <2>2, <2>3 DEF Routed, Reply, Event
  <2>5. new \in Channel
    BY <2>2, <2>3, ChannelKindAssumption DEF Channel
  <2>6. DOMAIN channels' = DOMAIN channels \cup {c}
        /\ channels'[c] = new
        /\ \A d \in DOMAIN channels : channels'[d] = channels[d]
    BY <1>2, <2>1
  <2>7. TypeOK'
    BY <1>2, <2>1, <2>4, <2>5, <2>6 DEF IInv, TypeOK
  <2>8. ParticipantsAreMembers'
    BY <2>1, <2>2, <2>6 DEF IInv, ParticipantsAreMembers
  <2>9. NobodyIsLeftAlone'
    <3>1. HasCompany(Audience(m, to)) \/ Audience(m, to) = {m}
      BY <2>2 DEF HasCompany
    <3>2. QED
      BY <3>1, <2>6 DEF IInv, NobodyIsLeftAlone
  <2>10. QED
    BY <2>7, <2>8, <2>9 DEF IInv
<1>3. QED
  BY <1>1, <1>2

\* Listeners are members, so every routed channel event has a well-typed reply.
LEMMA ListenersAreMembers ==
  ASSUME IInv, NEW m, NEW c
  PROVE  Listeners(m, c) \in SUBSET MemberId
BY DEF IInv, TypeOK, Listeners

LEMMA RouteStep ==
  ASSUME IInv, NEW m \in MemberId, NEW c \in ChannelId,
         AcceptChannel(m, c) \/ SendChannelData(m, c)
  PROVE  IInv'
<1>1. CASE Refused("channel_accepted", m, c) \/ Refused("channel_data", m, c)
  BY <1>1, RefusedStep DEF Event
<1>2. ASSUME NEW event \in Event,
             Routed(event, m, c, Listeners(m, c)), UNCHANGED room
      PROVE  IInv'
  <2>1. reply' \in Reply
    BY <1>2, ListenersAreMembers DEF Routed, Reply
  <2>2. QED
    BY <1>2, <2>1, AnswerStep
<1>3. QED
  BY <1>1, <1>2 DEF AcceptChannel, SendChannelData, Event

LEMMA QuitStep ==
  ASSUME IInv, NEW m \in MemberId, NEW c \in ChannelId,
         NEW event \in Event, Quit(event, m, c)
  PROVE  IInv'
<1>1. CASE ~MayUse(m, c)
  BY <1>1, RefusedStep DEF Quit
<1>2. CASE MayUse(m, c)
  <2> DEFINE rest == channels[c].participants \ {m}
  <2>1. /\ Routed(event, m, c, Listeners(m, c))
        /\ channels' = WithoutParticipant(c, m)
        /\ UNCHANGED <<members, nextMemberIndex>>
    BY <1>2 DEF Quit
  <2>2. reply' \in Reply
    BY <2>1, ListenersAreMembers DEF Routed, Reply
  <2>3. c \in DOMAIN channels /\ channels[c] \in Channel
        /\ ValidOffer(channels[c].kind, channels[c].transfer)
    BY <1>2 DEF MayUse, IInv, TypeOK
  <2>4. CASE HasCompany(rest)
    <3>1. channels' = [channels EXCEPT ![c].participants = rest]
      BY <2>1, <2>4 DEF WithoutParticipant
    <3>2. DOMAIN channels' = DOMAIN channels
          /\ channels'[c] = [channels[c] EXCEPT !.participants = rest]
          /\ \A d \in DOMAIN channels \ {c} : channels'[d] = channels[d]
      BY <2>3, <3>1
    <3>3. channels'[c] \in Channel
          /\ ValidOffer(channels'[c].kind, channels'[c].transfer)
          /\ channels'[c].participants = rest
      BY <2>3, <3>2 DEF Channel, ValidOffer
    <3>4. TypeOK'
      BY <2>1, <2>2, <3>2, <3>3 DEF IInv, TypeOK
    <3>5. ParticipantsAreMembers' /\ NobodyIsLeftAlone'
      BY <2>1, <2>3, <2>4, <3>2, <3>3 DEF IInv, ParticipantsAreMembers, NobodyIsLeftAlone
    <3>6. QED
      BY <3>4, <3>5 DEF IInv
  <2>5. CASE ~HasCompany(rest)
    <3>1. channels' = [d \in DOMAIN channels \ {c} |-> channels[d]]
      BY <2>1, <2>5 DEF WithoutParticipant
    <3>2. QED
      BY <2>1, <2>2, <3>1 DEF IInv, TypeOK, ParticipantsAreMembers, NobodyIsLeftAlone
  <2>6. QED
    BY <2>4, <2>5
<1>3. QED
  BY <1>1, <1>2

LEMMA UpdateStep ==
  ASSUME IInv, NEW m \in MemberId, NEW c \in ChannelId, NEW offer \in TransferOffer,
         UpdateChannelTransfer(m, c, offer)
  PROVE  IInv'
<1> DEFINE Allowed == /\ m \in members
                      /\ c \in DOMAIN channels
                      /\ channels[c].opener = m
                      /\ channels[c].kind = "file"
<1>1. CASE ~Allowed
  BY <1>1, RefusedStep DEF Event, UpdateChannelTransfer
<1>2. CASE Allowed
  <2>1. /\ channels' = [channels EXCEPT ![c].transfer = offer]
        /\ Routed("channel_transfer", m, c, Listeners(m, c))
        /\ UNCHANGED <<members, nextMemberIndex>>
    BY <1>2 DEF UpdateChannelTransfer
  <2>2. reply' \in Reply
    BY <2>1, ListenersAreMembers DEF Routed, Reply, Event
  <2>3. channels[c] \in Channel
    BY <1>2 DEF IInv, TypeOK
  <2>4. DOMAIN channels' = DOMAIN channels
        /\ channels'[c] = [channels[c] EXCEPT !.transfer = offer]
        /\ \A d \in DOMAIN channels \ {c} : channels'[d] = channels[d]
    BY <1>2, <2>1
  <2>5. /\ channels'[c] \in Channel
        /\ ValidOffer(channels'[c].kind, channels'[c].transfer)
        /\ channels'[c].participants = channels[c].participants
        /\ channels'[c].opener = channels[c].opener
    BY <1>2, <2>3, <2>4 DEF Channel, ValidOffer
  <2>6. TypeOK'
    BY <2>1, <2>2, <2>4, <2>5 DEF IInv, TypeOK
  <2>7. ParticipantsAreMembers' /\ NobodyIsLeftAlone'
    BY <1>2, <2>1, <2>4, <2>5 DEF IInv, ParticipantsAreMembers, NobodyIsLeftAlone
  <2>8. QED
    BY <2>6, <2>7 DEF IInv
<1>3. QED
  BY <1>1, <1>2
-----------------------------------------------------------------------------
LEMMA IInvInit == Init => IInv
BY MaxMemberIndexAssumption
DEF Init, IInv, TypeOK, ParticipantsAreMembers, NobodyIsLeftAlone, Reply, Event

LEMMA IInvNext == IInv /\ [Next]_vars => IInv'
<1> SUFFICES ASSUME IInv, [Next]_vars
             PROVE  IInv'
  OBVIOUS
<1>1. CASE Join
  BY <1>1, JoinStep
<1>2. ASSUME NEW m \in MemberId, Leave(m)
      PROVE  IInv'
  BY <1>2, LeaveStep
<1>3. ASSUME NEW m \in MemberId, NEW to \in Route, SendChat(m, to)
      PROVE  IInv'
  BY <1>3, SendChatStep
<1>4. ASSUME NEW m \in MemberId, NEW c \in ChannelId, ChannelCall(m, c)
      PROVE  IInv'
  <2>1. ASSUME NEW kind \in ChannelKind, NEW to \in Route,
               NEW offer \in TransferOffer \cup {NoTransfer},
               OpenChannel(m, c, kind, to, offer)
        PROVE  IInv'
    BY <2>1, OpenChannelStep
  <2>2. CASE AcceptChannel(m, c) \/ SendChannelData(m, c)
    BY <2>2, RouteStep
  <2>3. CASE RejectChannel(m, c)
    BY <2>3, QuitStep DEF RejectChannel, Event
  <2>4. CASE CloseChannel(m, c)
    BY <2>4, QuitStep DEF CloseChannel, Event
  <2>5. ASSUME NEW offer \in TransferOffer, UpdateChannelTransfer(m, c, offer)
        PROVE  IInv'
    BY <2>5, UpdateStep
  <2>6. QED
    BY <1>4, <2>1, <2>2, <2>3, <2>4, <2>5 DEF ChannelCall
<1>5. CASE UNCHANGED vars
  BY <1>5 DEF vars, IInv, TypeOK, ParticipantsAreMembers, NobodyIsLeftAlone
<1>6. QED
  BY <1>1, <1>2, <1>3, <1>4, <1>5 DEF Next

LEMMA IInvAlways == Spec => []IInv
BY IInvInit, IInvNext, PTL DEF Spec

\* Type correctness of the engine (room.rs, struct RoomEngine).
THEOREM EngineTypeCorrect == Spec => []TypeOK
<1>1. IInv => TypeOK
  BY DEF IInv
<1>2. QED
  BY <1>1, IInvAlways, PTL

\* Participants of a channel are members of the room in every reachable state:
\* the pruning in leave is complete.
THEOREM ParticipantsAlwaysMembers == Spec => []ParticipantsAreMembers
<1>1. IInv => ParticipantsAreMembers
  BY DEF IInv
<1>2. QED
  BY <1>1, IInvAlways, PTL

\* Only a channel that its opener opened alone ever has a single participant.
THEOREM NobodyEverLeftAlone == Spec => []NobodyIsLeftAlone
<1>1. IInv => NobodyIsLeftAlone
  BY DEF IInv
<1>2. QED
  BY <1>1, IInvAlways, PTL

-----------------------------------------------------------------------------
\* The three action properties, and what makes each of them hold of a step.
ActionOK == KeepsAudience /\ AnnouncesLoss /\ IssuesFreshIds

\* A step that leaves the members and channels alone, or only adds an entry.
LEMMA GrowingStep ==
  ASSUME IInv,
         \/ UNCHANGED <<members, nextMemberIndex>>
         \/ /\ members' = members \cup {nextMemberIndex}
            /\ nextMemberIndex' = nextMemberIndex + 1,
         DOMAIN channels \subseteq DOMAIN channels',
         \A c \in DOMAIN channels :
           /\ channels'[c].opener = channels[c].opener
           /\ channels'[c].kind = channels[c].kind
           /\ channels'[c].participants = channels[c].participants
  PROVE  ActionOK
<1>1. KeepsAudience
  BY DEF KeepsAudience
<1>2. AnnouncesLoss
  BY DEF AnnouncesLoss, Remaining
<1>3. IssuesFreshIds
  BY DEF IssuesFreshIds, IInv, TypeOK
<1>4. QED
  BY <1>1, <1>2, <1>3 DEF ActionOK

LEMMA SameRoomStep ==
  ASSUME IInv, UNCHANGED room
  PROVE  ActionOK
BY GrowingStep DEF room

LEMMA RefusedActionOK ==
  ASSUME IInv, NEW event, NEW m, NEW c, Refused(event, m, c)
  PROVE  ActionOK
BY SameRoomStep DEF Refused

LEMMA LeaveActionOK ==
  ASSUME IInv, NEW m \in MemberId, Leave(m)
  PROVE  ActionOK
<1>1. CASE ~(m \in members \ {Host})
  BY <1>1, RefusedActionOK DEF Leave
<1>2. CASE m \in members \ {Host}
  <2>1. /\ members' = members \ {m}
        /\ nextMemberIndex' = nextMemberIndex
        /\ channels' = WithoutMember(m)
        /\ reply'.by = m
        /\ reply'.to = members \ {m}
    BY <1>2 DEF Leave, Routed
  <2>2. ASSUME NEW c \in DOMAIN channels'
        PROVE  /\ channels'[c].participants = channels[c].participants \ {m}
               /\ channels'[c].opener = channels[c].opener
               /\ channels'[c].kind = channels[c].kind
    <3>1. c \in DOMAIN channels
          /\ channels'[c] = [channels[c] EXCEPT !.participants = @ \ {m}]
      BY <2>1 DEF WithoutMember
    <3>2. channels[c] \in Channel
      BY <3>1 DEF IInv, TypeOK
    <3>3. QED
      BY <3>1, <3>2 DEF Channel
  <2>3. KeepsAudience
    BY <2>2 DEF KeepsAudience
  <2>4. AnnouncesLoss
    BY <2>1 DEF AnnouncesLoss, IInv, ParticipantsAreMembers
  <2>5. IssuesFreshIds
    BY <2>1 DEF IssuesFreshIds, IInv, TypeOK
  <2>6. QED
    BY <2>3, <2>4, <2>5 DEF ActionOK
<1>3. QED
  BY <1>1, <1>2

LEMMA OpenChannelActionOK ==
  ASSUME IInv, NEW m, NEW c, NEW kind, NEW to, NEW offer,
         OpenChannel(m, c, kind, to, offer)
  PROVE  ActionOK
<1>1. CASE Refused("channel_opened", m, c)
  BY <1>1, RefusedActionOK
<1>2. CASE ~Refused("channel_opened", m, c)
  <2>1. /\ c \notin DOMAIN channels
        /\ members' = members
        /\ nextMemberIndex' = nextMemberIndex
        /\ DOMAIN channels' = DOMAIN channels \cup {c}
        /\ \A d \in DOMAIN channels : channels'[d] = channels[d]
    BY <1>2 DEF OpenChannel
  <2>2. QED
    BY <2>1, GrowingStep
<1>3. QED
  BY <1>1, <1>2

LEMMA QuitActionOK ==
  ASSUME IInv, NEW event, NEW m, NEW c, Quit(event, m, c)
  PROVE  ActionOK
<1>1. CASE ~MayUse(m, c)
  BY <1>1, RefusedActionOK DEF Quit
<1>2. CASE MayUse(m, c)
  <2>1. /\ members' = members
        /\ nextMemberIndex' = nextMemberIndex
        /\ channels' = WithoutParticipant(c, m)
        /\ reply'.by = m
        /\ reply'.to = Listeners(m, c)
    BY <1>2 DEF Quit, Routed
  <2>2. c \in DOMAIN channels /\ channels[c] \in Channel
        /\ channels[c].participants \subseteq members
    BY <1>2 DEF MayUse, IInv, TypeOK, ParticipantsAreMembers
  <2>3. ASSUME NEW d \in DOMAIN channels'
        PROVE  /\ d \in DOMAIN channels
               /\ d # c => channels'[d] = channels[d]
               /\ d = c => channels'[d] = [channels[c] EXCEPT
                             !.participants = channels[c].participants \ {m}]
    BY <2>1, <2>2 DEF WithoutParticipant
  <2>4. KeepsAudience
    BY <2>2, <2>3 DEF KeepsAudience, Channel
  <2>5. \A d \in DOMAIN channels \ {c} : Remaining(d) = channels[d].participants
    BY <2>1, <2>2 DEF WithoutParticipant, Remaining
  <2>6. AnnouncesLoss
    BY <2>1, <2>2, <2>5 DEF AnnouncesLoss, Listeners
  <2>7. IssuesFreshIds
    BY <2>1 DEF IssuesFreshIds, IInv, TypeOK
  <2>8. QED
    BY <2>4, <2>6, <2>7 DEF ActionOK
<1>3. QED
  BY <1>1, <1>2

LEMMA UpdateActionOK ==
  ASSUME IInv, NEW m, NEW c, NEW offer, UpdateChannelTransfer(m, c, offer)
  PROVE  ActionOK
<1>1. CASE Refused("channel_transfer", m, c)
  BY <1>1, RefusedActionOK
<1>2. CASE ~Refused("channel_transfer", m, c)
  <2>1. /\ c \in DOMAIN channels
        /\ members' = members
        /\ nextMemberIndex' = nextMemberIndex
        /\ channels' = [channels EXCEPT ![c].transfer = offer]
    BY <1>2 DEF UpdateChannelTransfer
  <2>2. \A d \in DOMAIN channels : channels[d] \in Channel
    BY DEF IInv, TypeOK
  <2>3. /\ DOMAIN channels' = DOMAIN channels
        /\ \A d \in DOMAIN channels :
             /\ channels'[d].opener = channels[d].opener
             /\ channels'[d].kind = channels[d].kind
             /\ channels'[d].participants = channels[d].participants
    BY <2>1, <2>2 DEF Channel
  <2>4. QED
    BY <2>1, <2>3, GrowingStep
<1>3. QED
  BY <1>1, <1>2

LEMMA NextActionOK == IInv /\ [Next]_vars => ActionOK \/ UNCHANGED vars
<1> SUFFICES ASSUME IInv, Next
             PROVE  ActionOK
  BY DEF IInv
<1>1. CASE Join
  BY <1>1, GrowingStep DEF Join
<1>2. ASSUME NEW m \in MemberId, Leave(m)
      PROVE  ActionOK
  BY <1>2, LeaveActionOK
<1>3. ASSUME NEW m \in MemberId, NEW to \in Route, SendChat(m, to)
      PROVE  ActionOK
  BY <1>3, SameRoomStep, RefusedActionOK DEF SendChat
<1>4. ASSUME NEW m \in MemberId, NEW c \in ChannelId, ChannelCall(m, c)
      PROVE  ActionOK
  <2>1. CASE AcceptChannel(m, c) \/ SendChannelData(m, c)
    BY <2>1, SameRoomStep, RefusedActionOK DEF AcceptChannel, SendChannelData
  <2>2. CASE RejectChannel(m, c) \/ CloseChannel(m, c)
    BY <2>2, QuitActionOK DEF RejectChannel, CloseChannel
  <2>3. QED
    BY <1>4, <2>1, <2>2, OpenChannelActionOK, UpdateActionOK DEF ChannelCall
<1>5. QED
  BY <1>1, <1>2, <1>3, <1>4 DEF Next

\* Nobody enters the audience of a channel that is already open.
THEOREM AudienceNeverGrows == Spec => AudienceOnlyShrinks
<1>1. IInv /\ [Next]_vars => [KeepsAudience]_vars
  BY NextActionOK DEF ActionOK
<1>2. QED
  BY <1>1, IInvAlways, PTL DEF Spec, AudienceOnlyShrinks

\* Every participant that loses a channel or a peer in it is told in that step.
THEOREM LossAlwaysAnnounced == Spec => LossIsAnnounced
<1>1. IInv /\ [Next]_vars => [AnnouncesLoss]_vars
  BY NextActionOK DEF ActionOK
<1>2. QED
  BY <1>1, IInvAlways, PTL DEF Spec, LossIsAnnounced

\* A member index names one member for the lifetime of the room.
THEOREM IdsNeverReused == Spec => DepartedStayDeparted
<1>1. IInv /\ [Next]_vars => [IssuesFreshIds]_vars
  BY NextActionOK DEF ActionOK
<1>2. QED
  BY <1>1, IInvAlways, PTL DEF Spec, DepartedStayDeparted
=============================================================================
