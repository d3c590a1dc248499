----------------------------- MODULE RoomEngine -----------------------------
(***************************************************************************)
(* The host-owned room engine (skyffla-session/src/room.rs): the one place *)
(* that decides who is in a room, which channels exist and who takes part  *)
(* in each.  Every public method of RoomEngine is an action; a call that   *)
(* the engine answers with Err is the ELSE branch of its action and        *)
(* changes nothing.  Names, fingerprints, text and reasons are left out.   *)
(***************************************************************************)
EXTENDS Naturals

CONSTANTS
  ChannelId,        \* the channel ids clients pick; they may be reused
  ChannelKind,      \* some of "machine", "clipboard", "file", "pipe"
  TransferOffer,    \* the transfer metadata a file channel may carry
  NoTransfer,       \* Option::None where an offer is expected
  NoChannel,        \* stands for "no channel" in a reply
  MaxMemberIndex    \* bound: the last member index the model hands out

ASSUME MaxMemberIndexAssumption == MaxMemberIndex \in Nat \ {0}
ASSUME NoTransferAssumption == NoTransfer \notin TransferOffer
ASSUME NoChannelAssumption == NoChannel \notin ChannelId
ASSUME ChannelKindAssumption ==
         ChannelKind \subseteq {"machine", "clipboard", "file", "pipe"}

\* Member "m<i>" is the index i.  The host is m1; no member is m0, so 0 can
\* stand for Route::All.
MemberId == 1 .. MaxMemberIndex
Host     == 1
All      == 0
Route    == MemberId \cup {All}

VARIABLES
  members,          \* RoomEngine.members, as the set of its keys
  channels,         \* RoomEngine.channels: a function on the open channel ids
  nextMemberIndex,  \* RoomEngine.next_member_index
  reply             \* what the last call returned: whom its event is routed to

room == <<members, channels, nextMemberIndex>>
vars == <<members, channels, nextMemberIndex, reply>>

Channel == [opener : MemberId, kind : ChannelKind,
            participants : SUBSET MemberId,
            transfer : TransferOffer \cup {NoTransfer}]

\* The MachineEvents the engine routes; channel_transfer is the one that
\* update_channel_transfer names ready (folder) or finalized (file).
Event == {"new", "member_joined", "member_left", "chat", "channel_opened",
          "channel_accepted", "channel_data", "channel_rejected",
          "channel_closed", "channel_transfer"}

Reply == [ok : BOOLEAN, event : Event, by : MemberId,
          on : ChannelId \cup {NoChannel}, to : SUBSET MemberId]

\* Ok(events): one copy of the event for each recipient.
Routed(event, by, c, to) ==
  reply' = [ok |-> TRUE, event |-> event, by |-> by, on |-> c, to |-> to]

\* Err(_): the engine is as it was.
Refused(event, by, c) ==
  /\ reply' = [ok |-> FALSE, event |-> event, by |-> by, on |-> c, to |-> {}]
  /\ UNCHANGED room

Init ==
  /\ members = {Host}
  /\ channels = [c \in {} |-> NoChannel]
  /\ nextMemberIndex = 2
  /\ reply = [ok |-> TRUE, event |-> "new", by |-> Host, on |-> NoChannel, to |-> {}]

-----------------------------------------------------------------------------
(* Membership.                                                             *)

\* join: the new member gets the next index, everyone already there hears of it.
Join ==
  /\ nextMemberIndex <= MaxMemberIndex
  /\ members' = members \cup {nextMemberIndex}
  /\ nextMemberIndex' = nextMemberIndex + 1
  /\ Routed("member_joined", nextMemberIndex, NoChannel, members)
  /\ UNCHANGED channels

\* participants.len() >= 2
HasCompany(ps) == \E p, q \in ps : p # q

WithoutOpener(m) ==                           \* bug: only the channels m opened go
  [c \in {d \in DOMAIN channels : channels[d].opener # m} |-> channels[c]]

\* prune_member_from_channels: the scan drops every channel that is left with
\* fewer than two participants, whether or not m was one of them.
WithoutMember(m) ==
  [c \in {d \in DOMAIN channels : HasCompany(channels[d].participants \ {m})} |->
     [channels[c] EXCEPT !.participants = @ \ {m}]]

LeaveReturningId(m) ==                        \* bug: the latest index is given back
  IF m \in members \ {Host}
  THEN /\ members' = members \ {m}
       /\ channels' = WithoutMember(m)
       /\ nextMemberIndex' = IF m + 1 = nextMemberIndex THEN m ELSE nextMemberIndex
       /\ Routed("member_left", m, NoChannel, members \ {m})
  ELSE Refused("member_left", m, NoChannel)

Leave(m) ==
  IF m \in members \ {Host}
  THEN /\ members' = members \ {m}
       /\ channels' = WithoutMember(m)
       /\ Routed("member_left", m, NoChannel, members \ {m})
       /\ UNCHANGED nextMemberIndex
  ELSE Refused("member_left", m, NoChannel)

\* send_chat and route_event
SendChat(from, to) ==
  IF from \in members /\ (to = All \/ to \in members)
  THEN /\ Routed("chat", from, NoChannel,
                 IF to = All THEN members \ {from} ELSE {to} \ {from})
       /\ UNCHANGED room
  ELSE Refused("chat", from, NoChannel)

-----------------------------------------------------------------------------
(* Channels.                                                               *)

\* channel_participants: the audience is fixed when the channel is opened.
Audience(from, to) == {from} \cup (IF to = All THEN members ELSE {to})

\* validate_channel_transfer: file channels need an offer, the others refuse one.
ValidOffer(kind, offer) == (kind = "file") <=> (offer \in TransferOffer)

Reopen(from, c, kind, to, offer) ==           \* bug: channel_id is not looked up first
  IF from \in members /\ (to = All \/ to \in members) /\ ValidOffer(kind, offer)
  THEN /\ channels' =
            [d \in DOMAIN channels \cup {c} |->
               IF d = c
               THEN [opener |-> from, kind |-> kind,
                     participants |-> Audience(from, to), transfer |-> offer]
               ELSE channels[d]]
       /\ Routed("channel_opened", from, c, Audience(from, to) \ {from})
       /\ UNCHANGED <<members, nextMemberIndex>>
  ELSE Refused("channel_opened", from, c)

OpenChannel(from, c, kind, to, offer) ==
  IF /\ from \in members
     /\ c \notin DOMAIN channels
     /\ to = All \/ to \in members
     /\ ValidOffer(kind, offer)
  THEN /\ channels' =
            [d \in DOMAIN channels \cup {c} |->
               IF d = c
               THEN [opener |-> from, kind |-> kind,
                     participants |-> Audience(from, to), transfer |-> offer]
               ELSE channels[d]]
       /\ Routed("channel_opened", from, c, Audience(from, to) \ {from})
       /\ UNCHANGED <<members, nextMemberIndex>>
  ELSE Refused("channel_opened", from, c)

\* The recipients of a channel event, once it is allowed.
Listeners(m, c) == (channels[c].participants \cap members) \ {m}

\* route_channel_event, for every event but channel_data
MayUse(m, c) ==
  /\ m \in members
  /\ c \in DOMAIN channels
  /\ m \in channels[c].participants

AcceptChannel(m, c) ==
  IF MayUse(m, c)
  THEN Routed("channel_accepted", m, c, Listeners(m, c)) /\ UNCHANGED room
  ELSE Refused("channel_accepted", m, c)

SendChannelData(m, c) ==
  IF MayUse(m, c) /\ channels[c].kind \notin {"file", "pipe"}
  THEN Routed("channel_data", m, c, Listeners(m, c)) /\ UNCHANGED room
  ELSE Refused("channel_data", m, c)

WithoutAnyone(c, m) ==                        \* bug: an empty channel goes, a lonely one stays
  LET rest == channels[c].participants \ {m}
  IN  IF rest # {} THEN [channels EXCEPT ![c].participants = rest]
                   ELSE [d \in DOMAIN channels \ {c} |-> channels[d]]

\* remove_channel_participant
WithoutParticipant(c, m) ==
  LET rest == channels[c].participants \ {m}
  IN  IF HasCompany(rest)
      THEN [channels EXCEPT ![c].participants = rest]
      ELSE [d \in DOMAIN channels \ {c} |-> channels[d]]

QuitThenRoute(event, m, c) ==                 \* bug: the audience is read too late
  IF MayUse(m, c)
  THEN /\ channels' = WithoutParticipant(c, m)
       /\ Routed(event, m, c,
                 IF c \in DOMAIN channels' THEN channels'[c].participants ELSE {})
       /\ UNCHANGED <<members, nextMemberIndex>>
  ELSE Refused(event, m, c)

\* reject_channel and close_channel: the event is routed to the audience as it
\* was, then the caller is taken out of it.
Quit(event, m, c) ==
  IF MayUse(m, c)
  THEN /\ Routed(event, m, c, Listeners(m, c))
       /\ channels' = WithoutParticipant(c, m)
       /\ UNCHANGED <<members, nextMemberIndex>>
  ELSE Refused(event, m, c)

RejectChannel(m, c) == Quit("channel_rejected", m, c)
CloseChannel(m, c)  == Quit("channel_closed", m, c)

UpdateAnyChannel(m, c, offer) ==              \* bug: the kind is not asked for
  IF m \in members /\ c \in DOMAIN channels /\ channels[c].opener = m
  THEN /\ channels' = [channels EXCEPT ![c].transfer = offer]
       /\ Routed("channel_transfer", m, c, Listeners(m, c))
       /\ UNCHANGED <<members, nextMemberIndex>>
  ELSE Refused("channel_transfer", m, c)

\* update_channel_transfer: asks for the opener, not for a participant.
UpdateChannelTransfer(m, c, offer) ==
  IF /\ m \in members
     /\ c \in DOMAIN channels
     /\ channels[c].opener = m
     /\ channels[c].kind = "file"
  THEN /\ channels' = [channels EXCEPT ![c].transfer = offer]
       /\ Routed("channel_transfer", m, c, Listeners(m, c))
       /\ UNCHANGED <<members, nextMemberIndex>>
  ELSE Refused("channel_transfer", m, c)

-----------------------------------------------------------------------------
ChannelCall(m, c) ==
  \/ \E kind \in ChannelKind, to \in Route, offer \in TransferOffer \cup {NoTransfer} :
       OpenChannel(m, c, kind, to, offer)
  \/ AcceptChannel(m, c)
  \/ SendChannelData(m, c)
  \/ RejectChannel(m, c)
  \/ CloseChannel(m, c)
  \/ \E offer \in TransferOffer : UpdateChannelTransfer(m, c, offer)

Next ==
  \/ Join
  \/ \E m \in MemberId : Leave(m)
  \/ \E m \in MemberId, to \in Route : SendChat(m, to)
  \/ \E m \in MemberId, c \in ChannelId : ChannelCall(m, c)

Spec == Init /\ [][Next]_vars

-----------------------------------------------------------------------------
(* Properties.                                                             *)

\* Every part of the engine has its type; an offer is there exactly on file
\* channels (room.rs, struct RoomEngine and validate_channel_transfer).
TypeOK ==
  /\ members \subseteq MemberId
  /\ nextMemberIndex \in 2 .. MaxMemberIndex + 1
  /\ DOMAIN channels \subseteq ChannelId
  /\ \A c \in DOMAIN channels :
       channels[c] \in Channel /\ ValidOffer(channels[c].kind, channels[c].transfer)
  /\ reply \in Reply

\* A channel's participants are members of the room at all times: leave prunes
\* every channel in the same call, so the members.contains_key filters of the
\* routing code never have to hide a departed participant.
ParticipantsAreMembers ==
  \A c \in DOMAIN channels : channels[c].participants \subseteq members

\* However members reject, close and leave, no channel that had company lives
\* on with one participant: a lonely channel is one its opener opened alone.
NobodyIsLeftAlone ==
  \A c \in DOMAIN channels :
    \/ HasCompany(channels[c].participants)
    \/ channels[c].participants = {channels[c].opener}

\* While a channel id stays open nobody enters its audience and its opener and
\* kind stay: a member who joined later, or who rejected, closed or left, can
\* only come in through a new channel_opened.
KeepsAudience ==
  \A c \in DOMAIN channels \cap DOMAIN channels' :
    /\ channels'[c].participants \subseteq channels[c].participants
    /\ channels'[c].opener = channels[c].opener
    /\ channels'[c].kind = channels[c].kind
AudienceOnlyShrinks == [][KeepsAudience]_vars

\* Who is still in c after the step; nobody once c is gone.
Remaining(c) == IF c \in DOMAIN channels' THEN channels'[c].participants ELSE {}

\* A participant other than the caller never loses a channel, or a peer in it,
\* without being routed an event in that very step: this is what lets members
\* keep a copy of the engine's channels from events alone.
AnnouncesLoss ==
  \A c \in DOMAIN channels :
    Remaining(c) # channels[c].participants
      => channels[c].participants \ {reply'.by} \subseteq reply'.to
LossIsAnnounced == [][AnnouncesLoss]_vars

\* The indices below the next one have all been issued, and are never issued
\* again, whoever leaves and joins: a message, ticket or channel that names a
\* departed member can never come to mean a newcomer.
IssuesFreshIds ==
  /\ nextMemberIndex <= nextMemberIndex'
  /\ \A m \in members' \ members : nextMemberIndex <= m /\ m < nextMemberIndex'
DepartedStayDeparted == [][IssuesFreshIds]_vars
=============================================================================
