---------------------------- MODULE RoomReplica -----------------------------
(***************************************************************************)
(* The host's room engine and the copies of it that joiners keep           *)
(* (skyffla-cli/src/runtime/machine.rs, machine_links.rs, machine_state.rs)*)
(*                                                                         *)
(* Host and joiner talk over independent QUIC streams: the authority link  *)
(* (commands one way; welcome, snapshot, introductions and room_closed the *)
(* other) and the host's peer link, which carries every event the engine   *)
(* routes.  Each stream is FIFO, nothing orders one against the other.  A  *)
(* third source of a joiner's inputs are the links it sets up with other   *)
(* joiners.  A joiner applies its own commands to its copy before the host *)
(* has seen them.                                                          *)
(***************************************************************************)
EXTENDS RoomEngine, Sequences, SequencesExt

CONSTANT
  MaxCommands   \* bound: commands issued in the whole room

ASSUME ReplicaAssumption == MaxCommands \in Nat

VARIABLES
  roomOpen,    \* FALSE once the host has left its own room
  alive,       \* joiners whose process runs
  toHost,      \* per joiner: commands on its authority link
  authority,   \* per joiner: messages from the host on the authority link
  peerLink,    \* per joiner: events on the host's peer link, pending ones too
  connected,   \* <<j, m>>: j is to get a Connected input about m
  view,        \* per joiner: JoinState
  issued,      \* number of commands issued so far
  used,        \* history: channel ids some member has asked to open
  misused,     \* history: channel ids of commands that are not sensible
  ahead,       \* history: joiners whose copy has got ahead of the host's news
  misled       \* history: those of them that may be wrong about the members

linkVars == <<toHost, authority, peerLink, connected>>
history  == <<used, misused, ahead, misled>>
replicaVars == <<room, reply, roomOpen, alive, linkVars, view, issued, history>>

Joiner == MemberId \ {Host}

\* One record serves commands and the events made from them.
Message(type, by, c, kind, to, offer) ==
  [type |-> type, by |-> by, on |-> c, kind |-> kind, to |-> to, offer |-> offer]

\* A message that names a member and nothing else.
About(type, m) == Message(type, m, NoChannel, "none", All, NoTransfer)

Snapshot(ms) == [type |-> "member_snapshot", members |-> ms]

NewView == [self |-> FALSE, members |-> {}, channels |-> [c \in {} |-> NoChannel]]

ReplicaInit ==
  /\ Init
  /\ roomOpen = TRUE
  /\ alive = {}
  /\ toHost = [j \in Joiner |-> <<>>]
  /\ authority = [j \in Joiner |-> <<>>]
  /\ peerLink = [j \in Joiner |-> <<>>]
  /\ connected = {}
  /\ view = [j \in Joiner |-> NewView]
  /\ issued = 0
  /\ used = {}
  /\ misused = {}
  /\ ahead = {}
  /\ misled = {}

-----------------------------------------------------------------------------
(* What a joiner does with an event: apply_machine_event.                  *)

Put(f, c, x) == [d \in DOMAIN f \cup {c} |-> IF d = c THEN x ELSE f[d]]
Drop(f, c)   == [d \in DOMAIN f \ {c} |-> f[d]]

\* event_participants, from the members the joiner knows at this moment
Known(v, m) == m \in v.members
UnresolvedAudience(v, from, to) == {from, to}       \* bug: the route is stored as it came

ViewAudience(v, from, to) == {from} \cup (IF to = All THEN v.members ELSE {to})

ApplyOpened(v, e) ==
  IF Known(v, e.by) /\ (e.to = All \/ Known(v, e.to))
  THEN [v EXCEPT !.channels =
          Put(@, e.on, [opener |-> e.by, kind |-> e.kind, transfer |-> e.offer,
                        participants |-> ViewAudience(v, e.by, e.to)])]
  ELSE v

ApplyTransfer(v, e) ==
  IF e.on \in DOMAIN v.channels
  THEN [v EXCEPT !.channels[e.on].transfer = e.offer]
  ELSE v

\* remove_join_channel_participant: a channel is also forgotten when the joiner
\* itself is no longer in it (it does not know itself before the welcome).
Keeps(v, j, ps) == HasCompany(ps) /\ (v.self => j \in ps)

ApplyQuit(v, j, c, m) ==
  IF c \notin DOMAIN v.channels THEN v
  ELSE LET rest == v.channels[c].participants \ {m}
       IN  [v EXCEPT !.channels =
              IF Keeps(v, j, rest) THEN [@ EXCEPT ![c].participants = rest]
                                   ELSE Drop(@, c)]

LeftButInChannels(v, j, m) == [v EXCEPT !.members = @ \ {m}]   \* bug: no prune

\* prune_join_channels_for_member
ApplyLeft(v, j, m) ==
  LET Rest(c) == v.channels[c].participants \ {m}
      kept == {c \in DOMAIN v.channels : Keeps(v, j, Rest(c))}
  IN  [v EXCEPT !.members = @ \ {m},
                !.channels = [c \in kept |-> [v.channels[c] EXCEPT !.participants = Rest(c)]]]

Apply(v, j, e) ==
  CASE e.type = "room_welcome"    -> [v EXCEPT !.self = TRUE]
    [] e.type = "member_snapshot" -> [v EXCEPT !.members = e.members]
    [] e.type = "member_joined"   -> [v EXCEPT !.members = @ \cup {e.by}]
    [] e.type = "member_left"     -> ApplyLeft(v, j, e.by)
    [] e.type = "room_closed"     -> [NewView EXCEPT !.self = v.self]
    [] e.type = "channel_opened"  -> ApplyOpened(v, e)
    [] e.type = "channel_transfer" -> ApplyTransfer(v, e)
    [] e.type \in {"channel_rejected", "channel_closed"} -> ApplyQuit(v, j, e.on, e.by)
    [] OTHER -> v   \* chat, channel_accepted, channel_data, peer_connect

-----------------------------------------------------------------------------
(* The host.                                                               *)

DeliverIfIdle(e) ==    \* bug: events are not kept while the newcomer is set up
  peerLink' = [j \in Joiner |-> IF j \in reply'.to /\ authority[j] = <<>>
                                THEN Append(peerLink[j], e) ELSE peerLink[j]]

\* deliver_routed_events: a copy of the event for every recipient but the host,
\* whose own events go to its stdout.
Deliver(e) ==
  peerLink' = [j \in Joiner |-> IF j \in reply'.to THEN Append(peerLink[j], e)
                                ELSE peerLink[j]]

\* handle_host_peer_connected.  Others are told to connect to the newcomer; it
\* gets welcome and snapshot on its authority link, and a peer link, on which its
\* reader may well be ahead of the Connected input about the host.
HostAccepts ==
  LET j == nextMemberIndex IN
  /\ roomOpen
  /\ Join
  /\ alive' = alive \cup {j}
  /\ authority' = [k \in Joiner |->
       IF k = j THEN <<About("room_welcome", j), Snapshot(members \cup {j})>>
       ELSE IF k \in members THEN Append(authority[k], About("peer_connect", j))
       ELSE authority[k]]
  /\ connected' = connected \cup {<<j, Host>>}
  /\ Deliver(About("member_joined", j))
  /\ UNCHANGED <<roomOpen, toHost, view, issued, history>>

\* room.leave and the removal of the peer handle.  Its writer ends with it, and
\* the joiner takes the end of its authority link for room_closed.
HostDropsMember(j) ==
  /\ Leave(j)
  /\ Deliver(About("member_left", j))
  /\ authority' = [authority EXCEPT ![j] = Append(@, About("room_closed", Host))]

\* handle_host_command, for a command of member m
HostExecutes(m, cmd) ==
  /\ CASE cmd.type = "channel_opened"  -> OpenChannel(m, cmd.on, cmd.kind, cmd.to, cmd.offer)
       [] cmd.type = "channel_transfer" -> UpdateChannelTransfer(m, cmd.on, cmd.offer)
       [] cmd.type = "channel_accepted" -> AcceptChannel(m, cmd.on)
       [] cmd.type = "channel_rejected" -> RejectChannel(m, cmd.on)
       [] cmd.type = "channel_closed"  -> CloseChannel(m, cmd.on)
  /\ Deliver(cmd)

\* PeerCommand: the next command of a joiner; one that is no longer a peer is
\* ignored.
HostHandlesCommand(j) ==
  /\ roomOpen
  /\ toHost[j] # <<>>
  /\ toHost' = [toHost EXCEPT ![j] = Tail(@)]
  /\ IF j \in members /\ Head(toHost[j]).type = "leave_room"
     THEN HostDropsMember(j)
     ELSE /\ IF j \in members THEN HostExecutes(j, Head(toHost[j]))
             ELSE UNCHANGED <<room, reply, peerLink>>
          /\ UNCHANGED authority
  /\ UNCHANGED <<roomOpen, alive, connected, view, issued, history>>

\* PeerDisconnected: one of the two readers of a dead joiner's links has ended;
\* commands not read by then come to nothing.  A joiner that loses its connection
\* ends with a read error, so it counts as dead.
HostSeesDisconnect(j) ==
  /\ roomOpen
  /\ j \in members \ alive
  /\ HostDropsMember(j)
  /\ UNCHANGED <<roomOpen, alive, toHost, connected, view, issued, history>>

\* A local leave_room: broadcast_room_closed on the authority links, then exit.
HostLeaves ==
  /\ roomOpen
  /\ roomOpen' = FALSE
  /\ authority' = [j \in Joiner |->
       IF j \in members THEN Append(authority[j], About("room_closed", Host))
       ELSE authority[j]]
  /\ UNCHANGED <<room, reply, alive, toHost, peerLink, connected, view, issued, history>>

-----------------------------------------------------------------------------
(* Commands.                                                               *)

Commands(m) ==
  {Message("channel_opened", m, c, kind, to, offer) :
     c \in ChannelId, kind \in ChannelKind, to \in Route,
     offer \in TransferOffer \cup {NoTransfer}}
  \cup {Message(type, m, c, "none", All, NoTransfer) :
     type \in {"channel_accepted", "channel_rejected", "channel_closed"},
     c \in ChannelId}
  \cup {Message("channel_transfer", m, c, "none", All, offer) :
     c \in ChannelId, offer \in TransferOffer}

\* MachineCommand::validate, before anything is sent
Valid(cmd) == cmd.type = "channel_opened" => ValidOffer(cmd.kind, cmd.offer)

\* Nothing in the code asks for this: a client that opens every channel id once, and
\* uses only the channels it was told of, does it.
Sensible(cmd) ==
  IF cmd.type = "channel_opened" THEN cmd.on \notin used
  ELSE cmd.by \in Joiner =>
         /\ cmd.on \in DOMAIN view[cmd.by].channels
         /\ cmd.type = "channel_transfer" =>
              /\ view[cmd.by].channels[cmd.on].opener = cmd.by
              /\ view[cmd.by].channels[cmd.on].kind = "file"

Issue(cmd) ==
  /\ issued < MaxCommands
  /\ issued' = issued + 1
  /\ Valid(cmd)
  /\ used' = IF cmd.type = "channel_opened" THEN used \cup {cmd.on} ELSE used
  /\ misused' = IF Sensible(cmd) THEN misused ELSE misused \cup {cmd.on}
  /\ UNCHANGED <<ahead, misled>>

HostCommands(cmd) ==
  /\ roomOpen
  /\ Issue(cmd)
  /\ HostExecutes(Host, cmd)
  /\ UNCHANGED <<roomOpen, alive, toHost, authority, connected, view>>

\* handle_join_command: sent to the host and applied at once.  Rejecting and
\* closing forget the channel; opening and updating apply the very event the
\* host is expected to route to the others.
Optimistic(v, j, cmd) ==
  CASE cmd.type \in {"channel_rejected", "channel_closed"} ->
         [v EXCEPT !.channels = Drop(@, cmd.on)]
    [] cmd.type \in {"channel_opened", "channel_transfer"} -> Apply(v, j, cmd)
    [] OTHER -> v

\* Its input is open until it has sent leave_room; the host ignores whatever it
\* sends once it has been dropped.
HasLeft(j) == \E i \in DOMAIN toHost[j] : toHost[j][i].type = "leave_room"
TakesInput(j) == j \in alive \cap members /\ view[j].self /\ ~HasLeft(j)

JoinerCommands(j, cmd) ==
  /\ TakesInput(j)
  /\ Issue(cmd)
  /\ toHost' = [toHost EXCEPT ![j] = Append(@, cmd)]
  /\ view' = [view EXCEPT ![j] = Optimistic(@, j, cmd)]
  /\ UNCHANGED <<room, reply, roomOpen, alive, authority, peerLink, connected>>

\* handle_join_stdin_input: leave_room is sent like a command and ends the input.
JoinerLeaves(j) ==
  /\ TakesInput(j)
  /\ toHost' = [toHost EXCEPT ![j] = Append(@, About("leave_room", j))]
  /\ UNCHANGED <<room, reply, roomOpen, alive, authority, peerLink, connected,
                 view, issued, history>>

\* The process ends, killed or because its room is over for it.
JoinerExits(j) ==
  /\ j \in alive
  /\ alive' = alive \ {j}
  /\ connected' = {p \in connected : p[1] # j}
  /\ UNCHANGED <<room, reply, roomOpen, toHost, authority, peerLink, view, issued, history>>

-----------------------------------------------------------------------------
(* A joiner's inputs, in the order its select! happens to take them.       *)

\* handle_join_authority_message.  A peer_connect makes the joiner dial the
\* newcomer: when the dial succeeds both ends will see a Connected input.
JoinerReadsAuthority(j) ==
  /\ j \in alive
  /\ authority[j] # <<>>
  /\ LET msg == Head(authority[j]) IN
       /\ view' = [view EXCEPT ![j] = Apply(@, j, msg)]
       /\ \/ connected' = connected
          \/ /\ msg.type = "peer_connect"
             /\ msg.by \in alive
             /\ connected' = connected \cup {<<j, msg.by>>, <<msg.by, j>>}
  /\ authority' = [authority EXCEPT ![j] = Tail(@)]
  /\ UNCHANGED <<room, reply, roomOpen, alive, toHost, peerLink, issued, history>>

\* j has yet to read what changes its copy: the welcome, the snapshot, or the end.
Unsettled(j) == \E i \in DOMAIN authority[j] : authority[j][i].type # "peer_connect"

\* The members it knows are going to be overwritten.
SnapshotPending(j) ==
  \E i \in DOMAIN authority[j] : authority[j][i].type = "member_snapshot"

\* handle_join_peer_input, for events on the host's peer link: nothing keeps them
\* from overtaking the authority link.
JoinerReadsPeerLink(j) ==
  /\ j \in alive
  /\ peerLink[j] # <<>>
  /\ view' = [view EXCEPT ![j] = Apply(@, j, Head(peerLink[j]))]
  /\ peerLink' = [peerLink EXCEPT ![j] = Tail(@)]
  /\ ahead' = IF Unsettled(j) THEN ahead \cup {j} ELSE ahead
  /\ misled' = IF Unsettled(j) THEN misled \cup {j} ELSE misled
  /\ UNCHANGED <<room, reply, roomOpen, alive, toHost, authority, connected, issued,
                 used, misused>>

\* handle_join_peer_input, Connected: members.entry(m).or_insert, for the host or
\* another joiner.  It may come before the host's news of m, or after m has left.
JoinerMeetsPeer(j, m) ==
  LET early == m \notin view[j].members /\ ~SnapshotPending(j) IN
  /\ j \in alive
  /\ <<j, m>> \in connected
  /\ view' = [view EXCEPT ![j].members = @ \cup {m}]
  /\ connected' = connected \ {<<j, m>>}
  /\ ahead' = IF early THEN ahead \cup {j} ELSE ahead
  /\ misled' = IF early /\ m \notin members THEN misled \cup {j} ELSE misled
  /\ UNCHANGED <<room, reply, roomOpen, alive, toHost, authority, peerLink, issued,
                 used, misused>>

-----------------------------------------------------------------------------
ReplicaNext ==
  \/ HostAccepts
  \/ HostLeaves
  \/ \E cmd \in Commands(Host) : HostCommands(cmd)
  \/ \E j \in Joiner :
       \/ HostHandlesCommand(j)
       \/ HostSeesDisconnect(j)
       \/ \E cmd \in Commands(j) : JoinerCommands(j, cmd)
       \/ JoinerLeaves(j)
       \/ JoinerExits(j)
       \/ JoinerReadsAuthority(j)
       \/ JoinerReadsPeerLink(j)
       \/ \E m \in MemberId : JoinerMeetsPeer(j, m)

ReplicaSpec == ReplicaInit /\ [][ReplicaNext]_replicaVars

-----------------------------------------------------------------------------
(* Properties.                                                             *)

MessageType ==
  [type : Event \cup {"room_welcome", "room_closed", "peer_connect", "leave_room"},
   by : MemberId, on : ChannelId \cup {NoChannel}, kind : ChannelKind \cup {"none"},
   to : Route, offer : TransferOffer \cup {NoTransfer}]
  \cup [type : {"member_snapshot"}, members : SUBSET MemberId]

\* Streams carry messages, every copy of the room is well-formed, and nobody is in
\* the room, or runs, that the host has not numbered.
ReplicaTypeOK ==
  /\ roomOpen \in BOOLEAN
  /\ alive \subseteq Joiner
  /\ \A m \in members \cup alive : m < nextMemberIndex
  /\ \A j \in Joiner :
       /\ ToSet(toHost[j]) \cup ToSet(authority[j]) \cup ToSet(peerLink[j])
            \subseteq MessageType
       /\ view[j].self \in BOOLEAN
       /\ view[j].members \subseteq MemberId
       /\ DOMAIN view[j].channels \subseteq ChannelId
       /\ \A c \in DOMAIN view[j].channels : view[j].channels[c] \in Channel
  /\ connected \subseteq Joiner \X MemberId
  /\ issued \in 0 .. MaxCommands
  /\ used \cup misused \subseteq ChannelId
  /\ ahead \cup misled \subseteq Joiner

Present(j) == roomOpen /\ j \in alive \cap members

\* The copy that v becomes when joiner j reads the messages of s one by one.
After(v, j, s) ==
  LET copy[i \in 0 .. Len(s)] == IF i = 0 THEN v ELSE Apply(copy[i - 1], j, s[i])
  IN  copy[Len(s)]

\* The copy joiner j would have after reading what the host has sent it so far,
\* authority link first.
Caught(j) == After(view[j], j, authority[j] \o peerLink[j])

\* What the host has sent to a joiner always amounts to the engine's membership:
\* however joins, leaves and crashes interleave, a joiner knows exactly who is in the
\* room once it has read its streams.  There are two ways to go wrong, which nothing
\* in the code excludes: to read the host's peer link before the snapshot, which then
\* overwrites what it said, and to finish a dial to a member that has left.
StreamsCarryMembership ==
  \A j \in Joiner : Present(j) /\ j \notin misled => Caught(j).members = members

\* j has asked to be out of c (or to leave), and the host has not seen it yet.
Quitting(j, c) ==
  \E i \in DOMAIN toHost[j] :
    \/ toHost[j][i].type = "leave_room"
    \/ toHost[j][i].on = c /\ toHost[j][i].type \in {"channel_rejected", "channel_closed"}

\* Likewise for the channels others opened: what the host has sent amounts to the
\* engine's channel, its audience and metadata, for each participant that is not
\* quitting it, and to no channel at all for everyone else.  This is of channels all
\* clients use as they should, and of joiners that never get ahead of the host: one
\* that meets a member before the host's news counts it into older channels.
StreamsCarryChannels ==
  \A j \in Joiner, c \in ChannelId :
    LET copy == Caught(j).channels IN
    Present(j) /\ j \notin ahead /\ c \notin misused =>
      /\ (/\ c \in DOMAIN channels
          /\ channels[c].opener # j
          /\ j \in channels[c].participants
          /\ ~Quitting(j, c)) => (c \in DOMAIN copy /\ copy[c] = channels[c])
      /\ (c \in DOMAIN copy /\ copy[c].opener # j)
           => (c \in DOMAIN channels /\ copy[c] = channels[c])
=============================================================================
