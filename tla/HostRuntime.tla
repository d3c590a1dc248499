---------------------------- MODULE HostRuntime ----------------------------
(***************************************************************************)
(* The machine-mode processes of one room, from the command line to their  *)
(* end (app/commands.rs, runtime/session.rs, runtime/handshake.rs, the     *)
(* main loops of runtime/machine.rs and the link tasks of                  *)
(* runtime/machine_links.rs).  A process looks the room up and becomes its *)
(* host or dials it; the host takes one input at a time off host_rx and    *)
(* writes to each joiner through two writer tasks, one for the authority   *)
(* link and one for the peer link.                                         *)
(*                                                                         *)
(* What a room remembers of channels is RoomEngine, what a joiner makes of *)
(* the two streams is RoomReplica, how long a registration lives is        *)
(* Rendezvous.  This module is about the processes and their connections:  *)
(* who ends, who is told, and what a lost connection does to the host.     *)
(*                                                                         *)
(* A task that only moves an item into host_rx is merged with the turn     *)
(* that handles it: each task hands over its items in order, and the turns *)
(* of different tasks interleave freely, as they do in the queue.          *)
(***************************************************************************)
EXTENDS Naturals, Sequences, FiniteSets

CONSTANTS Process,      \* the processes started for the room
          Hosting,      \* those started with "host"; the others with "join"
          NoProcess,
          WritersRace,  \* whether a writer task may die while a turn is sending
          MaxCommands,  \* bound: room commands the joiners send
          MaxFaults     \* bound: crashes and lost connections

ASSUME RuntimeAssumption ==
    /\ Hosting \subseteq Process
    /\ NoProcess \notin Process
    /\ WritersRace \in BOOLEAN
    /\ MaxCommands \in Nat
    /\ MaxFaults \in Nat

Link == {"authority", "peer"}
Stage == {"start", "unhosted", "beaten", "dialling", "greeting", "member",
          "hosting", "ended", "failed", "crashed"}
SessionState == {"Idle", "Hosting", "Joining", "Connecting", "Negotiating",
                 "Machine", "Closing", "Closed"}

VARIABLES
    stage,        \* how far the process has come
    session,      \* its SessionMachine; "Refused" once a transition was
    registered,   \* the process the rendezvous server names, or NoProcess
    target,       \* the process whose ticket a joiner dialled
    inputClosed,  \* local_input_closed, input_closed
    peerClosed,   \* a joiner's peer_closed
    host,         \* the last process to host
    accepting,    \* the connection the host's accept loop is busy with
    arrived,      \* ConnectedPeers queued for the main loop
    entered,      \* machine_state_entered
    members,      \* the room's members
    peers,        \* the keys of the host's peers map
    view,         \* the roster each joiner has been sent, or will be
    pending,      \* how many events wait in pending_events
    peerLink,     \* the host's peer link: its task, then peer_sender
    conn,         \* a joiner's connection, as the host sees it
    writer,       \* the host's writer task of each link
    readers,      \* the host's reader tasks still reading
    outbox,       \* commands a joiner wrote and the host has not handled
    welcome,      \* whether a joiner has been sent RoomWelcome
    commands, faults

procVars == <<stage, session, registered, target>>
joinVars == <<inputClosed, peerClosed, outbox, welcome, commands>>
roomVars == <<entered, members, peers, view, pending>>
linkVars == <<peerLink, conn, writer, readers>>
doorVars == <<host, accepting, arrived>>
vars == <<procVars, joinVars, roomVars, linkVars, doorVars, faults>>

Over(p) == stage[p] \in {"ended", "failed", "crashed"}

HostServes == host # NoProcess /\ stage[host] = "hosting"

RuntimeInit ==
    /\ stage = [p \in Process |-> "start"]
    /\ session = [p \in Process |-> "Idle"]
    /\ registered = NoProcess
    /\ target = [p \in Process |-> NoProcess]
    /\ inputClosed = [p \in Process |-> FALSE]
    /\ peerClosed = [p \in Process |-> FALSE]
    /\ outbox = [p \in Process |-> <<>>]
    /\ welcome = [p \in Process |-> FALSE]
    /\ commands = 0
    /\ entered = FALSE
    /\ members = {} /\ peers = {}
    /\ view = [p \in Process |-> {}]
    /\ pending = [p \in Process |-> 0]
    /\ peerLink = [p \in Process |-> "none"]
    /\ conn = [p \in Process |-> "none"]
    /\ writer = [p \in Process |-> [l \in Link |-> "none"]]
    /\ readers = [p \in Process |-> {}]
    /\ host = NoProcess /\ accepting = NoProcess /\ arrived = {}
    /\ faults = 0

-----------------------------------------------------------------------------
(* The session machine.  A refused transition is an error that ends the    *)
(* process; "Refused" keeps it in sight.                                   *)

\* SessionMachine::transition.
Transition(state, event) ==
    CASE event = "HostRequested" /\ state \in {"Idle", "Joining"} -> "Hosting"
      [] event = "JoinRequested" /\ state = "Idle" -> "Joining"
      [] event = "TransportConnecting" /\ state \in {"Hosting", "Joining"} ->
            "Connecting"
      [] event = "PeerConnected" /\ state = "Connecting" -> "Negotiating"
      [] event = "Negotiated" /\ state = "Negotiating" -> "Machine"
      [] event = "CloseRequested"
         /\ state \in {"Machine", "Hosting", "Joining", "Connecting",
                       "Negotiating"} -> "Closing"
      [] event = "Closed" /\ state = "Closing" -> "Closed"
      [] OTHER -> "Refused"

\* Two events in a row, as every phase of a session records them.
Transitions(state, first, second) ==
    Transition(Transition(state, first), second)

-----------------------------------------------------------------------------
(* Becoming the host or a joiner.                                          *)

StartsHosting(p) ==
    /\ stage' = [stage EXCEPT ![p] = "hosting"]
    /\ registered' = p
    /\ host' = p
    /\ members' = {p}
    /\ UNCHANGED <<target, joinVars, entered, peers, view, pending, linkVars,
                   accepting, arrived, faults>>

\* The memory of the host goes with its process.
RoomIsGone ==
    /\ entered' = FALSE
    /\ members' = {} /\ peers' = {}
    /\ view' = [p \in Process |-> {}]
    /\ pending' = [p \in Process |-> 0]
    /\ peerLink' = [p \in Process |-> "none"]
    /\ writer' = [p \in Process |-> [l \in Link |-> "none"]]
    /\ readers' = [p \in Process |-> {}]
    /\ accepting' = NoProcess /\ arrived' = {}

HostIsOver(how) ==
    /\ stage' = [stage EXCEPT ![host] = how]
    /\ RoomIsGone
    /\ UNCHANGED <<session, registered, target, joinVars, conn, host, faults>>

Stops(p, how) ==
    /\ stage' = [stage EXCEPT ![p] = how]
    /\ UNCHANGED <<session, registered, target, joinVars, roomVars, linkVars,
                   doorVars, faults>>

\* run_host: the server refuses a room somebody else hosts.
RunHost(p) ==
    /\ stage[p] = "start" /\ p \in Hosting
    /\ \/ /\ registered = NoProcess
          /\ session' = [session EXCEPT ![p] =
                Transitions(@, "HostRequested", "TransportConnecting")]
          /\ StartsHosting(p)
       \/ registered # NoProcess /\ Stops(p, "failed")

\* connect_to_endpoint_addr with the ticket the server gave.
Dials(p) ==
    /\ stage' = [stage EXCEPT ![p] = "dialling"]
    /\ target' = [target EXCEPT ![p] = registered]
    /\ UNCHANGED <<registered, joinVars, roomVars, linkVars, doorVars, faults>>

\* run_join, first lookup: dial the host, or try to become it.
RunJoin(p) ==
    /\ stage[p] = "start" /\ p \notin Hosting
    /\ IF registered # NoProcess
       THEN /\ session' = [session EXCEPT ![p] =
                  Transitions(@, "JoinRequested", "TransportConnecting")]
            /\ Dials(p)
       ELSE /\ session' = [session EXCEPT ![p] = Transition(@, "JoinRequested")]
            /\ stage' = [stage EXCEPT ![p] = "unhosted"]
            /\ UNCHANGED <<registered, target, joinVars, roomVars, linkVars,
                           doorVars, faults>>

\* run_join, the room had no host: register it, unless another was faster.
JoinRegisters(p) ==
    /\ stage[p] = "unhosted"
    /\ \/ /\ registered = NoProcess
          /\ session' = [session EXCEPT ![p] =
                Transitions(@, "HostRequested", "TransportConnecting")]
          /\ StartsHosting(p)
       \/ registered # NoProcess /\ Stops(p, "beaten")

\* run_join, AlreadyHosted: look the room up once more.
JoinRetries(p) ==
    /\ stage[p] = "beaten"
    /\ \/ /\ registered # NoProcess
          /\ session' = [session EXCEPT ![p] =
                Transition(@, "TransportConnecting")]
          /\ Dials(p)
       \/ registered = NoProcess /\ Stops(p, "failed")

\* IrohTransport::connect, the policy check and PeerConnected.
Connects(p) ==
    /\ stage[p] = "dialling"
    /\ \/ /\ stage[target[p]] = "hosting" /\ host = target[p]
          /\ stage' = [stage EXCEPT ![p] = "greeting"]
          /\ session' = [session EXCEPT ![p] = Transition(@, "PeerConnected")]
          /\ conn' = [conn EXCEPT ![p] = "up"]
          /\ UNCHANGED <<registered, target, joinVars, roomVars, peerLink,
                         writer, readers, doorVars, faults>>
       \/ Over(target[p]) /\ Stops(p, "failed")

\* accept_connection: one joiner at a time is let through the handshake.
AcceptsConnection(p) ==
    /\ HostServes /\ accepting = NoProcess
    /\ conn[p] = "up" /\ target[p] = host /\ stage[p] = "greeting"
    /\ accepting' = p
    /\ UNCHANGED <<procVars, joinVars, roomVars, linkVars, host, arrived, faults>>

\* exchange_hello as the joiner runs it: it has the host's hello and ack, and
\* has written its own.
ExchangesHello(p) ==
    /\ stage[p] = "greeting" /\ conn[p] = "up"
    /\ accepting = p /\ HostServes
    /\ stage' = [stage EXCEPT ![p] = "member"]
    /\ session' = [session EXCEPT ![p] = Transition(@, "Negotiated")]
    /\ UNCHANGED <<registered, target, joinVars, roomVars, linkVars, doorVars,
                   faults>>

\* Mutant: the accept loop does not get over a handshake that fails.
HandshakeEndsWell(p) ==
    /\ HostServes /\ accepting = p
    /\ session[p] = "Machine" /\ arrived' = arrived \union {p}
    /\ accepting' = NoProcess
    /\ UNCHANGED <<procVars, joinVars, roomVars, linkVars, host, faults>>

\* accept_machine_peer returns: a ConnectedPeer is queued, or the handshake
\* failed with the connection and is only reported.
HandshakeEnds(p) ==
    /\ HostServes /\ accepting = p
    /\ \/ session[p] = "Machine" /\ arrived' = arrived \union {p}
       \/ conn[p] = "lost" /\ UNCHANGED arrived
    /\ accepting' = NoProcess
    /\ UNCHANGED <<procVars, joinVars, roomVars, linkVars, host, faults>>

-----------------------------------------------------------------------------
(* What a turn of the host sends.  An unbounded channel takes any message  *)
(* as long as its writer task lives; the task dies on its first failed     *)
(* write, which may happen between two messages of one turn.               *)

\* Every link, with the number of messages the turn gives it.
Sends(toAuthority, toPeer) ==
    [p \in Process |-> [l \in Link |->
        IF l = "authority" THEN toAuthority[p] ELSE toPeer[p]]]

Nothing == [p \in Process |-> 0]

Uses(sends, p, l) == sends[p][l] > 0

\* send_link_message on a channel whose receiver is gone.
MeetsDeadWriter(sends) ==
    \E p \in Process, l \in Link : Uses(sends, p, l) /\ writer[p][l] = "dead"

\* ... or whose receiver goes away while the turn is sending.
LosesWriter(sends) ==
    /\ WritersRace
    /\ \E p \in Process, l \in Link : sends[p][l] > 1 /\ conn[p] = "lost"

CanBreak(sends) == MeetsDeadWriter(sends) \/ LosesWriter(sends)

\* While the connection is up every message gets written sooner or later, and
\* ConnectionIsLost says which were not; afterwards the writer has one to fail on.
Given(p) == IF conn[p] = "lost" THEN "busy" ELSE "used"

Sent(sends) ==
    [p \in Process |-> [l \in Link |->
        IF Uses(sends, p, l) THEN Given(p) ELSE writer[p][l]]]

\* deliver_routed_events: the peer link, or pending_events until it is there.
EventsTo(recipients, p) ==
    IF p \in recipients \cap peers /\ peerLink[p] = "ready" THEN 1 ELSE 0

Kept(recipients) ==
    [p \in Process |->
        IF p \in recipients \cap peers /\ peerLink[p] # "ready"
        THEN pending[p] + 1 ELSE pending[p]]

\* The ? of a turn: the error leaves the main loop and the process.
HostFails == HostIsOver("failed")

-----------------------------------------------------------------------------
(* The turns of the host's main loop.                                      *)

\* Mutant: the session enters the machine state for every joiner.
SessionOnEveryJoin == Transitions(session[host], "PeerConnected", "Negotiated")

\* enter_machine_state, on the first joiner only.
SessionOnJoin == IF entered THEN session[host]
                 ELSE Transitions(session[host], "PeerConnected", "Negotiated")

\* handle_host_peer_connected: the introductions, the welcome and snapshot of
\* the joiner, and member_joined for the others.
JoinSends(p) ==
    Sends([q \in Process |-> IF q \in peers THEN 1
                             ELSE IF q = p THEN Cardinality(peers) + 2 ELSE 0],
          [q \in Process |-> EventsTo(members, q)])

HostPeerConnected(p) ==
    /\ HostServes /\ p \in arrived
    /\ \/ /\ ~MeetsDeadWriter(JoinSends(p))
          /\ session' = [session EXCEPT ![host] = SessionOnJoin]
          /\ entered' = TRUE
          /\ members' = members \union {p}
          /\ peers' = peers \union {p}
          /\ view' = [q \in Process |->
                IF q \in peers' THEN view[q] \union (IF q = p THEN members' ELSE {p})
                ELSE view[q]]
          /\ pending' = Kept(members)
          /\ writer' = Sent(JoinSends(p))
          /\ readers' = [readers EXCEPT ![p] = {"authority"}]
          /\ peerLink' = [peerLink EXCEPT ![p] = "opening"]
          /\ welcome' = [welcome EXCEPT ![p] = TRUE]
          /\ arrived' = arrived \ {p}
          /\ UNCHANGED <<stage, registered, target, inputClosed, peerClosed,
                         outbox, commands, conn, host, accepting, faults>>
       \/ CanBreak(JoinSends(p)) /\ HostFails

\* spawn_host_peer_link: the stream is opened and its reader started before
\* the main loop hears of it.
HostOpensPeerLink(p) ==
    /\ HostServes /\ peerLink[p] = "opening"
    /\ IF conn[p] = "up"
       THEN /\ peerLink' = [peerLink EXCEPT ![p] = "opened"]
            /\ readers' = [readers EXCEPT ![p] = @ \union {"peer"}]
            /\ writer' = [writer EXCEPT ![p]["peer"] = "idle"]
       ELSE /\ peerLink' = [peerLink EXCEPT ![p] = "none"]
            /\ UNCHANGED <<readers, writer>>
    /\ UNCHANGED <<procVars, joinVars, roomVars, conn, doorVars, faults>>

\* Mutant: the kept events are sent and kept.
FlushedKept(p) == pending

\* std::mem::take of pending_events.
Flushed(p) == [pending EXCEPT ![p] = 0]

\* PeerLinkReady: the events kept so far go out first.
HostPeerLinkReady(p) ==
    LET sends == Sends(Nothing, [q \in Process |->
                           IF q = p /\ p \in peers THEN pending[p] ELSE 0])
    IN  /\ HostServes /\ peerLink[p] = "opened"
        /\ \/ /\ ~MeetsDeadWriter(sends)
              /\ peerLink' = [peerLink EXCEPT ![p] =
                                IF p \in peers THEN "ready" ELSE "none"]
              /\ writer' = IF p \in peers THEN Sent(sends)
                           ELSE [writer EXCEPT ![p]["peer"] = "closed"]
              /\ pending' = Flushed(p)
              /\ UNCHANGED <<procVars, joinVars, entered, members, peers, view,
                             conn, readers, doorVars, faults>>
           \/ CanBreak(sends) /\ HostFails

\* room.leave, and the dispatch that tells the remaining members.
LeaveSends(p) ==
    Sends(Nothing, [q \in Process |-> EventsTo(members \ {p}, q)])

\* Mutant: a joiner whose peer link is not there yet is not told.
RoomLeaveUnkept(p) ==
    /\ members' = members \ {p}
    /\ view' = [q \in Process |->
          IF q \in peers \ {p} /\ peerLink[q] = "ready" THEN view[q] \ {p} ELSE view[q]]

RoomLeave(p) ==
    /\ members' = members \ {p}
    /\ view' = [[q \in Process |-> IF q \in peers THEN view[q] \ {p} ELSE view[q]]
                  EXCEPT ![p] = {}]

\* Mutant: a sender of the handle lives on, and the stream stays open.
WritersKept(w, p) == w

\* Dropping a PeerHandle drops its senders: the writers drain and finish.
WritersWithout(w, p) ==
    [w EXCEPT ![p] = [l \in Link |->
        IF w[p][l] \in {"idle", "used", "busy"} /\ ~(l = "peer" /\ peerLink[p] = "opened")
        THEN "closed" ELSE w[p][l]]]

\* Mutant: a peer without a peer link is not looked up any more.
RemovesLinked(p) ==
    IF peerLink[p] = "opening" THEN UNCHANGED <<peers, members, view, pending, writer>>
    ELSE /\ peers' = peers \ {p}
         /\ IF p \in members
            THEN /\ RoomLeave(p)
                 /\ pending' = [Kept(members \ {p}) EXCEPT ![p] = 0]
                 /\ writer' = WritersWithout(Sent(LeaveSends(p)), p)
            ELSE UNCHANGED <<members, view, pending, writer>>

\* The handle is dropped, and a member leaves the room: the others are told.
Removes(p) ==
    /\ peers' = peers \ {p}
    /\ IF p \in members
       THEN /\ RoomLeave(p)
            /\ pending' = [Kept(members \ {p}) EXCEPT ![p] = 0]
            /\ writer' = WritersWithout(Sent(LeaveSends(p)), p)
       ELSE UNCHANGED <<members, view, pending, writer>>

LeaveMeetsDeadWriter(p) == p \in members /\ MeetsDeadWriter(LeaveSends(p))

\* The dispatch can hold channel_closed events beside member_left, so a writer
\* may die between two messages of this turn too.
LeaveCanBreak(p) ==
    \/ LeaveMeetsDeadWriter(p)
    \/ /\ p \in members /\ WritersRace
       /\ \E q \in Process : Uses(LeaveSends(p), q, "peer") /\ conn[q] = "lost"

\* The authority reader hands over the first of the joiner's commands.
Takes(p, kinds) ==
    /\ HostServes /\ "authority" \in readers[p]
    /\ outbox[p] # <<>> /\ Head(outbox[p]) \in kinds

Handled(p) == outbox' = [outbox EXCEPT ![p] = Tail(@)]

HostPeerLeaves(p) ==
    /\ Takes(p, {"leave"}) /\ p \in peers
    /\ \/ /\ ~LeaveMeetsDeadWriter(p)
          /\ Removes(p) /\ Handled(p)
          /\ UNCHANGED <<procVars, inputClosed, peerClosed, welcome, commands,
                         entered, peerLink, conn, readers, doorVars, faults>>
       \/ LeaveCanBreak(p) /\ HostFails

\* deliver_routed_events stops at the first dead writer: some of the recipients
\* are told, all of them when every writer lives.
Reached(recipients) ==
    LET deaf == {q \in recipients :
                   EventsTo(recipients, q) = 1 /\ writer[q]["peer"] = "dead"}
    IN  IF deaf = {} THEN {recipients} ELSE SUBSET (recipients \ deaf)

\* handle_host_command for a joiner: the room accepts the command and its
\* events are routed, or the joiner is sent a command error - also when only
\* the routing failed.
HostPeerCommand(p) ==
    /\ Takes(p, {"command"}) /\ p \in peers
    /\ \E accepted \in BOOLEAN, told \in Reached(members \ {p}) :
          LET heard == IF accepted THEN told ELSE {}
              failed == ~accepted \/ told # members \ {p}
              sends == Sends([q \in Process |-> IF q = p /\ failed THEN 1 ELSE 0],
                             [q \in Process |-> EventsTo(heard, q)])
          IN  \/ /\ ~MeetsDeadWriter(sends)
                 /\ writer' = Sent(sends)
                 /\ pending' = Kept(heard)
                 /\ Handled(p)
                 /\ UNCHANGED <<procVars, inputClosed, peerClosed, welcome,
                                commands, entered, members, peers, view,
                                peerLink, conn, readers, doorVars, faults>>
              \/ MeetsDeadWriter(sends) /\ HostFails

\* A command of a joiner the host has no handle of is dropped.
HostDropsCommand(p) ==
    /\ Takes(p, {"leave", "command"}) /\ p \notin peers
    /\ Handled(p)
    /\ UNCHANGED <<procVars, inputClosed, peerClosed, welcome, commands,
                   roomVars, linkVars, doorVars, faults>>

\* Mutant: the disconnect of a peer whose handle is gone ends nothing.
HostKnownPeerDisconnected(p, l) ==
    /\ HostServes /\ l \in readers[p] /\ conn[p] = "lost"
    /\ \/ /\ ~LeaveMeetsDeadWriter(p)
          /\ IF inputClosed[host] /\ peers \ {p} = {} /\ p \in peers
             THEN HostIsOver("ended")
             ELSE /\ Removes(p)
                  /\ readers' = [readers EXCEPT ![p] = @ \ {l}]
                  /\ outbox' = [outbox EXCEPT ![p] =
                                  IF l = "authority" THEN <<>> ELSE @]
                  /\ UNCHANGED <<procVars, inputClosed, peerClosed, welcome,
                                 commands, entered, peerLink, conn, doorVars,
                                 faults>>
       \/ LeaveCanBreak(p) /\ HostFails

\* PeerDisconnected, once from each reader of the connection; commands the
\* authority reader had not read are gone with it.
HostPeerDisconnected(p, l) ==
    /\ HostServes /\ l \in readers[p] /\ conn[p] = "lost"
    /\ \/ /\ ~LeaveMeetsDeadWriter(p)
          /\ IF inputClosed[host] /\ peers \ {p} = {}
             THEN HostIsOver("ended")
             ELSE /\ Removes(p)
                  /\ readers' = [readers EXCEPT ![p] = @ \ {l}]
                  /\ outbox' = [outbox EXCEPT ![p] =
                                  IF l = "authority" THEN <<>> ELSE @]
                  /\ UNCHANGED <<procVars, inputClosed, peerClosed, welcome,
                                 commands, entered, peerLink, conn, doorVars,
                                 faults>>
       \/ LeaveCanBreak(p) /\ HostFails

\* A room command of the host's own client: an error stays in band.
HostLocalCommand ==
    /\ HostServes /\ ~inputClosed[host] /\ commands < MaxCommands
    /\ commands' = commands + 1
    /\ \E heard \in Reached(members \ {host}) :
          /\ writer' = Sent(Sends(Nothing, [q \in Process |-> EventsTo(heard, q)]))
          /\ pending' = Kept(heard)
    /\ UNCHANGED <<procVars, inputClosed, peerClosed, outbox, welcome, entered,
                   members, peers, view, peerLink, conn, readers, doorVars,
                   faults>>

\* LeaveRoom of the host's client: broadcast_room_closed, then the loop breaks -
\* or a dead writer makes it an error, which ends the host all the same.
HostLeaves == HostServes /\ ~inputClosed[host] /\ HostIsOver("ended")

\* Ctrl-C: the run_host future is dropped where it stands.
HostIsInterrupted == HostServes /\ HostIsOver("ended")

\* LocalInputClosed: noted, and looked at when a peer disconnects.
HostInputCloses ==
    /\ HostServes /\ ~inputClosed[host]
    /\ inputClosed' = [inputClosed EXCEPT ![host] = TRUE]
    /\ UNCHANGED <<procVars, peerClosed, outbox, welcome, commands, roomVars,
                   linkVars, doorVars, faults>>

\* delete_room once the host runtime has returned.
Unregisters(p) ==
    /\ stage[p] \in {"ended", "failed"} /\ registered = p
    /\ registered' = NoProcess
    /\ UNCHANGED <<stage, session, target, joinVars, roomVars, linkVars,
                   doorVars, faults>>

-----------------------------------------------------------------------------
(* The writer tasks and the connections.                                   *)

\* spawn_link_writer: a failed write ends the task.
WriterFails(p, l) ==
    /\ HostServes /\ writer[p][l] = "busy"
    /\ writer' = [writer EXCEPT ![p][l] = "dead"]
    /\ UNCHANGED <<procVars, joinVars, roomVars, peerLink, conn, readers,
                   doorVars, faults>>

\* The host learns that a connection is gone: the joiner's process is over, or
\* the network has failed.  A writer may be caught with a message unwritten.
ConnectionIsLost(p) ==
    /\ HostServes /\ conn[p] = "up" /\ target[p] = host
    /\ conn' = [conn EXCEPT ![p] = "lost"]
    /\ \E caught \in SUBSET {l \in Link : writer[p][l] = "used"} :
          writer' = [writer EXCEPT ![p] =
                       [l \in Link |-> IF l \in caught THEN "busy" ELSE @[l]]]
    /\ IF Over(p) THEN UNCHANGED faults
       ELSE faults < MaxFaults /\ faults' = faults + 1
    /\ UNCHANGED <<procVars, joinVars, roomVars, peerLink, readers, doorVars>>

\* The host's process dies, and its registration outlives it.  A joiner that
\* dies is one that does nothing until its connection is lost.
HostCrashes ==
    /\ HostServes /\ faults < MaxFaults
    /\ faults' = faults + 1
    /\ stage' = [stage EXCEPT ![host] = "crashed"]
    /\ RoomIsGone
    /\ UNCHANGED <<session, registered, target, joinVars, conn, host>>

-----------------------------------------------------------------------------
(* A joiner in the room: run_machine_join_session.                         *)

\* The connection is of no more use to the joiner.
CutOff(p) == conn[p] = "lost" \/ Over(target[p])

\* while !(input_closed && peer_closed), then CloseRequested and Closed.
Closes(p, input, peer) ==
    /\ inputClosed' = [inputClosed EXCEPT ![p] = input]
    /\ peerClosed' = [peerClosed EXCEPT ![p] = peer]
    /\ IF input /\ peer
       THEN /\ stage' = [stage EXCEPT ![p] = "ended"]
            /\ session' = [session EXCEPT ![p] =
                  Transitions(@, "CloseRequested", "Closed")]
       ELSE UNCHANGED <<stage, session>>

\* A room command of the joiner's client, sent on the authority link.
JoinCommand(p) ==
    /\ stage[p] = "member" /\ welcome[p] /\ ~inputClosed[p]
    /\ ~CutOff(p) /\ commands < MaxCommands
    /\ commands' = commands + 1
    /\ outbox' = [outbox EXCEPT ![p] = Append(@, "command")]
    /\ UNCHANGED <<procVars, inputClosed, peerClosed, welcome, roomVars,
                   linkVars, doorVars, faults>>

\* LeaveRoom of a joiner that knows itself: sent, and its last input; to send it
\* on a broken link is an error of the main loop.
JoinLeaves(p) ==
    /\ stage[p] = "member" /\ welcome[p] /\ ~inputClosed[p]
    /\ \/ /\ ~CutOff(p)
          /\ Closes(p, TRUE, peerClosed[p])
          /\ outbox' = [outbox EXCEPT ![p] = Append(@, "leave")]
          /\ UNCHANGED <<registered, target, welcome, commands, roomVars,
                         linkVars, doorVars, faults>>
       \/ CutOff(p) /\ Stops(p, "failed")

\* LocalInputClosed, or a LeaveRoom before the joiner has read its welcome: the
\* input is over, and the joiner stays as long as the room does.
JoinInputCloses(p) ==
    /\ stage[p] = "member" /\ ~inputClosed[p]
    /\ Closes(p, TRUE, peerClosed[p])
    /\ UNCHANGED <<registered, target, outbox, welcome, commands, roomVars,
                   linkVars, doorVars, faults>>

\* The end of the authority stream, or a RoomClosed on it.
JoinHearsEnd(p) ==
    /\ stage[p] = "member" /\ ~peerClosed[p] /\ conn[p] = "up"
    /\ writer[p]["authority"] = "closed" \/ stage[target[p]] = "ended"
    /\ Closes(p, inputClosed[p], TRUE)
    /\ UNCHANGED <<registered, target, outbox, welcome, commands, roomVars,
                   linkVars, doorVars, faults>>

\* A broken authority link is an error of the joiner's main loop, and so is a
\* handshake with a host that is gone.
JoinFails(p) ==
    /\ \/ stage[p] = "greeting"
       \/ stage[p] = "member" /\ ~peerClosed[p]
    /\ CutOff(p)
    /\ Stops(p, "failed")

-----------------------------------------------------------------------------
Starting(p) ==
    \/ RunHost(p) \/ RunJoin(p) \/ JoinRegisters(p) \/ JoinRetries(p)
    \/ Connects(p) \/ AcceptsConnection(p) \/ ExchangesHello(p)
    \/ HandshakeEnds(p)

HostTurn(p) ==
    \/ HostPeerConnected(p) \/ HostOpensPeerLink(p) \/ HostPeerLinkReady(p)
    \/ HostPeerLeaves(p) \/ HostPeerCommand(p) \/ HostDropsCommand(p)
    \/ \E l \in Link : HostPeerDisconnected(p, l)

HostClient ==
    HostLocalCommand \/ HostLeaves \/ HostIsInterrupted \/ HostInputCloses

LinkStep(p) ==
    \/ \E l \in Link : WriterFails(p, l)
    \/ ConnectionIsLost(p)

JoinStep(p) ==
    \/ JoinCommand(p) \/ JoinLeaves(p)
    \/ JoinInputCloses(p) \/ JoinHearsEnd(p) \/ JoinFails(p)

RuntimeNext ==
    \/ HostClient \/ HostCrashes
    \/ \E p \in Process :
          Starting(p) \/ HostTurn(p) \/ Unregisters(p) \/ LinkStep(p) \/ JoinStep(p)

\* What happens by itself: handshakes and turns are made, a connection whose
\* other end is gone is found out, a joiner reads what it is sent.  Nobody has
\* to type anything, and nothing has to fail.
Progress ==
    \/ /\ HostServes
       /\ \E p \in Process \ {host} :
             \/ AcceptsConnection(p) \/ HandshakeEnds(p) \/ HostTurn(p)
             \/ Over(p) /\ ConnectionIsLost(p)
    \/ \E p \in {q \in Process : stage[q] \in {"greeting", "member"}} :
          ExchangesHello(p) \/ JoinHearsEnd(p) \/ JoinFails(p)

\* As long as a task can go on, one of them does.
Fairness == WF_vars(Progress)

RuntimeSpec == RuntimeInit /\ [][RuntimeNext]_vars /\ Fairness

-----------------------------------------------------------------------------
(* Every variable has its type, and events are kept only for a peer whose  *)
(* link the main loop has not heard of: what is flushed is flushed once.   *)
RuntimeTypeOK ==
    /\ stage \in [Process -> Stage]
    /\ session \in [Process -> SessionState \union {"Refused"}]
    /\ registered \in Process \union {NoProcess}
    /\ target \in [Process -> Process \union {NoProcess}]
    /\ inputClosed \in [Process -> BOOLEAN]
    /\ peerClosed \in [Process -> BOOLEAN]
    /\ \A p \in Process : outbox[p] \in Seq({"leave", "command"})
    /\ welcome \in [Process -> BOOLEAN]
    /\ host \in Process \union {NoProcess}
    /\ accepting \in Process \union {NoProcess}
    /\ arrived \subseteq Process /\ members \subseteq Process
    /\ peers \subseteq Process /\ entered \in BOOLEAN
    /\ view \in [Process -> SUBSET Process]
    /\ pending \in [Process -> Nat]
    /\ \A p \in Process : pending[p] > 0 => p \in peers /\ peerLink[p] # "ready"
    /\ peerLink \in [Process -> {"none", "opening", "opened", "ready"}]
    /\ conn \in [Process -> {"none", "up", "lost"}]
    /\ writer \in [Process -> [Link -> {"none", "idle", "used", "busy", "dead", "closed"}]]
    /\ readers \in [Process -> SUBSET Link]
    /\ commands \in 0..MaxCommands /\ faults \in 0..MaxFaults

(* A turn leaves the room, the handles and what every joiner has been sent *)
(* or will be in step: the members are the host and the peers it has a     *)
(* handle of, and each of those has been told exactly this roster, however *)
(* joins, departures and lost connections interleave with the opening of   *)
(* the peer links.                                                         *)
RosterIsShared ==
    HostServes =>
        /\ members = peers \union {host}
        /\ \A p \in peers : view[p] = members

(* No process ever records a session event its SessionMachine refuses: not *)
(* one that joins, becomes the host and lets several joiners in, nor one   *)
(* that loses the race for the room.                                       *)
SessionsAreOrderly == \A p \in Process : session[p] # "Refused"

(* The end of a member's process does not stop a host that only serves:    *)
(* the room ends when its host is told to, or its input is closed and the  *)
(* last peer has gone.  (docs/room-architecture.md asks for in-band errors *)
(* instead of process-level failures.)                                     *)
HostSurvivesMembers == host # NoProcess => stage[host] # "failed"

(* The handshakes are made one after the other; one that dies in the       *)
(* middle does not keep the joiners behind it waiting.                     *)
GreetersAreServed == []<>(\A p \in Process : stage[p] # "greeting")

(* A member whose process is over is dropped from the room, also when it   *)
(* ended before the host had heard of it, or before its peer link opened.  *)
GoneAreDropped ==
    []<>(HostServes => \A p \in members \ {host} : ~Over(p))

(* A joiner that has sent leave_room ends: the host drops its handle, the  *)
(* writers finish, and the joiner reads the end of its authority link.     *)
Leaving(p) ==
    /\ stage[p] = "member" /\ inputClosed[p]
    /\ \/ \E i \in DOMAIN outbox[p] : outbox[p][i] = "leave"
       \/ welcome[p] /\ p \notin members

LeaversEnd == []<>(\A p \in Process : ~Leaving(p))

(* A host whose input is closed while it has peers ends once all of them   *)
(* are gone, whether they left or were lost.                               *)
HostFollowsItsPeers ==
    (/\ HostServes /\ inputClosed[host] /\ peers # {}
     /\ \A p \in Process \ {host} : Over(p)) ~> ~HostServes
=============================================================================
