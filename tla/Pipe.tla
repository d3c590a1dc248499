-------------------------------- MODULE Pipe --------------------------------
(***************************************************************************)
(* Pipe mode (skyffla-cli/src/runtime/pipe.rs and the pipe streams of      *)
(* skyffla-transport/src/lib.rs): one member of a room, the source, copies *)
(* its stdin to every other member.  The host keeps the room engine and    *)
(* routes events on the authority links; the source opens channels, takes  *)
(* the receivers' streams in and hands them to a broadcast task; receivers *)
(* grant credit as they write to stdout.                                   *)
(*                                                                         *)
(* Member "m<i>" is i, the host is m1.  Channel "pipe-1" is 0, the channel *)
(* "pipe-1-m<i>" of a late receiver is i.  Bytes are their positions in    *)
(* stdin.  Introductions travel ahead of every event that needs their      *)
(* tickets on the same link, so they are left out.  One member sends; with *)
(* one source nobody rejects a channel.                                    *)
(***************************************************************************)
EXTENDS Naturals, Sequences, SequencesExt

CONSTANTS
  MaxMemberIndex,   \* bound: members that ever join, the host included
  Sources,          \* which members may be the source
  MayBeOld,         \* joiners that may lack pipe support
  SourceLength,     \* bound: bytes on the source's stdin
  Window,           \* TRANSFER_WINDOW_BYTES
  Grant,            \* TRANSFER_CREDIT_GRANT_BYTES
  Chunk,            \* PIPE_CHUNK_BYTES
  MaxFaults,        \* bound: crashes, failing hellos and joiners without pipe support
  Prompt            \* do receivers end within the 250 ms that finish waits?

ASSUME PipeAssumption ==
  /\ MaxMemberIndex \in Nat \ {0, 1}
  /\ Sources \subseteq 1 .. MaxMemberIndex
  /\ MayBeOld \subseteq 2 .. MaxMemberIndex
  /\ SourceLength \in Nat /\ MaxFaults \in Nat
  /\ Window \in Nat \ {0} /\ Chunk \in Nat \ {0}
  /\ Grant \in 1 .. Window
  /\ Prompt \in BOOLEAN

Host     == 1
MemberId == 1 .. MaxMemberIndex
Joiner   == MemberId \ {Host}
Nobody   == 0
PipeId   == 0                       \* PIPE_CHANNEL_ID
LateId(m) == m                      \* next_late_channel_id
ToAll    == 0                       \* Route::All

VARIABLES
  source,    \* the member in send mode
  old,       \* joiners without pipe support
  proc,      \* per member: where its process is
  up,        \* is the source's transport open?
  host,      \* the host: room engine, peer handles, authority links, and its end
  deaf,      \* joiners whose link writer at the host has given up
  toHost,    \* per joiner: commands on its authority link, then "end"
  snd,       \* PipeSenderState, and JoinPipeState's members for a joiner
  gate,      \* the pipe accept loop, and the streams it has passed on
  cast,      \* run_pipe_broadcast
  flow,      \* per member: its pipe stream, as a receiver
  faults     \* faults so far

pipeVars == <<source, old, proc, up, host, deaf, toHost, snd, gate, cast, flow, faults>>

Running(m) == proc[m] = "running"
IsSender(m) == m = source

NoFlow == [stage |-> "none", wire |-> <<>>, fin |-> "open", grants |-> <<>>,
           pending |-> 0, out |-> <<>>]

PipeInit ==
  /\ source \in Sources
  /\ old \in SUBSET (MayBeOld \ {source})
  /\ proc = [m \in MemberId |-> IF m = Host THEN "running" ELSE "absent"]
  /\ up = TRUE
  /\ host = [members |-> {Host}, next |-> 2, channels |-> [c \in {} |-> {}], peers |-> {},
             authority |-> [j \in Joiner |-> <<>>], failed |-> FALSE]
  /\ deaf = {}
  /\ toHost = [j \in Joiner |-> <<>>]
  /\ snd = [opened |-> FALSE, targets |-> {}, late |-> {}, streams |-> {},
            known |-> {}, welcomed |-> FALSE]
  /\ gate = [accepting |-> Nobody, arrivals |-> <<>>]
  /\ cast = [task |-> "idle", receivers |-> [m \in {} |-> 0], commands |-> <<>>,
             pos |-> 0, initial |-> {}]
  /\ flow = [m \in MemberId |-> NoFlow]
  /\ faults = Cardinality(old) /\ faults <= MaxFaults

-----------------------------------------------------------------------------
(* What a host handler does to the host, h -> h.  A handler that returns   *)
(* Err sets failed, and the rest of it no longer matters.                  *)

Message(type, c, ms) == [type |-> type, on |-> c, ms |-> ms]

\* deliver_authority_events, send_link_message: an error when the writer of one
\* recipient has dropped its queue.  A recipient without a handle is passed over.
Tell(h, to, msg) ==
  IF to \cap h.peers \cap deaf # {}
  THEN [h EXCEPT !.failed = TRUE]
  ELSE [h EXCEPT !.authority =
          [j \in Joiner |-> IF j \in to \cap h.peers THEN Append(@[j], msg) ELSE @[j]]]

LeftButInChannels(h, m) == [h EXCEPT !.members = @ \ {m}]   \* bug: channels are not pruned

\* RoomEngine::leave: channels left with one participant go.
Left(h, m) ==
  IF m \notin h.members THEN h
  ELSE [h EXCEPT !.members = @ \ {m},
                 !.channels = [c \in {d \in DOMAIN @ : Cardinality(@[d] \ {m}) > 1} |->
                                 @[c] \ {m}]]

\* RoomEngine::open_channel, and channel_opened to its audience
Opened(h, from, c, to) ==
  LET audience == {from} \cup (IF to = ToAll THEN h.members ELSE {to})
  IN  IF from \notin h.members \/ c \in DOMAIN h.channels
      THEN [h EXCEPT !.failed = TRUE]
      ELSE Tell([h EXCEPT !.channels = [d \in DOMAIN @ \cup {c} |->
                                          IF d = c THEN audience ELSE @[d]]],
                audience \ {from}, Message("opened", c, {from}))

\* accept_channel and close_channel want a participant.
Accepted(h, m, c) ==
  IF c \in DOMAIN h.channels /\ m \in h.channels[c]
  THEN Tell(h, h.channels[c] \ {m}, Message("accepted", c, {m}))
  ELSE [h EXCEPT !.failed = TRUE]

Closed(h, m, c) ==
  IF c \in DOMAIN h.channels /\ m \in h.channels[c]
  THEN LET rest == h.channels[c] \ {m}
       IN  Tell([h EXCEPT !.channels = IF Cardinality(rest) > 1
                                       THEN [@ EXCEPT ![c] = rest]
                                       ELSE [d \in DOMAIN @ \ {c} |-> @[d]]],
                rest, Message("closed", c, {m}))
  ELSE [h EXCEPT !.failed = TRUE]

\* The host's state after a handler; an error ends its loop.
HostBecomes(h) ==
  /\ host' = h
  /\ proc' = IF h.failed THEN [proc EXCEPT ![Host] = "failed"] ELSE proc

-----------------------------------------------------------------------------
(* PipeSenderState.                                                        *)

ChannelOf(s, m) == IF m \in s.late THEN LateId(m) ELSE PipeId   \* member_channels
OpenChannelIds(s) == {ChannelOf(s, m) : m \in s.targets}

Started == cast.task # "idle"
Ready(s) == ~Started /\ s.targets # {} /\ s.streams = s.targets

WithTargets(s, ms) == [s EXCEPT !.opened = TRUE, !.targets = ms]
WithLate(s, m) == [s EXCEPT !.targets = @ \cup {m}, !.late = @ \cup {m}]

WithoutTarget(s, m) ==
  [s EXCEPT !.targets = @ \ {m}, !.late = @ \ {m}, !.streams = @ \ {m}]

Command(type, m) == [type |-> type, of |-> m]

\* remove_member: the task hears of it too.
ForgetReceiver(m) ==
  /\ snd' = WithoutTarget(snd, m)
  /\ cast' = IF Started THEN [cast EXCEPT !.commands = Append(@, Command("remove", m))]
             ELSE cast

NewReceiver == [credit |-> 0, active |-> FALSE]

\* start_broadcast; who is served from the first byte is kept as history.
StartedWith(s) ==
  [cast EXCEPT !.task = "running", !.initial = s.streams,
               !.receivers = [m \in s.streams |-> NewReceiver]]

\* attach_stream: the stream of m waits for the start, or is handed to the task.
Attaches(m) ==
  IF Started
  THEN /\ cast' = [cast EXCEPT !.commands = Append(@, Command("add", m))]
       /\ UNCHANGED snd
  ELSE LET s == [snd EXCEPT !.streams = @ \cup {m}]
       IN  IF Ready(s)    \* maybe_start_host_sender_stream, and the joiner's
           THEN cast' = StartedWith(s) /\ snd' = [s EXCEPT !.streams = {}]
           ELSE snd' = s /\ UNCHANGED cast

-----------------------------------------------------------------------------
(* The host's loop.                                                        *)

\* handle_pipe_host_peer_connected: introductions, welcome and snapshot to the
\* newcomer, member_joined to the others.
Admitted(h) ==
  LET j == h.next
      everyone == h.members \cup {j}
      told == Tell(h, h.peers, Message("joined", PipeId, {j}))
  IN  [told EXCEPT
         !.next = j + 1, !.members = everyone, !.peers = @ \cup {j},
         !.authority[j] = <<Message("welcome", PipeId, {j}),
                            Message("snapshot", PipeId, everyone)>>]

\* maybe_open_host_pipe_sender
FirstOpening(h) ==
  IF h.peers \cap old # {} THEN [h EXCEPT !.failed = TRUE]
  ELSE Opened(h, Host, PipeId, ToAll)

\* maybe_open_host_late_pipe_receiver: one of the peers that are no targets
LateOpening(h, m) ==
  IF m \in old THEN [h EXCEPT !.failed = TRUE] ELSE Opened(h, Host, LateId(m), m)

HostAccepts ==
  LET j == host.next
      h == Admitted(host)
      missing == h.peers \ snd.targets
      first == IsSender(Host) /\ ~snd.opened /\ ~h.failed
      later == IsSender(Host) /\ cast.task \in {"running", "finishing", "over"} /\ ~h.failed /\ missing # {}
      g == IF first THEN FirstOpening(h)
           ELSE IF later THEN LateOpening(h, Min(missing)) ELSE h
  IN
  /\ Running(Host)
  /\ j <= MaxMemberIndex
  /\ host' = g
  /\ proc' = [proc EXCEPT ![j] = "running", ![Host] = IF g.failed THEN "failed" ELSE @]
  /\ snd' = IF first THEN WithTargets(snd, h.peers)
            ELSE IF later THEN WithLate(snd, Min(missing)) ELSE snd
  /\ UNCHANGED <<source, old, up, deaf, toHost, gate, cast, flow, faults>>

\* handle_host_local_pipe_event: is the host on the audience of a new channel?
\* Then it accepts, and dials the source.
HostIsOffered(h, c) == ~h.failed /\ Host \in h.channels[c]

HostTakesOffer(h, c) ==
  IF HostIsOffered(h, c)
  THEN /\ HostBecomes(Accepted(h, Host, c))
       /\ flow' = [flow EXCEPT ![Host].stage = "dialed"]
  ELSE HostBecomes(h) /\ UNCHANGED flow

\* send_command_error_to_peer
Refuses(j, c) == HostBecomes(Tell(host, {j}, Message("error", c, {})))

\* A source that is a joiner asks for a channel.  The host checks that every
\* peer on the route knows pipes.
HostOpens(j, c, to) ==
  LET incapable == IF to = ToAll THEN host.peers \cap old # {}
                   ELSE to # Host /\ (to \notin host.peers \/ to \in old)
  IN  IF incapable THEN Refuses(j, c) /\ UNCHANGED flow
      ELSE HostTakesOffer(Opened(host, j, c, to), c)

\* PeerDisconnected; member_left is not sent to anybody.
HostDropsPeer(j) ==
  /\ HostBecomes([Left(host, j) EXCEPT !.peers = @ \ {j}])
  /\ IF IsSender(Host) THEN ForgetReceiver(j) ELSE UNCHANGED <<snd, cast>>
  /\ UNCHANGED flow

HostHandlesCommand(j) ==
  /\ Running(Host)
  /\ toHost[j] # <<>>
  /\ toHost' = [toHost EXCEPT ![j] = Tail(@)]
  /\ LET e == Head(toHost[j])
         stays == UNCHANGED <<snd, cast, flow>>
     IN  \/ e.type = "open" /\ HostOpens(j, e.on, e.to) /\ UNCHANGED <<snd, cast>>
         \/ e.type = "accept" /\ HostBecomes(Accepted(host, j, e.on)) /\ stays
         \/ e.type = "close" /\ HostBecomes(Closed(host, j, e.on)) /\ stays
         \/ /\ e.type = "leave"
            /\ HostBecomes([Left(host, j) EXCEPT !.peers = @ \ {j}])
            /\ stays
         \/ e.type = "end" /\ HostDropsPeer(j)
  /\ UNCHANGED <<source, old, up, deaf, gate, faults>>

-----------------------------------------------------------------------------
(* Joiners.                                                                *)

\* A process ends: its streams to the host end too, and what the host has not
\* read of them may be lost with the connection.  (A part of it that is not lost
\* might as well have been read before.)  Nobody reads them when the host is gone.
EndsLink(j, said) ==
  LET all == toHost[j] \o said
      end == <<[type |-> "end"]>>
  IN  IF Running(Host)
      THEN \E kept \in {<<>>, all} : toHost' = [toHost EXCEPT ![j] = kept \o end]
      ELSE UNCHANGED toHost

Says(j, type, c, to) == Append(toHost[j], [type |-> type, on |-> c, to |-> to])

\* The joiner's next message.  Those sent last may be lost when the host goes.
HostGone == IF IsSender(Host) THEN ~up ELSE ~Running(Host)
HasNext(j) == Running(j) /\ host.authority[j] # <<>>

\* handle_join_machine_event in receive mode: channel_opened is answered, what
\* comes before it changes nothing and is read with it.  While its stream runs
\* the joiner reads no more events.
ReceiverReads(j) ==
  LET q == host.authority[j]
      i == SelectInSeq(q, LAMBDA e : e.type = "opened")
  IN
  /\ HasNext(j) /\ ~IsSender(j) /\ flow[j].stage = "none"
  /\ host' = [host EXCEPT !.authority[j] = IF i = 0 THEN <<>> ELSE SubSeq(q, i + 1, Len(q))]
  /\ IF i = 0 THEN UNCHANGED <<toHost, flow>>
     ELSE /\ toHost' = [toHost EXCEPT ![j] = Says(j, "accept", q[i].on, ToAll)]
          /\ flow' = [flow EXCEPT ![j].stage = "dialed"]
  /\ UNCHANGED <<source, old, proc, up, deaf, snd, gate, cast, faults>>

\* maybe_open_join_pipe_sender and maybe_open_join_late_pipe_receiver: whether,
\* and what is remembered and sent then.
MayOpen(s, j) == ~s.opened /\ s.welcomed /\ s.known \ {j} # {}
MayOpenLate(s, m) == Started /\ m \notin s.targets

OpensToAll(s, j) ==
  /\ snd' = WithTargets(s, s.known \ {j})
  /\ toHost' = [toHost EXCEPT ![j] = Says(j, "open", PipeId, ToAll)]

OpensToLate(s, j, m) ==
  /\ snd' = WithLate(s, m)
  /\ toHost' = [toHost EXCEPT ![j] = Says(j, "open", LateId(m), m)]

\* handle_join_machine_event in send mode.  The accept of a target would start
\* the stream, and end the loop, if its streams were complete: they start it
\* themselves when they come in, so only the guard is left here.
SenderReads(j) ==
  /\ HasNext(j) /\ IsSender(j)
  /\ host' = [host EXCEPT !.authority[j] = Tail(@)]
  /\ LET e == Head(host.authority[j])
         s == CASE e.type = "welcome"  -> [snd EXCEPT !.welcomed = TRUE]
                [] e.type = "snapshot" -> [snd EXCEPT !.known = e.ms]
                [] e.type = "joined"   -> [snd EXCEPT !.known = @ \cup e.ms]
                [] OTHER -> snd
         opens == e.type \in {"welcome", "snapshot", "joined"} /\ MayOpen(s, j)
         late == {m \in e.ms : e.type = "joined" /\ ~opens /\ MayOpenLate(s, m)}
         fails == e.type = "error"
     IN  /\ IF opens THEN OpensToAll(s, j)
            ELSE IF late # {} THEN OpensToLate(s, j, Min(late))
            ELSE snd' = s /\ UNCHANGED toHost
         /\ IF fails THEN proc' = [proc EXCEPT ![j] = "failed"] ELSE UNCHANGED proc
  /\ UNCHANGED <<source, old, up, deaf, gate, cast, flow, faults>>

\* The end of the authority link ends a joiner, unless it is streaming already.
JoinerSeesHostEnd(j) ==
  /\ Running(j) /\ flow[j].stage = "none"
  /\ ~Running(Host)
  /\ host.authority[j] = <<>> \/ HostGone
  /\ ~(IsSender(j) /\ Started)
  /\ proc' = [proc EXCEPT ![j] = "failed"]
  /\ IF IsSender(j) THEN UNCHANGED toHost ELSE EndsLink(j, <<>>)
  /\ UNCHANGED <<source, old, up, host, deaf, snd, gate, cast, flow, faults>>

\* The writer of a link to a process that has ended stops at its first failure.
WriterFails(j) ==
  /\ Running(Host) /\ j \in host.peers \ deaf
  /\ proc[j] \in {"ok", "failed", "crashed"} /\ (IsSender(j) => ~up)
  /\ host.authority[j] # <<>>
  /\ deaf' = deaf \cup {j}
  /\ UNCHANGED <<source, old, proc, up, host, toHost, snd, gate, cast, flow, faults>>

-----------------------------------------------------------------------------
(* The source's accept loop: one connection at a time.                     *)

Gone(m) == proc[m] \in {"ok", "failed", "crashed"}

\* accept_pipe_stream: the request is read and answered ready, ...
BeginAccept(m) ==
  /\ Running(source) /\ gate.accepting = Nobody
  /\ flow[m].stage = "dialed" /\ ~Gone(m)
  /\ gate' = [gate EXCEPT !.accepting = m]
  /\ flow' = [flow EXCEPT ![m].stage = "answered"]
  /\ UNCHANGED <<source, old, proc, up, host, deaf, toHost, snd, cast, faults>>

\* ... then the credit stream is awaited.
EndAccept(m) ==
  /\ Running(source) /\ gate.accepting = m
  /\ flow[m].stage = "open"
  /\ gate' = [accepting |-> Nobody, arrivals |-> Append(gate.arrivals, m)]
  /\ UNCHANGED <<source, old, proc, up, host, deaf, toHost, snd, cast, flow, faults>>

\* A receiver that goes in between makes it an error, which is passed on too.
AcceptFails(m) ==
  /\ Running(source) /\ Gone(m)
  /\ \/ flow[m].stage = "dialed" /\ gate.accepting = Nobody
     \/ flow[m].stage = "answered" /\ gate.accepting = m
  /\ gate' = [accepting |-> Nobody, arrivals |-> Append(gate.arrivals, Nobody)]
  /\ flow' = [flow EXCEPT ![m].stage = "ended"]
  /\ UNCHANGED <<source, old, proc, up, host, deaf, toHost, snd, cast, faults>>

SourceEnds(how) == proc' = [proc EXCEPT ![source] = how]

\* handle_sender_pipe_stream and maybe_start_..._sender_stream: a stream nobody
\* expects, or that comes when the task has ended, ends the source.
SourceTakesStream ==
  LET m == Head(gate.arrivals)
      expected == m \in snd.targets
  IN
  /\ Running(source) /\ gate.arrivals # <<>>
  /\ gate' = [gate EXCEPT !.arrivals = Tail(@)]
  /\ \/ /\ ~expected \/ cast.task = "over"
        /\ SourceEnds("failed")
        /\ UNCHANGED <<snd, cast>>
     \/ /\ expected /\ cast.task # "over"
        /\ Attaches(m)
        /\ UNCHANGED proc
  /\ UNCHANGED <<source, old, up, host, deaf, toHost, flow, faults>>

\* close_host_pipe_channels: one after the other, until one has gone.
AllClosed(h, ids) ==
  LET rest(c) == h.channels[c] \ {Host}
      done == {c \in ids : \A d \in ids : d <= c => ~Closed(h, Host, d).failed}
      news(j) == SetToSeq({c \in done : j \in rest(c) \cap h.peers})
  IN  [h EXCEPT
         !.channels = [c \in {d \in DOMAIN @ : d \in done => Cardinality(rest(d)) > 1} |->
                         IF c \in done THEN rest(c) ELSE @[c]],
         !.authority = [j \in Joiner |->
            @[j] \o [i \in DOMAIN news(j) |-> Message("closed", news(j)[i], {Host})]],
         !.failed = done # ids]

\* broadcast_done
SourceCompletes ==
  /\ Running(source) /\ cast.task = "over"
  /\ IF IsSender(Host)
     THEN LET h == AllClosed(host, OpenChannelIds(snd))
          IN  /\ host' = [h EXCEPT !.failed = FALSE]
              /\ SourceEnds(IF h.failed THEN "failed" ELSE "ok")
              /\ UNCHANGED toHost
     ELSE /\ LET ids == SetToSeq(OpenChannelIds(snd))
             IN  toHost' = [toHost EXCEPT ![source] = @ \o
                   [i \in DOMAIN ids |-> [type |-> "close", on |-> ids[i], to |-> ToAll]]]
          /\ SourceEnds("ok")
          /\ UNCHANGED host
  /\ UNCHANGED <<source, old, up, deaf, snd, gate, cast, flow, faults>>

-----------------------------------------------------------------------------
(* run_pipe_broadcast.  Commands are taken before each round and while the *)
(* task waits; the channel they come on closes with the source's loop.     *)

Receivers == DOMAIN cast.receivers
Without(rs, ms) == [m \in DOMAIN rs \ ms |-> rs[m]]

\* A receiver that has not granted anything yet holds up the others.
Pending == {m \in Receivers : ~cast.receivers[m].active}
Blocked == {m \in Receivers : cast.receivers[m].credit = 0}

TaskUnchanged == UNCHANGED <<source, old, proc, up, host, deaf, toHost, snd, gate, faults>>

\* apply_broadcast_command
TaskObeys ==
  /\ cast.task = "running" /\ cast.commands # <<>>
  /\ LET c == Head(cast.commands)
     IN  cast' = [cast EXCEPT
           !.commands = Tail(@),
           !.receivers = IF c.type = "add"
                         THEN [m \in DOMAIN @ \cup {c.of} |->
                                 IF m = c.of THEN NewReceiver ELSE @[m]]
                         ELSE Without(@, {c.of})]
  /\ UNCHANGED flow /\ TaskUnchanged

TaskSeesNoCommand ==                   \* bug: an empty queue is taken for a closed one
  /\ cast.task = "running" /\ cast.commands = <<>>
  /\ cast' = [cast EXCEPT !.task = "finishing"]
  /\ UNCHANGED flow /\ TaskUnchanged

TaskIsLeft ==
  /\ cast.task = "running" /\ cast.commands = <<>> /\ ~Running(source)
  /\ cast' = [cast EXCEPT !.task = "finishing"]
  /\ UNCHANGED flow /\ TaskUnchanged

\* wait_for_receiver_credit, for the first pending receiver or else the first
\* one without credit; an error drops it.
Awaited == IF Pending # {} THEN Min(Pending) ELSE Min(Blocked)

TaskAwaitsCredit ==                    \* bug: a credit stream that ends is not an error
  /\ cast.task = "running" /\ Pending \cup Blocked # {}
  /\ LET m == Awaited
     IN  /\ flow[m].grants # <<>>
         /\ cast' = [cast EXCEPT !.receivers[m] =
                       [credit |-> @.credit + Head(flow[m].grants), active |-> TRUE]]
         /\ flow' = [flow EXCEPT ![m].grants = Tail(@)]
  /\ TaskUnchanged

TaskGetsCredit ==
  /\ cast.task = "running" /\ Pending \cup Blocked # {}
  /\ LET m == Awaited
     IN  \/ /\ flow[m].grants # <<>>
            /\ cast' = [cast EXCEPT !.receivers[m] =
                          [credit |-> @.credit + Head(flow[m].grants), active |-> TRUE]]
            /\ flow' = [flow EXCEPT ![m].grants = Tail(@)]
         \/ /\ flow[m].grants = <<>> /\ Gone(m)
            /\ cast' = [cast EXCEPT !.receivers = Without(@, {m})]
            /\ UNCHANGED flow
  /\ TaskUnchanged

WholeChunk == Chunk                    \* bug: the credits are not asked

\* chunk_len: no more than the receiver with the least credit allows.
ChunkLimit == Min({cast.receivers[m].credit : m \in Receivers} \cup {Chunk})

Bytes(from, n) == [i \in 1 .. n |-> from + i]

TaskSkipsSlow ==                       \* bug: receivers without credit miss the round
  /\ cast.task = "running" /\ Receivers \ Blocked # {} /\ Pending = {}
  /\ cast.pos < SourceLength
  /\ cast' = [cast EXCEPT
       !.pos = @ + 1,
       !.receivers = [m \in DOMAIN @ |-> IF m \in Blocked THEN @[m]
                                         ELSE [@[m] EXCEPT !.credit = @ - 1]]]
  /\ flow' = [m \in MemberId |->
       IF m \in Receivers \ Blocked /\ Running(m)
       THEN [flow[m] EXCEPT !.wire = @ \o Bytes(cast.pos, 1)] ELSE flow[m]]
  /\ TaskUnchanged

\* One read of stdin goes to every receiver; a write may find one gone.
TaskCopies ==
  /\ cast.task = "running" /\ Receivers # {} /\ Pending = {}
  /\ \E n \in 1 .. Chunk, lost \in SUBSET {m \in Receivers : Gone(m)} :
       /\ n <= ChunkLimit /\ cast.pos + n <= SourceLength
       /\ cast' = [cast EXCEPT
            !.pos = @ + n,
            !.receivers = [m \in DOMAIN @ \ lost |->
                             [credit |-> @[m].credit - n, active |-> @[m].active]]]
       /\ flow' = [m \in MemberId |->
            IF m \in Receivers \ lost /\ Running(m)
            THEN [flow[m] EXCEPT !.wire = @ \o Bytes(cast.pos, n)] ELSE flow[m]]
  /\ TaskUnchanged

TaskReadsEnd ==
  /\ cast.task = "running" /\ Receivers # {} /\ Pending = {} /\ Blocked = {}
  /\ cast.pos = SourceLength
  /\ cast' = [cast EXCEPT !.task = "finishing"]
  /\ UNCHANGED flow /\ TaskUnchanged

\* IncomingPipeStream::finish, one receiver after the other: each is waited for
\* until it ends its side, for 250 ms at most.
Unfinished == {m \in Receivers : flow[m].fin = "open"}
Waited == ~Prompt \/ \A m \in Receivers \ Unfinished : Gone(m)

TaskFinishes ==
  /\ cast.task = "finishing" /\ Waited
  /\ IF Unfinished = {}
     THEN cast' = [cast EXCEPT !.task = "over"] /\ UNCHANGED flow
     ELSE flow' = [flow EXCEPT ![Min(Unfinished)].fin = "finished"] /\ UNCHANGED cast
  /\ TaskUnchanged

-----------------------------------------------------------------------------
(* receive_pipe_stream_to_writer.                                          *)

\* The receiver's process is done with its stream.  A host that receives ends
\* its loop; a joiner leaves the room if it can, and exits.
StreamEnds(m, how) ==
  /\ proc' = [proc EXCEPT ![m] = how]
  /\ IF m = Host THEN UNCHANGED toHost
     ELSE EndsLink(m, IF how = "ok" THEN <<[type |-> "leave"]>> ELSE <<>>)

OpensCredit(m) ==
  /\ Running(m) /\ flow[m].stage = "answered" /\ up
  /\ flow' = [flow EXCEPT ![m].stage = "open", ![m].grants = <<Window>>]
  /\ UNCHANGED <<source, old, proc, up, host, deaf, toHost, snd, gate, cast, faults>>

WritesOutGrantingLate(m) ==            \* bug: > for >=
  LET f == flow[m]
      pending == f.pending + 1
      due == pending > Grant
  IN
  /\ Running(m) /\ f.stage = "open" /\ f.wire # <<>>
  /\ flow' = [flow EXCEPT ![m].out = Append(@, Head(f.wire)), ![m].wire = Tail(@),
                          ![m].pending = IF due THEN 0 ELSE pending,
                          ![m].grants = IF due THEN Append(@, pending) ELSE @]
  /\ UNCHANGED <<source, old, proc, up, host, deaf, toHost, snd, gate, cast, faults>>

\* Bytes are written out before they count towards the next grant.
WritesOut(m) ==
  LET f == flow[m]
      pending == f.pending + 1
      due == pending >= Grant
  IN
  /\ Running(m) /\ f.stage = "open" /\ f.wire # <<>>
  /\ flow' = [flow EXCEPT ![m].out = Append(@, Head(f.wire)), ![m].wire = Tail(@),
                          ![m].pending = IF due THEN 0 ELSE pending,
                          ![m].grants = IF due THEN Append(@, pending) ELSE @]
  /\ UNCHANGED <<source, old, proc, up, host, deaf, toHost, snd, gate, cast, faults>>

\* End of stream, or an error: the source refused, went away, or could not be
\* reached at all.
StreamIsOver(m) ==
  /\ Running(m) /\ flow[m].stage \in {"dialed", "answered", "open"}
  /\ flow[m].wire = <<>>
  /\ \/ flow[m].fin = "finished" /\ StreamEnds(m, "ok")
     \/ flow[m].fin # "finished" /\ ~up /\ StreamEnds(m, "failed")
  /\ UNCHANGED <<source, old, up, host, deaf, snd, gate, cast, flow, faults>>

-----------------------------------------------------------------------------
(* Ends and faults.                                                        *)

\* What the source's connections still carry may go with them.
CutStreams ==
  \E cut \in SUBSET {m \in MemberId : /\ Running(m) /\ flow[m].stage = "open"
                                      /\ flow[m].wire # <<>> \/ flow[m].fin = "finished"} :
    flow' = [m \in MemberId |->
               IF m \in cut \/ flow[m].fin = "open"
               THEN [flow[m] EXCEPT !.fin = "lost", !.wire = IF m \in cut THEN <<>> ELSE @]
               ELSE flow[m]]

\* The source's process and its tasks are gone.
SourceIsGone ==
  /\ up' = FALSE
  /\ CutStreams
  /\ gate' = [accepting |-> Nobody, arrivals |-> <<>>]
  /\ cast' = [cast EXCEPT !.task = IF @ = "idle" THEN @ ELSE "over",
                          !.receivers = [m \in {} |-> NewReceiver], !.commands = <<>>]

\* delete_room and transport.close, after the loop has ended.
SourceExits ==
  /\ up /\ proc[source] \in {"ok", "failed"}
  /\ SourceIsGone
  /\ IF IsSender(Host) THEN UNCHANGED toHost ELSE EndsLink(source, <<>>)
  /\ UNCHANGED <<source, old, proc, host, deaf, snd, faults>>

Crash(m) ==
  /\ faults < MaxFaults /\ Running(m)
  /\ faults' = faults + 1
  /\ proc' = [proc EXCEPT ![m] = "crashed"]
  /\ IF m = Host THEN UNCHANGED toHost ELSE EndsLink(m, <<>>)
  /\ IF IsSender(m)
     THEN SourceIsGone ELSE UNCHANGED <<up, gate, cast, flow>>
  /\ UNCHANGED <<source, old, host, deaf, snd>>

\* PeerProtocolError: a joiner fails in its hello, has another wire version, or
\* is gone before the host opens its peer link.
HelloFails ==
  /\ faults < MaxFaults /\ Running(Host)
  /\ faults' = faults + 1
  /\ proc' = [proc EXCEPT ![Host] = "failed"]
  /\ UNCHANGED <<source, old, up, host, deaf, toHost, snd, gate, cast, flow>>

-----------------------------------------------------------------------------
HostStep   == \E j \in Joiner : HostHandlesCommand(j)
JoinerStep(j) == ReceiverReads(j) \/ SenderReads(j) \/ JoinerSeesHostEnd(j)
GateStep   == \E m \in MemberId : BeginAccept(m) \/ EndAccept(m) \/ AcceptFails(m)
SourceStep == SourceTakesStream \/ SourceCompletes \/ SourceExits
TaskStep   == \/ TaskObeys \/ TaskIsLeft \/ TaskGetsCredit \/ TaskCopies
              \/ TaskReadsEnd \/ TaskFinishes
StreamStep(m) == OpensCredit(m) \/ WritesOut(m) \/ StreamIsOver(m)

PipeNext ==
  \/ HostAccepts \/ HostStep
  \/ \E j \in Joiner : JoinerStep(j) \/ WriterFails(j)
  \/ GateStep \/ SourceStep \/ TaskStep
  \/ \E m \in MemberId : StreamStep(m) \/ Crash(m)
  \/ HelloFails

\* Every loop, task and process runs on; stdin ends and stdout takes what it is
\* given.  Nobody has to join, and nothing has to fail.
PipeSpec ==
  /\ PipeInit /\ [][PipeNext]_pipeVars
  /\ WF_pipeVars(HostStep) /\ WF_pipeVars(GateStep)
  /\ WF_pipeVars(SourceStep) /\ WF_pipeVars(TaskStep)
  /\ \A j \in Joiner : WF_pipeVars(JoinerStep(j))
  /\ \A m \in MemberId : WF_pipeVars(StreamStep(m))

-----------------------------------------------------------------------------
(* Properties.                                                             *)

ByteSeq == Seq(1 .. SourceLength)

\* Every part of the state has its type (pipe.rs, PipeSenderState,
\* PipeReceiverStream, JoinPipeState; RoomEngine).
PipeTypeOK ==
  /\ source \in Sources /\ old \subseteq MayBeOld /\ up \in BOOLEAN
  /\ proc \in [MemberId -> {"absent", "running", "ok", "failed", "crashed"}]
  /\ host.peers \subseteq Joiner /\ host.members \subseteq MemberId
  /\ \A c \in DOMAIN host.channels : host.channels[c] \subseteq host.members
  /\ deaf \subseteq Joiner
  /\ snd.late \subseteq snd.targets /\ snd.streams \subseteq snd.targets
  /\ source \notin snd.targets
  /\ Receivers \subseteq MemberId \ {source}
  /\ cast.pos \in 0 .. SourceLength
  /\ \A m \in Receivers : cast.receivers[m].credit \in 0 .. Window
  /\ \A m \in MemberId : flow[m].out \in ByteSeq /\ flow[m].wire \in ByteSeq

Stream(m) == flow[m].out \o flow[m].wire

\* Whoever joins, leaves or crashes, what a receiver has written out and has
\* under way is one unbroken piece of the source's stdin, from the first byte
\* for those the stream started with (run_pipe_broadcast, apply_broadcast_command).
StreamsAreUnbroken ==
  \A m \in MemberId :
    /\ \A i \in 2 .. Len(Stream(m)) : Stream(m)[i] = Stream(m)[i - 1] + 1
    /\ m \in cast.initial /\ Stream(m) # <<>> => Head(Stream(m)) = 1

\* No receiver has more under way than it has room for, however the credits of
\* several receivers, late ones among them, come in (chunk_len, read_credit).
WithinWindow == \A m \in MemberId : Len(flow[m].wire) <= Window

\* A receiver that ends without an error has everything to the end of stdin, from
\* its first byte on if the stream started with it, unless the source's own loop
\* has ended in an error: only then does its task finish streams that are not
\* complete (run_pipe_broadcast, start_broadcast).
EndMeansComplete ==
  \A m \in MemberId \ {source} :
    proc[m] = "ok" /\ proc[source] # "failed"
      => /\ m \in cast.initial => Len(flow[m].out) = SourceLength
         /\ flow[m].out # <<>> => Last(flow[m].out) = SourceLength

\* Once it has started, the broadcast never stands still for good while it has
\* receivers: credits come, or the receiver that owes them is dropped
\* (first_pending_receiver, first_blocked_active_receiver).
BroadcastMovesOn == Started ~> (cast.task = "over" \/ Receivers = {})

\* As long as nothing fails, whoever has accepted the pipe comes to an end, with
\* the whole stream or with an error, and does not wait for ever.  (Nobody
\* accepts twice, so "each one eventually" is "eventually all".)
Waiting(m) == flow[m].stage # "none" /\ Running(m)
ReceiversEnd == <>[](faults > 0 \/ \A m \in MemberId : ~Waiting(m))
=============================================================================
