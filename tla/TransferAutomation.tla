------------------------- MODULE TransferAutomation -------------------------
(***************************************************************************)
(* The --send and --receive modes (skyffla-cli/src/runtime/                *)
(* transfer_automation.rs): a controller that runs the machine protocol as *)
(* a child process, offers its path to every member once or accepts what   *)
(* it is offered, and - one-shot senders and stdout receivers - decides    *)
(* when its work is done and leaves.                                       *)
(*                                                                         *)
(* Every member of the room is such a program; the room itself is          *)
(* RoomEngine.  A controller reads an event when its machine does, and its *)
(* machine carries a command out when it is written, so stdin and stdout   *)
(* of the child have no queues of their own; what overtakes what on the    *)
(* room's links is RoomReplica's subject, one stream per member is enough  *)
(* here.  Digests stand for the published hash and always match; contents, *)
(* progress display and the clipboard modes are left out.                  *)
(***************************************************************************)
EXTENDS RoomEngine, Sequences, FiniteSets

CONSTANTS
  Modes,      \* how the members are started: functions from MemberId to Mode
  MaxFaults   \* bound: crashes of joiners, failed downloads and preparations

Mode   == {"send", "oneshot", "receive", "stdout"}
Sender == {"send", "oneshot"}
Joiner == MemberId \ {Host}

ASSUME AutomationAssumption ==
  /\ 1 .. MaxMemberIndex \subseteq ChannelId     \* "auto-<i>" is i
  /\ {"provisional", "digest"} \subseteq TransferOffer
  /\ "file" \in ChannelKind
  /\ Modes \subseteq [MemberId -> Mode]
  /\ MaxFaults \in Nat

VARIABLES
  mode,       \* per member: AutomationState.mode
  ctl,        \* per member: the rest of AutomationState, and how far it runs
  toHost,     \* per member: commands its machine has sent the host
  fromHost,   \* per member: events of the room it has not read yet
  own,        \* per member: events its machine made itself, not read yet
  copy,       \* per joiner: JoinState.channels
  hashing,    \* <<sender, channel>>: prepare tasks under way
  loads,      \* the downloads under way
  offers,     \* history: what has become of each offer a controller made
  faults      \* how many faults there have been

links     == <<toHost, fromHost, own>>
transfers == <<hashing, loads, offers>>
autoVars  == <<vars, mode, ctl, links, copy, transfers, faults>>

Run == {"absent", "running", "grace", "leaving", "failed", "over"}

Controller ==
  [run : Run,
   sent : SUBSET MemberId,                           \* sent_members
   pending : SUBSET (MemberId \X ChannelId),         \* pending_offers
   chans : SUBSET [on : ChannelId, dir : {"out", "in"}, peer : MemberId],
   next : Nat,                                       \* next_channel_index
   closed : BOOLEAN,                                 \* one_shot_targets_closed
   done : BOOLEAN]                                   \* stdout_receive_completed

CommandType ==
  [type : {"open"}, on : ChannelId, to : MemberId]
    \cup [type : {"accept", "reject", "close", "publish"}, on : ChannelId, to : {All}]
    \cup [type : {"leave"}, on : {NoChannel}, to : {All}]
EventType ==
  [type : {"member_snapshot"}, by : MemberId, on : {NoChannel}, roster : SUBSET MemberId]
    \cup [type : {"member_joined", "member_left", "room_closed"}, by : MemberId,
          on : {NoChannel}, roster : {{}}]
    \cup [type : {"channel_opened", "channel_accepted", "channel_rejected",
                  "channel_closed", "channel_transfer", "error"},
          by : MemberId, on : ChannelId, roster : {{}}]
OwnType ==
  [type : {"progress", "path_received", "error"}, by : MemberId, on : ChannelId, roster : {{}}]
EntryType == [on : ChannelId, from : MemberId, to : MemberId, digest : BOOLEAN]
LoadType  == [by : MemberId, on : ChannelId, from : MemberId, stage : {"asked", "arrived"}]
OfferType == [from : MemberId, to : MemberId, on : ChannelId,
              as : {"open", "refused", "saved", "failed"}]

Fresh(run) == [run |-> run, sent |-> {}, pending |-> {}, chans |-> {}, next |-> 1,
               closed |-> FALSE, done |-> FALSE]

Event0(type, by, c) == [type |-> type, by |-> by, on |-> c, roster |-> {}]
Snapshot(m, roster) == [type |-> "member_snapshot", by |-> m, on |-> NoChannel,
                        roster |-> roster]

AutomationInit ==
  /\ Init
  /\ mode \in Modes
  /\ ctl = [m \in MemberId |-> Fresh(IF m = Host THEN "running" ELSE "absent")]
  /\ toHost = [m \in MemberId |-> <<>>]
  /\ fromHost = [m \in MemberId |->
                   IF m = Host THEN <<Snapshot(Host, {Host})>> ELSE <<>>]
  /\ own = [m \in MemberId |-> <<>>]
  /\ copy = [j \in Joiner |-> {}]
  /\ hashing = {}
  /\ loads = {}
  /\ offers = {}
  /\ faults = 0

-----------------------------------------------------------------------------
(* The room.                                                               *)

Up(m)     == ctl[m].run \notin {"absent", "over"}     \* its machine runs
Serving   == Up(Host)
Writes(k) == k.run \in {"running", "grace"}           \* stdin is still there

\* deliver_routed_events, and the command error that goes back to the caller.
Delivered(m) ==
  fromHost' = [q \in MemberId |->
     IF q \in reply'.to
     THEN Append(fromHost[q], Event0(reply'.event, reply'.by, reply'.on))
     ELSE IF q = m /\ ~reply'.ok
     THEN Append(fromHost[q], Event0("error", m, reply'.on))
     ELSE fromHost[q]]

\* A joiner is let in: welcome and snapshot for it, member_joined for the others.
JoinRoom ==
  /\ Serving
  /\ Join
  /\ LET j == nextMemberIndex IN
     /\ ctl' = [ctl EXCEPT ![j].run = "running"]
     /\ fromHost' = [q \in MemberId |->
          IF q = j THEN <<Snapshot(j, members')>>
          ELSE IF q \in members THEN Append(fromHost[q], Event0("member_joined", j, NoChannel))
          ELSE fromHost[q]]
  /\ UNCHANGED <<mode, toHost, own, copy, transfers, faults>>

\* m's process is over: what it was sending and downloading ends with it.
Ends(m) ==
  /\ ctl' = [ctl EXCEPT ![m].run = "over"]
  /\ own' = [own EXCEPT ![m] = <<>>]
  /\ loads' = {d \in loads : d.by # m}
  /\ hashing' = {h \in hashing : h[1] # m}
  /\ copy' = [j \in Joiner |-> IF j = m THEN {} ELSE copy[j]]
  /\ UNCHANGED <<mode, offers>>

\* LeaveRoom of the host's machine, or of a joiner's, whose process ends when
\* its handle is dropped.
HostTakesLeave(m) ==
  /\ IF m = Host
     THEN /\ fromHost' = [q \in MemberId |->
               IF q \in members \ {Host}
               THEN Append(fromHost[q], Event0("room_closed", Host, NoChannel))
               ELSE <<>>]
          /\ UNCHANGED vars
     ELSE /\ Leave(m)
          /\ fromHost' = [q \in MemberId |->
               IF q = m THEN <<>>
               ELSE IF q \in reply'.to
               THEN Append(fromHost[q], Event0("member_left", m, NoChannel))
               ELSE fromHost[q]]
  /\ Ends(m)

\* The process of a joiner dies; the host learns of it from the connection.
Crash(j) ==
  /\ Serving /\ Up(j) /\ faults < MaxFaults
  /\ faults' = faults + 1
  /\ Leave(j)
  /\ fromHost' = [q \in MemberId |->
       IF q = j THEN <<>>
       ELSE IF q \in reply'.to
       THEN Append(fromHost[q], Event0("member_left", j, NoChannel))
       ELSE fromHost[q]]
  /\ toHost' = [toHost EXCEPT ![j] = <<>>]
  /\ Ends(j)

\* The offer s made on c has come to this.
Becomes(s, c, as) ==
  offers' = {IF f.from = s /\ f.on = c THEN [f EXCEPT !.as = as] ELSE f : f \in offers}

\* The engine's answer to a command of m.  The host itself starts its prepare
\* task and its downloads only now, and hears nothing of a digest or a close
\* its engine refuses.
HostTakesCommand(m) ==
  LET e == Head(toHost[m]) IN
  /\ Serving /\ toHost[m] # <<>>
  /\ toHost' = [toHost EXCEPT ![m] = IF e.type = "leave" THEN <<>> ELSE Tail(@)]
  /\ \/ e.type = "leave" /\ HostTakesLeave(m)
     \/ /\ e.type = "open"
        /\ OpenChannel(m, e.on, "file", e.to, "provisional")
        /\ hashing' = IF m = Host /\ reply'.ok THEN hashing \cup {<<m, e.on>>} ELSE hashing
        /\ IF reply'.ok THEN UNCHANGED offers ELSE Becomes(m, e.on, "refused")
        /\ Delivered(m)
        /\ UNCHANGED loads
     \/ /\ e.type = "accept"
        /\ AcceptChannel(m, e.on)
        /\ loads' = IF m = Host /\ reply'.ok
                    THEN loads \cup {[by |-> m, on |-> e.on, stage |-> "asked",
                                      from |-> channels[e.on].opener]}
                    ELSE loads
        /\ Delivered(m)
        /\ UNCHANGED <<hashing, offers>>
     \/ /\ e.type \in {"reject", "close", "publish"}
        /\ CASE e.type = "reject"  -> RejectChannel(m, e.on)
             [] e.type = "close"   -> CloseChannel(m, e.on)
             [] e.type = "publish" -> UpdateChannelTransfer(m, e.on, "digest")
        /\ IF m = Host /\ ~reply'.ok /\ e.type # "reject"
           THEN UNCHANGED fromHost ELSE Delivered(m)
        /\ UNCHANGED transfers
  /\ e.type # "leave" => UNCHANGED <<mode, ctl, own, copy>>
  /\ UNCHANGED faults

-----------------------------------------------------------------------------
(* The controllers: what their handlers make of AutomationState.           *)

OnChannel(c, k) == {ch \in k.chans : ch.on = c}

\* maybe_prepare_member for everybody in S, in the order of their ids.
Targets(m, k, S) == IF mode[m] \in Sender THEN S \ ({m} \cup k.sent) ELSE {}

OfferId(k, ts, x) == k.next + Cardinality({y \in ts : y < x})

\* Bug: one id is taken for a whole snapshot.
OfferingOneId(k, ts) ==
  LET new == {[on |-> OfferId(k, ts, x), dir |-> "out", peer |-> x] : x \in ts}
  IN  [k EXCEPT !.sent = @ \cup ts,
                !.pending = @ \cup {<<ch.peer, ch.on>> : ch \in new},
                !.chans = {ch \in @ : \A n \in new : n.on # ch.on} \cup new,
                !.next = @ + 1]

Offering(k, ts) ==
  LET new == {[on |-> OfferId(k, ts, x), dir |-> "out", peer |-> x] : x \in ts}
  IN  [k EXCEPT !.sent = @ \cup ts,
                !.pending = @ \cup {<<ch.peer, ch.on>> : ch \in new},
                !.chans = {ch \in @ : \A n \in new : n.on # ch.on} \cup new,
                !.next = @ + Cardinality(ts)]

Command(type, c, to) == [type |-> type, on |-> c, to |-> to]

OpenCommands(k, ts) ==
  [i \in 1 .. Cardinality(ts) |->
     LET c == k.next + i - 1
     IN  Command("open", c, CHOOSE x \in ts : OfferId(k, ts, x) = c)]

\* close_one_shot_targets_if_started
Closing(m, k) == [k EXCEPT !.closed = @ \/ (mode[m] = "oneshot" /\ k.sent # {})]

\* Bug: an offer that has been accepted counts as served.
HasFinishedOffering(m, k) ==
  mode[m] = "oneshot" /\ k.closed /\ k.sent # {} /\ k.pending = {}

\* should_finish_one_shot_send
HasFinished(m, k) ==
  /\ mode[m] = "oneshot"
  /\ k.closed
  /\ k.sent # {}
  /\ k.pending = {}
  /\ \A ch \in k.chans : ch.dir # "out"

\* maybe_finish_one_shot_send, up to the sleep.
Finishing(m, k) ==
  IF Writes(k) /\ HasFinished(m, k) THEN [k EXCEPT !.run = "grace"] ELSE k

\* The controller comes to k and writes the commands; to write to a stdin it has
\* closed is an error that ends it.
Acts(m, k, commands) ==
  IF commands = <<>> \/ Writes(ctl[m])
  THEN /\ ctl' = [ctl EXCEPT ![m] = k]
       /\ toHost' = [toHost EXCEPT ![m] = @ \o commands]
  ELSE /\ ctl' = [ctl EXCEPT ![m].run = "failed"]
       /\ UNCHANGED toHost

Reads(m) == ctl[m].run \in {"running", "leaving"}

TakesFromHost(m, types) ==
  /\ Reads(m) /\ fromHost[m] # <<>> /\ Head(fromHost[m]).type \in types
  /\ fromHost' = [fromHost EXCEPT ![m] = Tail(@)]
  /\ UNCHANGED own

TakesOwn(m, types) ==
  /\ Reads(m) /\ own[m] # <<>> /\ Head(own[m]).type \in types
  /\ own' = [own EXCEPT ![m] = Tail(@)]
  /\ UNCHANGED fromHost

\* apply_machine_event: a joiner's copy, every channel of which has two members.
Copies(m, new) == copy' = [j \in Joiner |-> IF j = m THEN new ELSE copy[j]]
Copied(m)      == IF m = Host THEN {} ELSE copy[m]

Entry(c, from, to) == [on |-> c, from |-> from, to |-> to, digest |-> FALSE]
WithEntries(old, new) == {x \in old : \A n \in new : n.on # x.on} \cup new

\* MemberSnapshot and MemberJoined.
ReadsMembers(m) ==
  LET e  == Head(fromHost[m])
      k  == ctl[m]
      ts == Targets(m, k, IF e.type = "member_joined" THEN {e.by} ELSE e.roster)
      opens == OpenCommands(k, ts)
      goes == Writes(k)
      new == {Entry(o.on, m, o.to) : o \in {opens[i] : i \in DOMAIN opens}}
  IN
  /\ TakesFromHost(m, {"member_snapshot", "member_joined"})
  /\ Acts(m, Finishing(m, Closing(m, Offering(k, ts))), opens)
  /\ offers' = IF goes THEN offers \cup {[from |-> m, to |-> x.to, on |-> x.on, as |-> "open"]
                                         : x \in new}
               ELSE offers
  /\ IF goes /\ m # Host
     THEN /\ Copies(m, WithEntries(copy[m], new))
          /\ hashing' = hashing \cup {<<m, x.on>> : x \in new}
     ELSE UNCHANGED <<copy, hashing>>
  /\ UNCHANGED <<vars, mode, loads, faults>>

\* Bug: the offers made to who has left stay pending.
WithoutChannelsOf(q, k) == [k EXCEPT !.chans = {ch \in @ : ch.peer # q}]

WithoutPeer(q, k) ==
  [k EXCEPT !.chans = {ch \in @ : ch.peer # q}, !.pending = {p \in @ : p[1] # q}]

ReadsLeft(m) ==
  LET e == Head(fromHost[m]) IN
  /\ TakesFromHost(m, {"member_left"})
  /\ Acts(m, Finishing(m, WithoutPeer(e.by, ctl[m])), <<>>)
  /\ Copies(m, {x \in Copied(m) : e.by \notin {x.from, x.to}})
  /\ UNCHANGED <<vars, mode, transfers, faults>>

\* should_auto_accept_transfer, for a file
AutoAccepts(m) == mode[m] = "receive" \/ (mode[m] = "stdout" /\ ~ctl[m].done)

\* ChannelOpened: accepted or rejected on the spot.  A joiner's machine starts
\* the download of what it accepts, or drops what it rejects.
ReadsOpened(m) ==
  LET e == Head(fromHost[m])
      k == [ctl[m] EXCEPT !.chans = (@ \ OnChannel(e.on, ctl[m]))
                             \cup {[on |-> e.on, dir |-> "in", peer |-> e.by]}]
      kept == {x \in Copied(m) : x.on # e.on}
  IN
  /\ TakesFromHost(m, {"channel_opened"})
  /\ IF AutoAccepts(m)
     THEN /\ Acts(m, k, <<Command("accept", e.on, All)>>)
          /\ Copies(m, kept \cup {Entry(e.on, e.by, m)})
          /\ loads' = IF m # Host /\ Writes(k)
                      THEN loads \cup {[by |-> m, on |-> e.on, from |-> e.by, stage |-> "asked"]}
                      ELSE loads
          /\ UNCHANGED offers
     ELSE /\ Acts(m, k, <<Command("reject", e.on, All)>>)
          /\ Copies(m, IF Writes(k) THEN kept ELSE kept \cup {Entry(e.on, e.by, m)})
          /\ IF Writes(k) THEN Becomes(e.by, e.on, "refused") ELSE UNCHANGED offers
          /\ UNCHANGED loads
  /\ UNCHANGED <<vars, mode, hashing, faults>>

ReadsAccepted(m) ==
  LET e == Head(fromHost[m]) IN
  /\ TakesFromHost(m, {"channel_accepted"})
  /\ Acts(m, [ctl[m] EXCEPT !.pending = @ \ {<<e.by, e.on>>}], <<>>)
  /\ UNCHANGED <<vars, mode, copy, transfers, faults>>

\* ChannelTransferFinalized
ReadsDigest(m) ==
  LET e == Head(fromHost[m]) IN
  /\ TakesFromHost(m, {"channel_transfer"})
  /\ Copies(m, {IF x.on = e.on THEN [x EXCEPT !.digest = TRUE] ELSE x : x \in Copied(m)})
  /\ UNCHANGED <<vars, mode, ctl, toHost, transfers, faults>>

\* ChannelRejected and ChannelClosed
ReadsQuit(m) ==
  LET e == Head(fromHost[m])
      k == [ctl[m] EXCEPT !.chans = @ \ OnChannel(e.on, ctl[m]),
                          !.pending = @ \ {<<e.by, e.on>>}]
  IN
  /\ TakesFromHost(m, {"channel_rejected", "channel_closed"})
  /\ Acts(m, Finishing(m, k), <<>>)
  /\ Copies(m, {x \in Copied(m) : x.on # e.on \/ e.by \notin {x.from, x.to}})
  /\ UNCHANGED <<vars, mode, transfers, faults>>

\* Error, of the room or of an own transfer: the channel goes, a pending offer stays.
ReadsError(m) ==
  \E c \in ChannelId :
    /\ \/ TakesFromHost(m, {"error"}) /\ c = Head(fromHost[m]).on
       \/ TakesOwn(m, {"error"}) /\ c = Head(own[m]).on
    /\ Acts(m, Finishing(m, [ctl[m] EXCEPT !.chans = @ \ OnChannel(c, ctl[m])]), <<>>)
    /\ UNCHANGED <<vars, mode, copy, transfers, faults>>

\* ChannelPathReceived: a stdout receiver copies the file out and leaves.
ReadsPath(m) ==
  LET e == Head(own[m])
      k == [ctl[m] EXCEPT !.chans = @ \ OnChannel(e.on, ctl[m])]
  IN
  /\ TakesOwn(m, {"path_received"})
  /\ IF mode[m] = "stdout" /\ k.chans # ctl[m].chans
     THEN Acts(m, [k EXCEPT !.done = TRUE, !.run = "leaving"],
               <<Command("leave", NoChannel, All)>>)
     ELSE Acts(m, k, <<>>)
  /\ UNCHANGED <<vars, mode, copy, transfers, faults>>

\* TransferProgress that reports the last byte of an outgoing file.
ReadsProgress(m) ==
  LET e    == Head(own[m])
      sent == {ch \in OnChannel(e.on, ctl[m]) : ch.dir = "out"}
      k    == [ctl[m] EXCEPT !.chans = @ \ sent]
  IN
  /\ TakesOwn(m, {"progress"})
  /\ Acts(m, IF sent = {} THEN k ELSE Finishing(m, k), <<>>)
  /\ UNCHANGED <<vars, mode, copy, transfers, faults>>

\* RoomClosed: the machine's two inputs are closed, and the process ends.
ReadsClosed(m) ==
  /\ Up(m) /\ ctl[m].run # "grace"
  /\ fromHost[m] # <<>> /\ Head(fromHost[m]).type = "room_closed"
  /\ fromHost' = [fromHost EXCEPT ![m] = <<>>]
  /\ toHost' = [toHost EXCEPT ![m] = <<>>]
  /\ Ends(m)
  /\ UNCHANGED <<vars, faults>>

-----------------------------------------------------------------------------
(* The transfers behind the offers.                                        *)

\* What m's machine knows of a channel: the host looks into the engine.
Known(m, c) ==
  IF m = Host
  THEN {Entry(d, channels[d].opener, Host) : d \in {c} \cap DOMAIN channels}
  ELSE {x \in copy[m] : x.on = c}

KnowsDigest(m, c, s) ==
  IF m = Host
  THEN c \in DOMAIN channels /\ channels[c].opener = s /\ channels[c].transfer = "digest"
  ELSE \E x \in copy[m] : x.on = c /\ x.from = s /\ x.digest

\* PreparedTransferReady
Publishes(s, c) ==
  /\ Up(s) /\ <<s, c>> \in hashing
  /\ hashing' = hashing \ {<<s, c>>}
  /\ toHost' = IF Known(s, c) = {} THEN toHost
               ELSE [toHost EXCEPT ![s] = Append(@, Command("publish", c, All))]
  /\ UNCHANGED <<vars, mode, ctl, fromHost, own, copy, loads, offers, faults>>

\* PreparedTransferFailed; the error the controller gets names no channel.
PrepareFails(s, c) ==
  /\ Up(s) /\ <<s, c>> \in hashing /\ faults < MaxFaults
  /\ faults' = faults + 1
  /\ hashing' = hashing \ {<<s, c>>}
  /\ toHost' = IF Known(s, c) = {} THEN toHost
               ELSE [toHost EXCEPT ![s] = Append(@, Command("close", c, All))]
  /\ Copies(s, {x \in Copied(s) : x.on # c})
  /\ Becomes(s, c, "failed")
  /\ UNCHANGED <<vars, mode, ctl, fromHost, own, loads>>

\* The provider's last write, which it reports as progress.
Serves(d) ==
  /\ Up(d.from) /\ Up(d.by) /\ d.stage = "asked"
  /\ loads' = (loads \ {d}) \cup {[d EXCEPT !.stage = "arrived"]}
  /\ own' = [own EXCEPT ![d.from] = Append(@, Event0("progress", d.from, d.on))]
  /\ UNCHANGED <<vars, mode, ctl, toHost, fromHost, copy, hashing, offers, faults>>

\* maybe_finalize: both the bytes and the digest are there.
Saves(d) ==
  /\ Up(d.by) /\ d.stage = "arrived" /\ KnowsDigest(d.by, d.on, d.from)
  /\ loads' = loads \ {d}
  /\ own' = [own EXCEPT ![d.by] = Append(@, Event0("path_received", d.by, d.on))]
  /\ Becomes(d.from, d.on, "saved")
  /\ UNCHANGED <<vars, mode, ctl, toHost, fromHost, copy, hashing, faults>>

Fails(d) ==
  /\ Up(d.by)
  /\ loads' = loads \ {d}
  /\ own' = [own EXCEPT ![d.by] = Append(@, Event0("error", d.by, d.on))]
  /\ Becomes(d.from, d.on, "failed")
  /\ UNCHANGED <<vars, mode, ctl, toHost, fromHost, copy, hashing>>

\* The disk or the connection fails; only the receiver's controller hears of it.
LoadFails(d) == faults < MaxFaults /\ faults' = faults + 1 /\ Fails(d)

\* The provider has gone, or the digest is that of another sender's file.
LoadDies(d) ==
  /\ \/ ~Up(d.from) /\ d.stage = "asked"
     \/ \E s \in MemberId \ {d.from} : KnowsDigest(d.by, d.on, s)
  /\ Fails(d)
  /\ UNCHANGED faults

\* The 250 ms of maybe_finish_one_shot_send are over, whatever they were for.
GraceEnds(m) ==
  /\ ctl[m].run = "grace"
  /\ Acts(m, [ctl[m] EXCEPT !.run = "leaving"], <<Command("leave", NoChannel, All)>>)
  /\ UNCHANGED <<vars, mode, fromHost, own, copy, transfers, faults>>

-----------------------------------------------------------------------------
ReadsEvent(m) ==
  \/ ReadsMembers(m) \/ ReadsLeft(m) \/ ReadsOpened(m) \/ ReadsAccepted(m)
  \/ ReadsDigest(m) \/ ReadsQuit(m) \/ ReadsError(m) \/ ReadsPath(m)
  \/ ReadsProgress(m) \/ ReadsClosed(m)

\* What the programs do when nothing goes wrong and nobody else comes.
Progress ==
  \/ \E m \in MemberId : ReadsEvent(m) \/ GraceEnds(m) \/ HostTakesCommand(m)
  \/ \E h \in hashing : Publishes(h[1], h[2])
  \/ \E d \in loads : Serves(d) \/ Saves(d) \/ LoadDies(d)

AutomationNext ==
  \/ Progress
  \/ JoinRoom
  \/ \E j \in Joiner : Crash(j)
  \/ \E h \in hashing : PrepareFails(h[1], h[2])
  \/ \E d \in loads : LoadFails(d)

AutomationSpec == AutomationInit /\ [][AutomationNext]_autoVars /\ WF_autoVars(Progress)

-----------------------------------------------------------------------------
(* Properties.                                                             *)

\* The books, the queues, the copies and the transfers have their types: what a
\* joiner's machine believes, what each member has still to read and what the host
\* has still to carry out.  And a controller's books agree with each other: a
\* channel id stands for one transfer, a pending offer is one it has counted as
\* made, and the next id has not been given away.
AutomationTypeOK ==
  /\ mode \in Modes
  /\ ctl \in [MemberId -> Controller]
  /\ \A m \in MemberId :
       LET k == ctl[m] IN
       /\ \A a, b \in k.chans : a.on = b.on => a = b
       /\ \A p, q \in k.pending : p[1] = q[1] \/ p[2] = q[2] => p = q
       /\ \A p \in k.pending : p[1] \in k.sent /\ p[2] < k.next
  /\ toHost \in [MemberId -> Seq(CommandType)]
  /\ fromHost \in [MemberId -> Seq(EventType)]
  /\ own \in [MemberId -> Seq(OwnType)]
  /\ copy \in [Joiner -> SUBSET EntryType]
  /\ hashing \subseteq MemberId \X ChannelId
  /\ loads \subseteq LoadType
  /\ offers \subseteq OfferType
  /\ faults \in 0 .. MaxFaults

\* m is the only sender of the room: the channel ids of two senders collide.
SendsAlone(m) == mode[m] \in Sender /\ \A s \in MemberId \ {m} : mode[s] \notin Sender

\* The receiver of the offer f has all its bytes and waits only for the digest.
OnlyWantsDigest(f) ==
  \E d \in loads :
    /\ d.from = f.from /\ d.on = f.on /\ d.by = f.to
    /\ d.stage = "arrived" /\ Known(d.by, d.on) # {}

\* A one-shot sender that leaves of its own accord cuts nobody's download off:
\* every member it has made an offer to and whose program still runs has the file,
\* has refused it, has failed to get it, or has every byte of it and waits only for
\* the digest - whoever else came, left or was offered the payload meanwhile, and
\* however late the accept and the answers of the engine were read.  (Whether the
\* digest still comes is what the 250 ms are for; the code does not ask.)
CutsNobodyOff ==
  \A m \in MemberId :
    SendsAlone(m) /\ ctl[m].run = "grace" /\ ctl'[m].run = "leaving"
      => \A f \in offers : f.from = m /\ Up(f.to) => f.as # "open" \/ OnlyWantsDigest(f)
NobodyIsCutOff == [][CutsNobodyOff]_autoVars

\* Nobody is left to be waited for, and no event that is still to come makes the
\* controller look: channel_accepted, read after the progress of the last byte, only
\* clears the pending offer (transfer_automation.rs:894).
Overlooked(m) == ctl[m].run = "running" /\ HasFinished(m, ctl[m])

\* m is the only sender of its room, one-shot, and stays because of an offer it has
\* made, although no download and no preparation of it has failed.
AtWork(m) ==
  /\ mode[m] = "oneshot" /\ SendsAlone(m) /\ ctl[m].sent # {}
  /\ ctl[m].run \in {"running", "grace"} /\ ~Overlooked(m)
  /\ \A f \in offers : f.from = m => f.as # "failed"

\* The only sender of a room, if it is one-shot and has made an offer, leaves when
\* everybody it made one to has received, rejected or gone away: it is not at work for
\* ever - unless a download or the preparation failed, which it is never told, or it
\* overlooks that it has finished.
OneShotEnds == []<>(\A m \in MemberId : ~AtWork(m))

\* README.md:144-146: "Stdin sends are one-shot: after at least one peer receives or
\* rejects the payload, the sender leaves the room instead of staying online for late
\* joiners."  A one-shot sender that has started to leave has seen at least one peer
\* receive the payload, to the last byte, or reject it.  The code waits for everybody
\* it made an offer to, and a member that goes away counts as served
\* (transfer_automation.rs:562-571, 708-731).
SomebodyIsServed ==
  \A m \in MemberId :
    SendsAlone(m) /\ ctl[m].run = "grace"
      => \E f \in offers : f.from = m /\ (f.as \in {"saved", "refused"} \/ OnlyWantsDigest(f))
=============================================================================
