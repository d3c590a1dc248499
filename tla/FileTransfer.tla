----------------------------- MODULE FileTransfer -----------------------------
(***************************************************************************)
(* Files and folders sent with send_path, from the offer to the saved path *)
(* (skyffla-cli/src/runtime/machine.rs, machine_links.rs, machine_state.rs,*)
(* and the download half of skyffla-transport/src/lib.rs).                 *)
(*                                                                         *)
(* A provider offers a path on a file channel of the room before it has    *)
(* looked at it, prepares it in a task of its own (hash of a file, plan of *)
(* a folder), and publishes the result through the host.  A receiver that  *)
(* accepts downloads straight from the provider meanwhile, to a .part file *)
(* beside the final path.  The two races meet in maybe_finalize: whichever *)
(* comes second, the published digest or the end of the download, compares *)
(* the two and renames the .part file.                                     *)
(*                                                                         *)
(* The members are those of a full room and stay; the host's engine is     *)
(* RoomEngine.  Left out: channel_accepted events, which change nothing at *)
(* their readers, and pending_accepted_files, which every accept fills and *)
(* empties again as long as offers come from send_path and have a size.    *)
(***************************************************************************)
EXTENDS RoomEngine, Sequences, FiniteSets, Functions

CONSTANT Plans   \* what clients may send: functions from channel ids to transfers

Joiner == MemberId \ {Host}
Name   == UNION {{p[c].name : c \in DOMAIN p} : p \in Plans}

\* What a path may hold: the source of a channel as it was offered or as it was
\* edited since, part of something, or the writes of two downloads.
Source(c, version) == [of |-> c, version |-> version]
NoDigest == [of |-> NoChannel, version |-> "none"]
Partial  == [of |-> NoChannel, version |-> "partial"]
Mixed    == [of |-> NoChannel, version |-> "mixed"]
Content  == {Source(c, v) : c \in ChannelId, v \in {"offered", "edited"}}
              \cup {Partial, Mixed}

Digest   == Content \cup {NoDigest}
Transfer == [by : MemberId, to : Route, item : {"file", "folder"}, name : Name]

\* A folder never has the name of another transfer of its plan.
ASSUME PlansAssumption ==
  \A p \in Plans :
    /\ DOMAIN p \subseteq ChannelId
    /\ \A c \in DOMAIN p : p[c] \in Transfer
    /\ \A c, d \in DOMAIN p :
         c # d /\ p[c].name = p[d].name => p[c].item = "file"

ASSUME FileOffersAssumption ==
  /\ [item : {"file", "folder"}, digest : Content \cup {NoDigest}] \subseteq TransferOffer
  /\ "file" \in ChannelKind

VARIABLES
  plan,        \* the transfers of this run of the room, fixed from the start
  toHost,      \* per joiner: commands on its authority link
  peerLink,    \* per joiner: events on the host's peer link
  view,        \* per joiner: JoinState.channels
  source,      \* per channel: what its provider's path holds
  prepared,    \* per channel: how far the provider's preparation is
  registered,  \* channels that are in their provider's outgoing_transfers
  accepted,    \* <<member, channel>>: who has accepted what, once each
  clashes,     \* history: <<member, path>> that two unfinished downloads were bound for
  downloads,   \* the download tasks of all members, unread results included
  received,    \* pending_received_files of all members
  parts,       \* per member: .part files, as final path -> file
  disk,        \* per member: saved paths, as final path -> file
  bytes,       \* per member: file -> what it holds
  saved,       \* history: channel_path_received events
  failed,      \* history: <<member, channel>> of transfer errors
  ended        \* members whose process an error of a handler has ended

links == <<toHost, peerLink, view>>
provider == <<source, prepared, registered>>
files == <<parts, disk, bytes>>
outcome == <<saved, failed, ended>>
transferVars ==
  <<vars, plan, links, provider, accepted, clashes, downloads, received, files, outcome>>

IsFile(c)   == plan[c].item = "file"
Provider(c) == plan[c].by
Offer(c, digest) == [item |-> plan[c].item, digest |-> digest]

Put(f, k, x) == [i \in DOMAIN f \cup {k} |-> IF i = k THEN x ELSE f[i]]
Drop(f, k)   == Restrict(f, DOMAIN f \ {k})
Nothing      == [k \in {} |-> 0]

TransferInit ==
  /\ members = MemberId
  /\ channels = [c \in {} |-> NoChannel]
  /\ nextMemberIndex = MaxMemberIndex + 1
  /\ reply = [ok |-> TRUE, event |-> "member_joined", by |-> MaxMemberIndex,
              on |-> NoChannel, to |-> MemberId \ {MaxMemberIndex}]
  /\ plan \in Plans
  /\ toHost = [j \in Joiner |-> <<>>]
  /\ peerLink = [j \in Joiner |-> <<>>]
  /\ view = [j \in Joiner |-> Nothing]
  /\ source = [c \in DOMAIN plan |-> Source(c, "offered")]
  /\ prepared = [c \in DOMAIN plan |-> [stage |-> "unsent", digest |-> NoDigest]]
  /\ registered = {}
  /\ accepted = {}
  /\ clashes = {}
  /\ downloads = {}
  /\ received = {}
  /\ parts = [r \in MemberId |-> Nothing]
  /\ disk = [r \in MemberId |-> Nothing]
  /\ bytes = [r \in MemberId |-> Nothing]
  /\ saved = {}
  /\ failed = {}
  /\ ended = {}

-----------------------------------------------------------------------------
(* The room, as far as file channels go.                                   *)

Runs(m) == Host \notin ended /\ m \notin ended

Message(type, by, c, digest) == [type |-> type, by |-> by, on |-> c, digest |-> digest]

Deliver(e) ==
  peerLink' = [j \in Joiner |-> IF j \in reply'.to THEN Append(peerLink[j], e)
                                ELSE peerLink[j]]

Send(j, e) == toHost' = [toHost EXCEPT ![j] = Append(@, e)]

\* The engine's answer to a command, and the events that come of it.
Execute(m, e) ==
  /\ CASE e.type = "channel_opened" ->
            OpenChannel(m, e.on, "file", plan[e.on].to, Offer(e.on, NoDigest))
       [] e.type = "channel_transfer" ->
            UpdateChannelTransfer(m, e.on, Offer(e.on, e.digest))
       [] e.type = "channel_rejected" -> RejectChannel(m, e.on)
       [] e.type = "channel_closed" -> CloseChannel(m, e.on)
  /\ Deliver(e)

\* apply_machine_event on JoinState.channels; everyone knows all members.
OpenedIn(v, c) ==
  Put(v, c, [participants |-> Audience(Provider(c), plan[c].to), digest |-> NoDigest])

PublishedIn(v, c, digest) ==
  IF c \in DOMAIN v THEN [v EXCEPT ![c].digest = digest] ELSE v

QuitIn(v, j, c, m) ==
  IF c \notin DOMAIN v THEN v
  ELSE LET rest == v[c].participants \ {m}
       IN  IF HasCompany(rest) /\ j \in rest
           THEN [v EXCEPT ![c].participants = rest]
           ELSE Drop(v, c)

Applied(v, j, e) ==
  CASE e.type = "channel_opened"   -> OpenedIn(v, e.on)
    [] e.type = "channel_transfer" -> PublishedIn(v, e.on, e.digest)
    [] OTHER                       -> QuitIn(v, j, e.on, e.by)

Quits == {"channel_rejected", "channel_closed"}

\* A command a member's client gives: the host executes it, a joiner sends it and
\* applies it to its own copy.
Command(m, e) ==
  IF m = Host
  THEN Execute(Host, e) /\ UNCHANGED <<toHost, view>>
  ELSE /\ Send(m, e)
       /\ view' = [view EXCEPT ![m] =
                     IF e.type \in Quits THEN Drop(@, e.on) ELSE Applied(@, m, e)]
       /\ UNCHANGED <<room, reply, peerLink>>

NoCommand == UNCHANGED <<vars, links>>

\* Is m in c, as far as m can tell?
Knows(m, c) == IF m = Host THEN MayUse(Host, c) ELSE c \in DOMAIN view[m]

\* A client rejects or closes a channel; the two differ in name alone.
QuitChannel(m, c) ==
  /\ Runs(m)
  /\ Knows(m, c)
  /\ Command(m, Message(IF m = Provider(c) THEN "channel_closed" ELSE "channel_rejected",
                        m, c, NoDigest))
  /\ UNCHANGED <<provider, plan, accepted, clashes, downloads, received, files, outcome>>

-----------------------------------------------------------------------------
(* The provider.                                                           *)

Stage(c, stage) == prepared' = [prepared EXCEPT ![c].stage = stage]

\* send_path_from_host and send_path_from_join register a file before they offer it.
RegisteredOnOffer(c) == IF IsFile(c) THEN registered \cup {c} ELSE registered

SendPath(c) ==
  /\ Runs(Provider(c))
  /\ prepared[c].stage = "unsent"
  /\ Stage(c, "preparing")
  /\ registered' = RegisteredOnOffer(c)
  /\ Command(Provider(c), Message("channel_opened", Provider(c), c, NoDigest))
  /\ UNCHANGED <<source, plan, accepted, clashes, downloads, received, files, outcome>>

\* Somebody changes a file that is being sent; bound: one file, once.
EditSource(c) ==
  /\ IsFile(c)
  /\ prepared[c].stage # "unsent"
  /\ \A d \in DOMAIN plan : source[d] = Source(d, "offered")
  /\ source' = [source EXCEPT ![c] = Source(c, "edited")]
  /\ UNCHANGED <<vars, links, prepared, registered, plan, accepted, clashes, downloads,
                 received, files, outcome>>

\* spawn_host_prepare_path_task, spawn_join_prepare_path_task: a folder can be
\* served once its plan is made.  Reading may fail.
Prepare(c) ==
  /\ Runs(Provider(c))
  /\ prepared[c].stage = "preparing"
  /\ \/ /\ prepared' = [prepared EXCEPT ![c] =
              [stage |-> "ready", digest |-> IF IsFile(c) THEN source[c] ELSE NoDigest]]
        /\ registered' = registered \cup {c}
     \/ /\ Stage(c, "failed")
        /\ UNCHANGED registered
  /\ UNCHANGED <<vars, links, source, plan, accepted, clashes, downloads, received, files,
                 outcome>>

\* PreparedTransferReady.  A joiner that is out of its channel says nothing; to a
\* host the engine's UnknownChannel is no error.
Publish(c) ==
  LET m == Provider(c) IN
  /\ Runs(m)
  /\ prepared[c].stage = "ready"
  /\ Stage(c, "published")
  /\ IF m = Host \/ Knows(m, c)
     THEN Command(m, Message("channel_transfer", m, c, prepared[c].digest))
     ELSE NoCommand
  /\ UNCHANGED <<source, registered, plan, accepted, clashes, downloads, received, files,
                 outcome>>

AnyRefusalIsFatal(m, c) ==             \* bug: UnknownChannel is an error too
  IF m = Host /\ ~MayUse(Host, c) THEN ended \cup {Host} ELSE ended

\* Of the refusals close_channel has for a host, UnknownChannel is none, and
\* MemberNotInChannel, for a host that has quit a channel others are still in,
\* ends handle_host_input and with it the process.
EndedByClosing(m, c) ==
  IF m = Host /\ ~MayUse(Host, c) /\ c \in DOMAIN channels
  THEN ended \cup {Host} ELSE ended

\* PreparedTransferFailed: the provider closes its channel.
GiveUp(c) ==
  LET m == Provider(c) IN
  /\ Runs(m)
  /\ prepared[c].stage = "failed"
  /\ Stage(c, "given up")
  /\ IF m = Host \/ Knows(m, c)
     THEN Command(m, Message("channel_closed", m, c, NoDigest))
     ELSE NoCommand
  /\ ended' = EndedByClosing(m, c)
  /\ UNCHANGED <<source, registered, plan, accepted, clashes, downloads, received, files,
                 saved, failed>>

-----------------------------------------------------------------------------
(* A receiver's download task (transport, receive_file_to_temp_with_progress *)
(* and receive_directory_with_progress).                                   *)

\* unique_path_in_dir: the name itself, or the first "name (i)" nothing is saved at.
\* A .part file does not take its path.
FreePath(r, name) ==
  LET taken(i) == <<name, i>> \in DOMAIN disk[r]
  IN  <<name, CHOOSE i \in 0 .. Cardinality(DOMAIN disk[r]) :
                ~taken(i) /\ \A k \in 0 .. i - 1 : taken(k)>>

Download == [by : MemberId, on : ChannelId, to : Name \X Nat,
             stage : {"asking", "receiving", "done"}, file : ChannelId,
             alone : BOOLEAN, hash : Content \cup {NoDigest}]

\* What r has accepted is bound for this path and neither saved nor reported as failed.
BoundFor(r, path) == {d \in downloads \cup received : d.by = r /\ d.to = path}

\* AcceptChannel and maybe_start_{host,join}_pending_receive, which is handed a
\* ready event made up on the spot: the download starts whatever has been published.
Accept(r, c) ==
  /\ Runs(r)
  /\ r # Provider(c)
  /\ Knows(r, c)
  /\ <<r, c>> \notin accepted
  /\ accepted' = accepted \cup {<<r, c>>}
  /\ LET path == FreePath(r, plan[c].name) IN
     /\ downloads' = downloads \cup
          {[by |-> r, on |-> c, to |-> path, stage |-> "asking",
            file |-> c, alone |-> TRUE, hash |-> NoDigest]}
     /\ clashes' = IF BoundFor(r, path) = {} THEN clashes ELSE clashes \cup {<<r, path>>}
  /\ UNCHANGED <<vars, plan, links, provider, received, files, outcome>>

Serves(c) == c \in registered /\ Provider(c) \notin ended

\* direct_receive_failed
Fails(d) ==
  /\ downloads' = downloads \ {d}
  /\ failed' = failed \cup {<<d.by, d.on>>}
  /\ UNCHANGED <<vars, links, provider, plan, accepted, clashes, received, disk, bytes, saved,
                 ended>>

\* serve_registered_transfer knows no such channel, or nobody answers.
IsRefused(d) ==
  /\ Runs(d.by)
  /\ d.stage = "asking"
  /\ ~Serves(d.on)
  /\ Fails(d)
  /\ UNCHANGED parts

\* The downloads that write to the file d is about to open.
Sharing(d, file) ==
  {x \in downloads : x.by = d.by /\ x.stage = "receiving" /\ x.file = file}

BeginUncreated(d) ==                   \* bug: the .part path is taken, no file is made
  /\ Runs(d.by)
  /\ d.stage = "asking"
  /\ Serves(d.on)
  /\ downloads' = (downloads \ {d}) \cup {[d EXCEPT !.stage = "receiving"]}
  /\ parts' = [parts EXCEPT ![d.by] = Put(@, d.to, d.on)]
  /\ UNCHANGED <<vars, plan, links, provider, accepted, clashes, received, disk, bytes, outcome>>

\* The provider is ready; File::create truncates the .part file that is there.
BeginReceiving(d) ==
  LET r    == d.by
      file == IF d.to \in DOMAIN parts[r] THEN parts[r][d.to] ELSE d.on
      others == Sharing(d, file)
  IN
  /\ Runs(r)
  /\ d.stage = "asking"
  /\ Serves(d.on)
  /\ downloads' = (downloads \ (others \cup {d}))
       \cup {[x EXCEPT !.alone = FALSE] : x \in others}
       \cup {[d EXCEPT !.stage = "receiving", !.file = file, !.alone = (others = {})]}
  /\ parts' = [parts EXCEPT ![r] = Put(@, d.to, file)]
  /\ bytes' = [bytes EXCEPT ![r] = Put(@, file, Partial)]
  /\ UNCHANGED <<vars, links, provider, plan, accepted, clashes, received, disk, outcome>>

\* The stream or the disk fails, or the sizes differ; the .part file goes.
IsBroken(d) ==
  /\ Runs(d.by)
  /\ d.stage = "receiving"
  /\ Fails(d)
  /\ parts' = [parts EXCEPT ![d.by] = Drop(@, d.to)]

\* All has arrived: the hash is of what came in, the file holds what was written,
\* by this download or by two.  A folder, checked file by file on the way, is
\* renamed at once.
FinishReceiving(d) ==
  LET r == d.by
      came == source[d.on]
  IN
  /\ Runs(r)
  /\ d.stage = "receiving"
  /\ Serves(d.on)
  /\ downloads' = (downloads \ {d}) \cup {[d EXCEPT !.stage = "done", !.hash = came]}
  /\ \E content \in {came} \cup (IF d.alone THEN {} ELSE {Mixed}) :
       bytes' = [bytes EXCEPT ![r][d.file] = content]
  /\ IF IsFile(d.on) THEN UNCHANGED <<parts, disk>>
     ELSE /\ parts' = [parts EXCEPT ![r] = Drop(@, d.to)]
          /\ disk' = [disk EXCEPT ![r] = Put(@, d.to, d.file)]
  /\ UNCHANGED <<vars, links, provider, plan, accepted, clashes, received, outcome>>

-----------------------------------------------------------------------------
(* Where a download and the published digest meet.                         *)

Pending(pend, r, c) == {p \in pend : p.by = r /\ p.on = c}

Saved(p) == [by |-> p.by, on |-> p.on, to |-> p.to, hash |-> p.hash]

RenameUnchecked(r, c, digest, pend, tolerated) ==    \* bug: the hashes are not compared
  LET mine == Pending(pend, r, c) IN
  IF digest = NoDigest \/ mine = {}
  THEN received' = pend /\ UNCHANGED <<parts, disk, outcome>>
  ELSE \E p \in mine :
         /\ received' = pend \ mine
         /\ p.to \in DOMAIN parts[r]
         /\ parts' = [parts EXCEPT ![r] = Drop(@, p.to)]
         /\ disk' = [disk EXCEPT ![r] = Put(@, p.to, parts[r][p.to])]
         /\ saved' = saved \cup {Saved(p)}
         /\ UNCHANGED <<failed, ended>>

\* maybe_finalize_{host,join}_received_file, given the digest r knows of c and what
\* is pending.  The .part file may be gone: renaming fails, which ends the process
\* unless the host was executing a joiner's command.
MaybeFinalize(r, c, digest, pend, tolerated) ==
  LET mine == Pending(pend, r, c) IN
  IF digest = NoDigest \/ mine = {}
  THEN received' = pend /\ UNCHANGED <<parts, disk, outcome>>
  ELSE \E p \in mine :
         /\ received' = pend \ mine
         /\ parts' = [parts EXCEPT ![r] = Drop(@, p.to)]
         /\ \/ /\ p.hash # digest
               /\ failed' = failed \cup {<<r, c>>}
               /\ UNCHANGED <<disk, saved, ended>>
            \/ /\ p.hash = digest
               /\ p.to \in DOMAIN parts[r]
               /\ disk' = [disk EXCEPT ![r] = Put(@, p.to, parts[r][p.to])]
               /\ saved' = saved \cup {Saved(p)}
               /\ UNCHANGED <<failed, ended>>
            \/ /\ p.hash = digest
               /\ p.to \notin DOMAIN parts[r]
               /\ ended' = IF tolerated THEN ended ELSE ended \cup {r}
               /\ UNCHANGED <<disk, saved, failed>>

\* The digest of c that r goes by: the room's at the host, a joiner's own copy.
KnownDigest(r, c) ==
  IF r = Host THEN IF c \in DOMAIN channels THEN channels[c].transfer.digest ELSE NoDigest
  ELSE IF c \in DOMAIN view[r] THEN view[r][c].digest ELSE NoDigest

KeepForLater(d) ==                     \* bug: a digest that came first is not looked at
  /\ received' = (received \ Pending(received, d.by, d.on)) \cup {d}
  /\ UNCHANGED <<parts, disk, outcome>>

\* ReceivedFileReadyToFinalize, the end of a file's download
Receive(d) ==
  MaybeFinalize(d.by, d.on, KnownDigest(d.by, d.on),
                (received \ Pending(received, d.by, d.on)) \cup {d}, FALSE)

\* The main loop reads the result of a finished download.  Of a folder this is the
\* channel_path_received event itself.
HandleReceived(d) ==
  /\ Runs(d.by)
  /\ d.stage = "done"
  /\ downloads' = downloads \ {d}
  /\ IF IsFile(d.on) THEN Receive(d)
     ELSE /\ saved' = saved \cup {Saved(d)}
          /\ UNCHANGED <<received, parts, disk, failed, ended>>
  /\ UNCHANGED <<vars, links, provider, plan, accepted, clashes, bytes>>

\* handle_host_command for the next command of a joiner.  What is pending at the
\* host may be finalized by an update.
HostHandlesCommand(j) ==
  /\ Host \notin ended
  /\ toHost[j] # <<>>
  /\ LET e == Head(toHost[j]) IN
       /\ Execute(j, e)
       /\ IF e.type = "channel_transfer" /\ reply'.ok
          THEN MaybeFinalize(Host, e.on, e.digest, received, TRUE)
          ELSE UNCHANGED <<received, parts, disk, outcome>>
  /\ toHost' = [toHost EXCEPT ![j] = Tail(@)]
  /\ UNCHANGED <<view, provider, plan, accepted, clashes, downloads, bytes>>

\* apply_machine_event: when anybody quits a channel, what this joiner has received
\* of it is forgotten.
PendingAfter(j, e) ==
  IF e.type \in Quits THEN received \ Pending(received, j, e.on) ELSE received

\* handle_join_peer_input for the next event on the host's peer link
JoinerReads(j) ==
  /\ Runs(j)
  /\ peerLink[j] # <<>>
  /\ LET e == Head(peerLink[j])
         after == Applied(view[j], j, e)
     IN
       /\ view' = [view EXCEPT ![j] = after]
       /\ IF e.type = "channel_transfer" /\ e.on \in DOMAIN after
          THEN MaybeFinalize(j, e.on, e.digest, received, FALSE)
          ELSE /\ received' = PendingAfter(j, e)
               /\ UNCHANGED <<parts, disk, outcome>>
  /\ peerLink' = [peerLink EXCEPT ![j] = Tail(@)]
  /\ UNCHANGED <<vars, toHost, provider, plan, accepted, clashes, downloads, bytes>>

-----------------------------------------------------------------------------
Provide(c) == Prepare(c) \/ Publish(c) \/ GiveUp(c)

Proceed(d) ==
  \/ IsRefused(d)
  \/ BeginReceiving(d)
  \/ IsBroken(d)
  \/ FinishReceiving(d)
  \/ HandleReceived(d)

\* What goes on by itself: preparing, downloading, reading one's links.
Runtime ==
  \/ \E c \in DOMAIN plan : Provide(c)
  \/ \E d \in downloads : Proceed(d)
  \/ \E j \in Joiner : HostHandlesCommand(j) \/ JoinerReads(j)

TransferNext ==
  \/ \E c \in DOMAIN plan : SendPath(c) \/ EditSource(c)
  \/ \E m \in MemberId, c \in DOMAIN plan : QuitChannel(m, c) \/ Accept(m, c)
  \/ Runtime

\* The runtime never idles while a task or a handler can go on, and none of them goes
\* on for ever: a stream that stalls for good ends with an error.
TransferSpec == TransferInit /\ [][TransferNext]_transferVars /\ WF_transferVars(Runtime)

-----------------------------------------------------------------------------
(* Properties.                                                             *)

Preparation ==
  [stage : {"unsent", "preparing", "ready", "published", "failed", "given up"}, digest : Digest]

\* What may be told of the plan's channels: no digest but the one the provider has found.
Found(c) == {NoDigest, prepared[c].digest}
Sent == [type : {"channel_opened", "channel_transfer"} \cup Quits,
         by : MemberId, on : ChannelId, digest : Digest]
News == {e \in Sent : e.on \in DOMAIN plan /\ e.digest \in Found(e.on)}

\* The room, the links, the copies, the preparations, the downloads and the disks have
\* their types; no link and no copy carries a digest that the channel's provider has
\* not found, and a .part or saved path leads to a file that has contents
\* (machine_state.rs, struct JoinState and HostState).
TransferTypeOK ==
  /\ TypeOK
  /\ toHost \in [Joiner -> Seq(News)]
  /\ peerLink \in [Joiner -> Seq(News)]
  /\ source \in [DOMAIN plan -> Content]
  /\ prepared \in [DOMAIN plan -> Preparation]
  /\ downloads \subseteq Download
  /\ received \subseteq Download
  /\ accepted \subseteq MemberId \X ChannelId
  /\ clashes \subseteq MemberId \X (Name \X Nat)
  /\ registered \subseteq ChannelId
  /\ \A j \in Joiner, c \in ChannelId :
       c \in DOMAIN view[j] =>
         /\ view[j][c].participants \subseteq MemberId
         /\ c \in DOMAIN plan /\ view[j][c].digest \in Found(c)
  /\ \A r \in MemberId :
       /\ DOMAIN parts[r] \cup DOMAIN disk[r] \subseteq Name \X Nat
       /\ {parts[r][p] : p \in DOMAIN parts[r]} \cup {disk[r][p] : p \in DOMAIN disk[r]}
            \subseteq DOMAIN bytes[r]
       /\ \A f \in DOMAIN bytes[r] : bytes[r][f] \in Content

\* channel_path_received means what it says: from then on the path holds the bytes
\* whose hash was verified, and for a file that hash is the one its provider
\* published, whatever else is downloaded, edited or fails.  (Two downloads that were
\* bound for one path at the same time share the .part file, and the path is nobody's.)
SavedPathsHoldVerifiedBytes ==
  \A s \in saved :
    <<s.by, s.to>> \notin clashes =>
      /\ s.to \in DOMAIN disk[s.by]
      /\ bytes[s.by][disk[s.by][s.to]] = s.hash
      /\ IsFile(s.on) => s.hash = prepared[s.on].digest

\* The host has quit a channel it opened for everybody, before the preparation failed.
GaveUpOutside ==
  \E c \in DOMAIN channels :
    /\ Provider(c) = Host /\ plan[c].to = All /\ prepared[c].stage = "given up"
    /\ Host \notin channels[c].participants

\* No transfer brings a process down: what goes wrong with it is reported in band.  Two
\* handlers do let an error out: the rename of a .part file that another download has
\* taken away, and the close of a channel of three that the host has quit.
ProcessesSurvive ==
  \A m \in ended : (\E k \in clashes : k[1] = m) \/ (m = Host /\ GaveUpOutside)

\* r's accept of c has come to an end: the path is there, or an error was reported.
Answered(r, c) ==
  \/ \E s \in saved : s.by = r /\ s.on = c
  \/ <<r, c>> \in failed

\* Provider and receiver are both still in the channel, as the host sees it.
Stands(r, c) == c \in DOMAIN channels /\ {r, Provider(c)} \subseteq channels[c].participants

\* Nothing is under way.
Quiet ==
  /\ downloads = {}
  /\ \A j \in Joiner : toHost[j] = <<>> /\ peerLink[j] = <<>>
  /\ \A c \in DOMAIN plan : prepared[c].stage \in {"unsent", "published", "given up"}

\* Rejecting one recipient does not affect the others: when nothing is under way, an
\* accepted transfer whose provider and receiver are still in the channel has been
\* answered.
AcceptedIsAnswered ==
  \A r \in MemberId, c \in DOMAIN plan :
    Quiet /\ <<r, c>> \in accepted /\ Stands(r, c) => Answered(r, c)

\* r is no longer there to answer, or the paths of two downloads of this name clashed.
Excused(r, c) ==
  \/ ~Runs(r) \/ ~Runs(Provider(c))
  \/ \E k \in clashes : k[1] = r /\ k[2][1] = plan[c].name

\* Every accept is answered in the end, in whichever order the digest, the bytes and
\* the failures come, unless the provider or the receiver quits the channel: time and
\* again no accept is open.
EveryAcceptEnds ==
  []<>(\A p \in accepted :
         Stands(p[1], p[2]) => Answered(p[1], p[2]) \/ Excused(p[1], p[2]))
=============================================================================
