# Skyffla in TLA+

Specifications of the parts of Skyffla that decide who is in a room, what each
member believes about it, which processes end and who is told, how a room's host is
found, how a file, a folder or a pipe gets from one member to others, and when the
programs that automate a transfer go home. Each module is checked with TLC on a
small instance; about each of them theorems are also proved with TLAPS, for every value of
its constants.

Paths below are relative to `src/`; `cli/` stands for `crates/skyffla-cli/src/`.

## 1. The system

Peers run the `skyffla` program. One of them **hosts** a room, the others **join**
it. Everything a room needs is inside these processes; the only server is a
small registry that tells a joiner where the host is.

```
 joiner ──(1) GET room──▶ rendezvous registry ◀──PUT / DELETE── host
 joiner ══(2) QUIC: authority link (commands ▸, welcome, snapshot, introductions ◂) ══ host
 joiner ◀═(3) QUIC: host's peer link (every event the room engine routes) ════════════ host
 joiner ◀═(4) QUIC: peer links between joiners (chat, channel data) ═════════▶ joiner
 receiver ══(5) QUIC: transfer streams (files, folders, pipes; credit ▸) ═════ provider
```

| component | state | operations | what makes it correct |
|---|---|---|---|
| Room engine `skyffla-session/src/room.rs` | members, channels, next index | join, leave, chat, open/accept/data/reject/close/update channel | participants are members, nobody is left alone, audiences only shrink, every loss is announced, ids are never reused |
| Host runtime `cli/runtime/machine.rs`, `machine_links.rs` | peers with their writers and pending events, pending files, inbox | accept a peer, command, disconnect, local leave, prepared / received file | what it sends to a joiner amounts to the engine's state; its roster is that of the live links; who connects is served, who is gone is dropped, who leaves ends; one failing recipient does not hurt the others |
| Joiner runtime `machine.rs`, `machine_state.rs` | its own copy of members and channels, tickets, peer links, pending files | own commands (applied optimistically), authority messages, peer inputs, prepared / received file | its copy converges to the host's |
| Links `machine_links.rs`, `net/framing.rs`, `protocol/room_link.rs` | one reader and one writer per stream | introduce, dial, hello, read frame | events carry their true sender; frames stay whole |
| Rendezvous registry `skyffla-rendezvous/` | a record with an expiry per room | put, get, delete, purge | the current host is found, dead records go |
| Rate limiter `skyffla-rendezvous/src/app.rs` | request stamps per address | check | at most `limit` per window, honest `retry_after` |
| Rendezvous clients `cli/app/commands.rs`, `net/rendezvous.rs` | stage of the run | register, resolve, claim, delete | a join that races another ends up with one host |
| Transfer streams `skyffla-transport/src/lib.rs` | registrations, credit | serve / receive a file, a pipe stream | window respected, no stall, size and hash checked before the file appears |
| Directory workers `skyffla-transport/src/lib.rs` | pool of workers, streams in order, temporary root | manifest, request and credit streams, abort, rename | the folder appears at once and whole or not at all; workers do not swap streams |
| Transfer lifecycle `machine.rs`, `machine_links.rs` | pending accepted / received files on both sides | offer, accept, prepare, ready, finalize | a file is saved once, and only if its hash is the announced one |
| Session `skyffla-session/src/lib.rs`, `cli/runtime/session.rs`, `handshake.rs` | session state | transitions, hello exchange | no transition out of order; a failed hello hurts nobody else |
| Pipe mode `cli/runtime/pipe.rs` | targets, channels, streams, broadcast task | open, late receiver, credit, close | unbroken bytes to every receiver, an end is the end, nobody hangs on another's credit |
| Transfer automation `cli/runtime/transfer_automation.rs` | members served, pending offers, open transfers | offer to each member once, accept or reject, decide to leave | a one-shot sender leaves when all are served, and cuts nobody off |
| Local discovery, TUI, configuration, identity / trust files, wrappers | | | see section 8 |

Hard behaviours: the streams of one connection are not ordered against each
other, and a joiner's `select!` takes inputs in any order; joiners change their
copy before the host agrees; writers die before the disconnect that explains it is handled; joiners crash at any point, hosts outlive their
record in the registry; requests and answers are lost; source files change after
they were announced; sender and receiver wait for each other's credit. The
hazards with their lines are listed in `PROJECT.json`.

## 2. The modules

| module | models | extends / composes |
|---|---|---|
| `RoomEngine` | the engine, one action per public method; `Err` changes nothing | - |
| `RoomReplica` | host, joiners, their streams and copies | composes the engine's actions with the links |
| `Rendezvous` | one record of the registry, the clients of that room | - |
| `CreditFlow` | one file on one transfer stream, both ends | - |
| `FileTransfer` | `send_path` from the offer to the saved path, on all members of a full room | extends `RoomEngine`; composes the host's engine with links, tasks and disks |
| `HostRuntime` | the processes of one room from the command line to their end | abstracts `RoomEngine` to members and `Rendezvous` to one name |
| `Pipe` | a pipe source, its receivers, the host's engine and links, the broadcast task | - |
| `FolderPromise` | abstract: what a folder download promises | - |
| `DirectoryTransfer` | the workers, streams and serving tasks of a folder download | implements `FolderPromise` |
| `TransferAutomation` | the controllers of `--send` and `--receive` on all members of a room | extends `RoomEngine`; composes it with the controllers |
| `MC*` | instances for TLC | the module they are named after |
| `RoomEngineProofs`, `RendezvousProofs`, `PipeProofs`, `HostRuntimeProofs` | theorems | the module they are named after, `TLAPS` |
| `TransportProofs` | theorems about both copies of the transport, of a file and of a folder | `CreditFlow`, `DirectoryTransfer`, `TLAPS` |
| `RoomReplicaProofs`, `FileTransferProofs`, `TransferAutomationProofs` | theorems | the module they are named after, `RoomEngineProofs` |

**RoomEngine.** `members`, `channels` and `nextMemberIndex` are the struct's
fields; member `m<i>` is the number `i`. `reply` is what the call returned: the
event, its subject and the recipients. All events of one call that go to others are the same
event, so one record stands for the vector of `RoutedEvent`s. A call that returns an error
is a step with `reply.ok = FALSE`. Pruning is part of `Leave`, removal of a quitting participant
part of `RejectChannel` and `CloseChannel`, as in the code. Names, texts, sizes, fingerprints
and the contents of an offer are left out.

**RoomReplica.** Per joiner `j`: `toHost[j]` and `authority[j]` are the two directions of its
authority link, `peerLink[j]` the host's peer link together with `pending_events`,
`view[j]` its `JoinState`, and `connected` the `Connected` inputs that peer links
will still produce. A host action is one turn of `handle_host_input`: the engine's
action and the deliveries that follow it (`Deliver` is `deliver_routed_events`).
`HostAccepts` is `handle_host_peer_connected` with introductions, welcome and
snapshot. `JoinerCommands` sends and applies optimistically, as
`handle_join_command` does after each `send_peer_command`. `Apply` is
`apply_machine_event`. Chat, accept and channel data change no copy and travel
as messages without effect, or not at all. A lost connection ends a joiner with an error,
so it is the same as its crash (`JoinerExits`); a joiner that starts again is a new member.
`After` is the copy a joiner has when it has read a stream to its end, message by message, and `Caught` what it will have
made of all that is under way to it; the two stream properties compare that with the engine.
Nothing orders the streams of a joiner against each other, and clients may issue any command. Four histories note what follows from
that, for the properties to refer to: `misled` has the joiners that read the host's peer link before the snapshot, or finished a dial to a member that had
left; `ahead` those and the ones that met a newcomer before the host's news of it; `used` and `misused` the channel ids that were opened, and those
that a client opened twice, used without having been told of them, or published though they were not its own.

**Rendezvous.** Each client run has a ticket of its own, so `holder` is a client. Time is
relative: `left` is what remains of the record's life, `lease` what the client that
registered it was granted; `Tick` is a second. The store is behind a mutex
(or one SQLite connection behind one), so each request is a step, together with the
purge it starts with. `Ends` is a crash or a lost or refused request at any stage; `AnswerLost` a
request that was carried out without the client learning of it.
A host registers once and never refreshes, so it may outlive its record, and `delete` asks for no ticket. `evicted` notes the clients whose
record was deleted by one that no longer had a record of its own (`Evicts`).

**CreditFlow.** `sent`, `limit`, `got`, `pending` follow the local variables of
`serve_file_with_credit` and `receive_file_to_temp` (`limit` is `bytes_complete + available_credit`,
`granted` the sum of the receiver's grants, kept only to name the credit messages by the total
they reach). `length` is what the source holds when it is read,
one byte less or more than announced or the same. A write may still succeed after the receiver
has gone, and the last one may be refused by a closed stream and count as success. Size
mismatch, read errors after the last byte and failing credit writes are treated as in the code.
Contents and hashes are left out; so is the directory entry's receiver, whose loop is the same.

**FileTransfer.** A provider opens its channel before it has looked at the path (`SendPath`), a task hashes the
file or plans the folder (`Prepare`), and the main loop publishes the digest or closes the channel (`Publish`, `GiveUp`).
A receiver accepts as soon as it knows the channel (`Accept`); its download task asks the provider, is refused or
writes to a `.part` file, and reports (`IsRefused`, `BeginReceiving`, `IsBroken`, `FinishReceiving`). The published
digest and the end of the download race, and `MaybeFinalize` is where they meet: `JoinerReads` and
`HostHandlesCommand` call it when the digest comes second, `HandleReceived` when the download does.

| variable | in the code |
|---|---|
| `source` | the path at the provider; `EditSource` is somebody who writes to it |
| `prepared`, `registered` | the prepare task and its result; `outgoing_transfers` |
| `view`, `toHost`, `peerLink` | `JoinState.channels` with the digest of the offer; authority link; host's peer link |
| `downloads` | the download tasks and the results they have put in the inbox |
| `received` | `pending_received_files` of each member |
| `parts`, `disk`, `bytes` | directory entries lead to files, files to contents: two downloads that open one `.part` path write to one file, and a rename moves the entry |
| `saved`, `failed`, `ended` | `channel_path_received`, transfer errors, processes ended by a handler's error |

The host executes commands with the actions of `RoomEngine`, so what the engine refuses it refuses here. A content
stands for its hash. A file that two downloads wrote to holds either the contents of the one that ends last or a
mixture (`Mixed`). `clashes` notes the paths that two
downloads of one member were bound for before the first was saved or had failed (`BoundFor`); clients accept what they like, one after the other or at once,
as `--receive` and `--auto-accept` do.
Members stay; crashes are `RoomReplica`'s. A member accepts a channel once and an id is used for one
transfer: second accepts and ids used again are left out, as are file channels opened without a size,
`channel_accepted` (it changes nothing at its readers), and `pending_accepted_files`, which only
those channels fill for longer than one handler. Folders are checked entry by entry on the way and have no digest
to wait for; two of one name are excluded by `PlansAssumption`.

**HostRuntime.** A process starts with `host` or `join` (`RunHost`, `RunJoin`), looks the room up, registers or dials
(`JoinRegisters`, `JoinRetries`, `Connects`), says hello, and is a host or a member until it ends. The host's accept loop
greets one connection at a time (`accepting`) and queues what it has greeted (`arrived`); the main loop takes it from
there. Each action named `Host...` is one turn of `handle_host_input` with everything it writes. A write goes to a writer
task that ends on its first failed write, possibly in the middle of a turn (`WritersRace`): `Sends` folds the writes of a turn over
the state of the writers, and `MeetsDeadWriter` is the send that fails because the task is gone. Whether that error
ends the process is decided per call site, as the `?` in the code does. Events for a link that is not open are counted in `pending` and come out
with `PeerLinkReady`; `view[j]` is the roster that what has been sent to `j` amounts to.
A task that only moves an item into the queue is merged with the turn that handles it.

| variable | in the code |
|---|---|
| `stage`, `session` | how far `main` has come; `SessionMachine` |
| `host`, `registered` | who hosts; the registry's record |
| `accepting`, `arrived` | `spawn_accept_loop`; `ConnectedPeer`s in the inbox |
| `members`, `peers`, `pending`, `peerLink` | engine, `peers` map, `pending_events`, `peer_sender` |
| `writer`, `readers`, `conn` | the link tasks at the host; the connection as the host sees it |
| `inputClosed`, `peerClosed`, `entered` | `local_input_closed`, `peer_closed`, `machine_state_entered` |

**Pipe.** `host` and `snd` are the room engine as far as channels `pipe-1` and `pipe-1-m<i>` go, and the source's
`PipeSenderState`; `gate` is the accept loop of pipe streams; `cast` is `run_pipe_broadcast` with its receivers, their credit and
the commands it has not taken; `flow[m]` is the stream of receiver `m` from the wire to its stdout. Bytes are their positions in stdin, so an
unbroken stream is a run of consecutive numbers. The source may be the host or a joiner. `MayBeOld` are joiners whose
program has no pipe support. Finishing waits 250 ms for the receivers; `Prompt` says whether that is enough.

**DirectoryTransfer** and **FolderPromise.** A provider's accept loop takes transfer connections one at a time (`queue`, `srv`).
A receiver asks for the manifest, and its workers open a request and a credit stream each on one connection (`OpensRequest` holds
`stream_open_lock` until the credit stream is open). The provider takes streams in the order of their ids and starts a task for each pair.
The first error aborts the other workers, whose last writes may still reach the temporary root while it is removed; a root that is left
is used by the next attempt. An entry is nothing, a part or whole; the bytes of one entry are `CreditFlow`'s.
`FolderPromise` knows only outcomes and target paths: an attempt is asked for, and then saves everything in one step or fails, and does one of them.
`P == INSTANCE FolderPromise WITH outcome <- ...` maps the receiver's stage to an outcome, `KeepsPromise` is the refinement of `Promise`, fairness
included; `PromiseSafety` is the promise without its fairness, the part that is also proved. A folder may have no regular file (`FileCount = 0`), which
preparing it accepts (`lib.rs:426-472`, `1078-1134`): its provider has nothing to wait for.

**TransferAutomation.** Every member runs a controller in one of four modes: `send` (a path, stays), `oneshot` (stdin), `receive`, `stdout`.
`ctl[m]` is its `AutomationState`; `run` follows its main loop: running, in the 250 ms of `maybe_finish_one_shot_send` (it reads nothing then),
leaving (stdin closed), failed (a command met a closed stdin) and over. Each `Reads...` action is one arm of `handle_machine_event`
with the `maybe_prepare_member`, `close_one_shot_targets_if_started` and `maybe_finish_one_shot_send` calls it makes. Behind it stand
the engine (`HostTakesCommand` executes `RoomEngine`'s actions) and a coarse transfer: preparing, the digest, the bytes, saving;
`FileTransfer` has the fine one. `offers` is a history of what became of each offer. Digests always match; a file and a folder differ only for
a stdout receiver, so offers are files. The clipboard modes are left out.
The provider reports its last write as progress (`Serves`), and at that point the receiver counts as having every byte (`arrived`).

## 3. The runs

| run | instance | question |
|---|---|---|
| `room_engine` | 3 members, 2 channel ids (symmetric), kinds machine and file, offers provisional and final | is the engine right after any sequence of calls, refused ones included? |
| `replica` | host and 2 joiners, 1 file channel, 2 commands of any kind, streams that overtake each other | does what the host sends amount to the room, whatever interleaves? |
| `rendezvous` | 3 clients, records live 2 ticks, hosts that outlive theirs | is a registered host found, and are dead records freed? |
| `credit_flow` | size 11, window 5, grant 3, chunks up to 2 | window, stall, termination, delivery |
| `transfer_direct` | 3 members; a file joiner→host, host→joiner, joiner→joiner, a folder, or two files of one name, from two joiners to the host or from the host to a joiner, accepted one after the other or at once | is what is saved what was published, is every accept answered, does every process survive? |
| `transfer_broadcast` (violation) | 3 members, one file for everybody | is an accept answered when another recipient rejects? |
| `pipe` | 3 members, any of them the source, 3 bytes, window 1, chunks up to 2, 1 crash, failing hello or old joiner | are streams unbroken, within credit and complete when they end; does anybody hang? |
| `directory` | 2 receivers of 2 files, pools of 2 and 1, 2 attempts and 1, 2 faults | does the pool keep `FolderPromise`; do downloads fail without a fault? |
| `host_runtime` | 1 process started as host, 2 with join (any may become the host), 1 command, 1 crash or lost connection, writers that die in the middle of a turn | roster, sessions, greeting, dropping, leaving, following |
| `host_dies` (violation) | the same with 2 commands and 2 faults, writers that die between turns only | does the host survive its members? |
| `automation` | 3 members, a one-shot sender and both kinds of receiver in every order, or a sender that stays; 1 crash, failed download or failed preparation | does a one-shot sender leave, and cut nobody off? |
| `one_shot_alone` (violation) | 2 members, a one-shot sender that hosts and one receiver, 1 fault | has anybody received or rejected the payload when the sender leaves? |

**Why the bounds are enough.** *Engine*: pruning tells apart a channel that keeps two
participants from one that does not, so three members are needed; with three indices a member can
leave and another come. Two channel ids show that a call on one leaves the other alone. A clipboard
channel is treated like a machine channel and a pipe like a file channel without offer, so two kinds do.
*Replica*: an observer, a member that comes or goes and the host; the commands suffice for an open
and a concurrent reject, close, update or leave. Among two commands and two joiners one thing out of order shows what it leads to:
`InBounds` admits one joiner that gets ahead or one misused command, which counts as two commands (without it, the same properties
hold in 2,883,219 states).
`MCView` leaves out `reply`, which is read only in the step
that writes it, what joiners that are dead or out of the room would still read, and copies of misused channels. *Rendezvous*: a host, a successor and a third client between the two. *Credit*: the file is longer
than two windows, neither size nor window is a multiple of the grant, and chunks split and overlap
grants, so credit runs out mid-grant and the last grant is withheld. *Transfer*: a transfer has one
provider and, once the audience is resolved, receivers that do not talk to each other; three members give each of
them both roles, host and joiner, and a bystander that can reject. Two channels suffice for paths that collide. One edit of
one file puts the change on either side of each read. Of two files one thing goes
wrong (`Mishaps`): their paths clash, or one is edited, or its preparation or download fails; members quit channels as they like. *Pipe*: one receiver that starts with the stream and one that may come late, stall or die; three bytes are a first, a middle and a last, a window of one makes credit run
out after every byte, and a chunk of two asks for more than there is. *Directory*: a pool that holds all files and one that must reuse
its only worker; the second attempt finds what the first has left; two faults let one fail while another is being cleaned up. Folders of one file and of none satisfy
the same properties. *Host runtime*: a host
and a joiner that observes what the other causes; one fault at every point of a turn, with every way a turn is interrupted. The two joiners
are alike, so one of them gives the one command (`OneSpeaks`). *Automation*:
the sender has two receivers that come, answer and go independently; whoever comes last may come after the sender has closed its books. `MCView` leaves out `reply` here, too.

**What the three violations show.** Each checks a sentence of the documentation.

- `transfer_broadcast`: "rejecting one recipient does not affect the others" (`docs/room-architecture.md:892`).
  A joiner that reads anybody's `channel_rejected` or `channel_closed` forgets what it has received of that
  channel (`machine_state.rs:153`), although it stays in it. If the digest is published after that, nothing is left to
  finalize: the file is neither saved nor reported as failed.
- `host_dies`: "in-band machine errors instead of process-level failures" and "failure isolation for one rejected or
  disconnected recipient" (`docs/room-architecture.md:46`, `:846`). A joiner sends a command and loses its connection; the
  writer of its authority link ends on a failed write; the host takes the command before the disconnect, refuses it, and
  cannot queue the refusal. The error ends the host's process, and the room with it.
- `one_shot_alone`: "Stdin sends are one-shot: after at least one peer receives or rejects the payload, the sender leaves the room instead of
  staying online for late joiners" (`README.md:144-146`). The code keeps no record of who has received or rejected anything: `should_finish_one_shot_send`
  (`transfer_automation.rs:562-571`) asks that an offer was made and that the books are empty, and `member_left` (`:708-731`) takes whoever has gone out of
  them. A receiver that joins and dies before it has answered is enough: the sender logs "stdin send complete" and leaves, and
  the payload has reached nobody. The sentence and the code differ in the other direction, too: the code waits for everybody it has made an offer to.
  `NobodyIsCutOff` and `OneShotEnds` are about what the code does, `SomebodyIsServed` is the sentence.

**What the properties excuse.** No constant restricts what the code may do: where it does go wrong the property names the case, by a history variable or
an operator, and claims everything else. These are the cases, and what happens in them.

- `misled` (`StreamsCarryMembership`). The documentation calls room membership "authoritative" (`docs/machine-protocol.md:94`). The snapshot travels on the authority link, `member_joined` on
  the host's peer link. A joiner that reads a newcomer's `member_joined` first and the older snapshot after it replaces its
  members by the snapshot. On the authority link the snapshot is followed by the newcomer's `peer_connect`; the joiner dials the newcomer, and when that succeeds puts it back
  (`machine.rs:983-996`). So it does not know the newcomer while the dial is under way, and for longer only when the dial fails or is not made
  (`machine.rs:930-936`). The reverse also happens: a dial that ends after the member has left brings it back into the copy.
- `ahead` (`StreamsCarryChannels`). A joiner that knows a member before the host says so resolves the audience of an older broadcast channel, which is
  still under way to it, with that member in it.
- `misused` (`StreamsCarryChannels`). A client that opens an id while news of its last use is under way, or publishes to a channel it was not told of, gets a copy that is not the engine's.
  No code keeps it from doing so; what it does to one channel leaves the others right.
- `evicted` (`HostIsFindable`). "rendezvous returns the current host for room `X`" (`docs/room-architecture.md:337`) fails when a host lives longer than its record: another client
  becomes host, the first exits, and its `delete` removes the second's record.
- `clashes` (`SavedPathsHoldVerifiedBytes`, `ProcessesSurvive`, `EveryAcceptEnds`). The free name is chosen among saved paths, so two downloads of
  one name under way at once share a `.part` file. Each verifies the hash of its stream, not of the file, and "only emit `channel_path_received` after the finalized
  digest matches the locally downloaded bytes" (`docs/machine-protocol.md:360`) fails; the second rename finds no file, which ends the receiver's process.
- `GaveUpOutside` (`ProcessesSurvive`). A host that quits a channel dissolves it if it was one of two, and the engine's `UnknownChannel` is tolerated when
  its prepare task fails later. In a channel of more the host is refused with `MemberNotInChannel`, which ends it (`machine.rs:734`).
  `transfer_direct` has channels of two only; the theorem `ProcessesAlwaysSurvive` covers both, and on the plans of `transfer_broadcast` its three invariants were checked as well (186,076 states).
- `Overlooked` (`OneShotEnds`). An accept that is read after the last byte's progress clears the book of offers, and its handler does not ask whether the
  work is done (`transfer_automation.rs:894`): the sender stays until another event makes it look.
- `OnlyWantsDigest` (`NobodyIsCutOff`). A sender that leaves has had its last write accepted; the receiver then needs the digest and a rename, for which the code waits
  250 ms and asks nobody. Whether that is long enough is up to the clock, and no model says so.
- `MayFail` (`OnlyFaultsFailADownload`). A folder without regular files expects no request: its provider writes the manifest, finds nothing to wait for, and closes the
  connection (`lib.rs:941-991`), perhaps before the receiver has read the manifest. Such a download may fail although nothing else has; whether it does is a
  race with the network. A download asked for before its folder is registered is refused, too.

Other limits of the properties are written where they are stated: the opener of a broadcast channel may keep an audience that is not
the engine's (`StreamsCarryChannels` is about the channels of others); a pipe source whose own loop fails may end a stream early
(`EndMeansComplete`); a one-shot sender is never told of a download that failed (`OneShotEnds`); two senders in one room both
call their offers `auto-1` (`SendsAlone`); a connected peer that never answers the hello blocks the accept loop (`GreetersAreServed` is about those that die or answer).

A member that accepts a folder before its plan is made is refused and told so: for `EveryAcceptEnds` that is an answer. "folder transfers stay accepted but waiting until a matching
`channel_transfer_ready` arrives" (`docs/machine-protocol.md:217-220`) promises more; the ready event that `maybe_start_join_pending_receive` and
`maybe_start_host_pending_receive` are handed is made up on the spot, and the download is not started again.
In `KeepsPromise` all attempts are for the same folder: what a temporary root left by another folder of that name adds is not covered.

**Deadlock.** The engine can always be called, and that is checked. The others really stop: a room whose
host has left with all joiners gone, a registry without clients, a finished transfer, a room whose clients send nothing more, a pipe that has ended.

## 4. Fairness

`RoomEngine` and `RoomReplica` have safety properties only. `Rendezvous` assumes that time passes and that the
cleanup task runs (`spawn_cleanup_task` is a loop on an interval timer); no client has to do
anything. `CreditFlow` assumes that each end keeps taking steps it can take: both are
tasks that the tokio runtime polls, and QUIC retransmits until the connection is lost. Connection loss and disk
failure are not fair: they need not happen. `FileTransfer` has one weak fairness condition, on all of `Runtime` (preparing,
downloading, reading links): the processes do not idle while a task or a handler can go on. None of these steps can
be repeated for ever, so nothing starves under it; that a connection that goes silent ends is QUIC's idle timeout (the code sets none of its own). Clients
need not do anything: sends, accepts and rejections are not fair.
`HostRuntime` and `TransferAutomation` have one weak fairness condition each, on `Progress`: tasks that can go on do, of every process alive. In
both, the steps of `Progress` use up what earlier steps have queued (handshakes, messages, commands, downloads) and what a step queues
in turn is of a later kind, so nothing starves, although one condition covers all. Clients, joins, crashes and failures are outside it; that the
connection of an ended process is noticed is inside (idle timeout). `Pipe` and `DirectoryTransfer` have one
condition per task, loop and process, since there a stream of receivers or attempts could keep one of them busy and starve another. In `Pipe` stdin ends and stdout
takes what it is given.

## 5. What is proved

All proofs hold for every value of the constants, under the named assumptions of the modules.

- **RoomEngineProofs.** `EngineTypeCorrect`, `ParticipantsAlwaysMembers` and `NobodyEverLeftAlone` from the
  inductive invariant `IInv`, the conjunction of the three: `ParticipantsAreMembers` needs the type
  of `channels` to compute what pruning leaves, and `NobodyIsLeftAlone` needs `ParticipantsAreMembers` when
  the opener of a lonely channel leaves. There is one lemma for each way a channel function
  changes (opened, pruned, quit, updated) and one step for each action.
  `AudienceNeverGrows`, `LossAlwaysAnnounced` and `IdsNeverReused` are action properties
  proved from `IInv`. `LossAlwaysAnnounced` is what joiners' copies rest on: without it a
  copy made from events alone could not follow the engine. The number of member indices is
  bounded by a constant of any size.
- **RendezvousProofs.** `RegistryTypeCorrect`; and `HostsAlwaysFindable`: every host whose lease has not run out holds the record, unless it is in
  `evicted`. The strengthening (`HostsHold`) also covers clients about to delete, and says that the record lives as long as the lease it
  came with: so a delete by a client whose lease runs finds its own record, and the only other deletes are those that `Evicts` names (`DeleteEvicts`). Hosts may outlive their records, and
  requests, deletes and answers may come in any order.
- **TransportProofs**, of a file. `CreditTypeCorrect`, `WindowAlwaysRespected`, `CreditNeverStalls`, for any sizes with
  `0 < Chunk` and `0 < Grant <= Window`. The strengthening: credit granted is the window plus what the receiver
  has written and returned (`Conserved`), the sender's limit and all messages under way stay within it
  (`WithinCredit`), messages are news to the sender (`CreditsAreNews`), and the largest grant is either
  read or under way (`NothingHeldBack`); the conjunction is `CreditInv`.
- **TransportProofs**, of a folder. `FolderAppearsWhole`: the workers implement `PromiseSafety`, step by step, each step of the pool being one of
  `FolderPromise` or a stutter. The strengthening `Pools` says how far the workers of an attempt have come: entries are taken in order, an entry without a
  worker is taken by nobody or whole, and no live worker of an earlier attempt remains; so when the last result is in, the root that
  is renamed holds every entry, whatever an earlier attempt has left in it. `DirectoryTypeCorrect` needs
  `Connected`: what the provider has taken of a connection are streams it really has, also when the receiver drops it. `OnlyFaultsFail` rests on `IInv`, which adds `Undisturbed`:
  as long as nothing has failed, the streams of a connection come in pairs, request before credit, except for the one the holder of `stream_open_lock` is opening, and
  each task serves the entry its receiver expects. A folder may have any number of files, none included. Assumed are positive numbers of workers (`DirectoryAssumption`) and two names no receiver has
  (`ReceiverAssumption`).
- **PipeProofs.** `PipeTypeCorrect`, `StreamsAlwaysUnbroken`, `WindowNeverOverrun` and `EndAlwaysMeansComplete`, for any input, room, window and chunk, a grant
  within the window and any member as the source (`PipeAssumption`). The actions are first sorted into the few things a step can do to one receiver's stream (`StepKinds`), and
  the invariants proved over these. `HandedOver` follows a stream from the receiver's dial through the accept loop and the source's book to the task, and says that it is
  handed on once; it needs `Absentees` (nobody dials before it has joined) and `OneOffer` (the host is offered the pipe once). `Accounted` is the balance of a receiver's window: credit at the
  source, grants under way, bytes on the wire and bytes written but not returned add up to no more than it. `InOrder`: the stream of a receiver that is
  served ends where the task stands. `Ending`: an end of stream is written when the task is at the end of stdin, or the source's loop has failed.
- **HostRuntimeProofs.** `RuntimeTypeCorrect`, `RosterAlwaysShared` and `SessionsAlwaysOrderly` from one inductive invariant `IInv`. `RosterIsShared` alone is not
  inductive: the host must not be a peer of its own (`Apart`), events are kept only for peers whose link is not there (`Kin`), a process that does not host has no room
  (`RoomNeedsHost`), and one process hosts at a time, the one the registry names (`OneHost`). `Orderly` ties every stage of a process to what its session has recorded.
  The turns of the host fall into four kinds (a step of a process of its own, the host's end, a turn that leaves the roster alone, a turn that changes it), and one
  lemma says what `Sends` leaves in the state of writers, readers and connections. Only names and bounds are assumed (`RuntimeAssumption`).
- **FileTransferProofs.** All three theorems hold for any plans of transfers and whatever clients accept, edit and quit; `PlansAssumption` and `FileOffersAssumption` only say what
  plans and offers are. `TransferTypeCorrect`: the engine's part is `RoomEngineProofs`' `IInv`, used as it stands; its essence is
  that no link and no copy carries a digest but the one the provider has found, and that every path leads to a file there is.
  `SavedPathsAlwaysVerified` goes path by path. `SavingInv` says of each member that channels number its downloads and files (`Numbered`), that a file belongs to one path, as its `.part` file, as
  what is saved there, or as what a download bound for it writes (`Owned`), and that a path without a clash has at most one download, which is well on
  its way, and holds what was verified once it is saved (`Undisputed`). `PathStep` is the core: a step of a download touches one path, and leaves the
  others' invariant as it was because files are owned. So a clash spoils its own path and no other.
  `ProcessesAlwaysSurvive` needs two more facts: in a channel opened for one member only the two parties ever are, so it is dissolved when one quits
  (`Parties`); and a host that is refused because others are still in its channel has opened it for everybody (`GivingUpOutside`). `EndsForAReason` then goes through the two handlers
  that let an error out.
- **RoomReplicaProofs.** `ReplicaTypeCorrect`, `StreamsAlwaysCarryMembership` and `StreamsAlwaysCarryChannels`, for streams in any order and any commands; what is excused is in `misled`,
  `ahead` and `misused` (section 3). Membership: `Following` adds that indices are counted upwards and that nothing has been said to or by a member that is yet to come, so
  a snapshot written for it is the first it reads. `Overwritten` and `MeetingFollowing` are the two steps that nothing orders: what is read ahead of a snapshot is either noted in `misled` or makes no difference. Channels, one id at a time: `Booked(c)` is what sensible use of `c` amounts to with all messages considered, and holds of every id outside `misused`: whoever has to do with `c` has it in use,
  its opening is asked for once and told to each joiner once, and who has given it up has seen its opening and has no copy. `Matching(c)` is the
  property itself for `c`, with the joiner among the participants, and `Agreed` puts them together. For each kind of message one lemma says what reading it does to one channel of a copy; lemmas about `After` then
  relate the end of a stream to what has been appended to it. Its induction over messages takes the least message that fails: `After` is a recursive
  function, and all lemmas have sets and not operators as parameters.
- **TransferAutomationProofs.** `AutomationTypeCorrect` holds for any room and whatever fails. The channel ids are what is hard about it: a sender names its channels by counting, and
  `Kept` says that it has counted exactly the members it has made an offer to, so an id is never used twice and they do not run out. What the host does to the engine is `RoomEngineProofs`' `IInv`, used
  as it stands. `NobodyEverCutOff` speaks of the only sender of a room, since two senders use the same ids
  (`SendsAlone`). `NobodyIsCutOff` compares the sender's decision, made from its own books, with what has become of its offers at their receivers; `LoneInv(s)` follows an offer of the lone sender
  `s` all the way between them. It is settled when it is answered, its receiver is gone or the sender is. Until then it is asked for or in the engine (`Requested`, `Hosted`), its receiver
  knows the channel while it downloads (`Loading`), nothing that would close the channel is on its way to the host or to a member (`Asked`, `Told`), and it is in the sender's
  books unless its last bytes have arrived (`Listing`). `Counted` gives each offer an id of its own, `Comings` keeps members that are yet to come out of all this, and `Parting` carries the
  decision through the grace period, which only its end turns into leaving. When the grace period ends the books are still
  empty, so every offer is answered, or its receiver is gone, or has its last bytes and still knows the channel: accepts and last bytes may be read in any order.

The strengthened invariant of `HostRuntime` was also model-checked, on the instances of `host_runtime` and `host_dies`.

**Only model-checked.** Liveness, since the prover has no rules for fairness and `ENABLED` here: `DeadRoomIsFreed`, `Finishes`, `Delivered`, `EveryAcceptEnds`, `BroadcastMovesOn`,
`ReceiversEnd`, `GreetersAreServed`, `GoneAreDropped`, `LeaversEnd`, `HostFollowsItsPeers`, `OneShotEnds` and the liveness half of `KeepsPromise`. Every safety
property of a passing run is proved. Induction theorems that take an
operator as a parameter are not used: where a proof needs an induction (along the streams of `RoomReplica`, for the least numbers of `Pipe`) it goes by least elements. No module that
is proved about uses `RECURSIVE`.

## 6. Mutants

Definitions marked `bug` are not part of the specifications. Each is a changed form of the definition
it stands before, the kind of mistake one could make in that code, and breaks one property: they show that the
property depends on the code it is about.

## 7. Plan

The safety properties of all specifications are proved, and their liveness is model-checked. What is left is
modelling: a second accept and an id used again while its transfer runs (`FileTransfer`), reading a frame under `select!` with
cancellation, the clipboard modes.

## 8. Not modelled

- **Rate limiter** (`skyffla-rendezvous/src/app.rs`): a sliding window per address behind one lock; sequential.
- **Cancelled reads of a frame** inside `select!`: whether a frame comes in one poll is up to the network library. Listed as a hazard.
- **Clipboard modes** of the automation and clipboard channels: payloads on channels that `RoomEngine` models.
- **Version negotiation** and tickets: pure comparisons and encodings.
- **Local discovery**: time-outs of an mDNS service that the sources only configure.
- **Terminal UI, output sinks, progress, command-line and configuration parsing, identity and trust files**: sequential presentation and I/O.
- **Language wrappers, examples, the site and release scripts**: clients and tooling.
- **QUIC, TLS**: libraries. The specifications use that a stream delivers a prefix of what was written, in
  order, that streams are independent, and that a connection whose other end is gone is found out.
