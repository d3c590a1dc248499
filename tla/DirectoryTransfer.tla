-------------------------- MODULE DirectoryTransfer --------------------------
(***************************************************************************)
(* The download of a folder (skyffla-transport/src/lib.rs).  A provider    *)
(* serves its transfer connections one after the other.  On each, the      *)
(* receiver first gets the plan of the folder; then a pool of workers,     *)
(* one per file, opens two streams each on the shared connection, one for  *)
(* the request and one for credit, and writes the file below a temp root.  *)
(* The provider takes the streams in the order of their ids and starts a   *)
(* task for every pair.  When all files are in, the temp root is renamed.  *)
(*                                                                         *)
(* How bytes flow under credit is CreditFlow's subject: here a file is     *)
(* nothing, a part or whole, "whole" after its trailing hash has matched.  *)
(* The plan is fixed; a receiver's attempts follow one another.            *)
(***************************************************************************)
EXTENDS Naturals, Sequences, FiniteSets, Functions

CONSTANTS
  Receiver,      \* the members that download the folder
  FileCount,     \* the regular files of the folder, which may have none
  Workers,       \* worker_count, which each receiver's environment may set
  MaxFaults,     \* bound: crashes, and files and paths that cannot be read or written
  MaxAttempts    \* bound: attempts of each receiver

ASSUME DirectoryAssumption ==
  /\ FileCount \in Nat
  /\ Workers \in [Receiver -> Nat \ {0}]
  /\ MaxFaults \in Nat
  /\ MaxAttempts \in [Receiver -> Nat]

File     == 1 .. FileCount
Dirs     == 0                           \* the empty directories of the folder, as one entry
Entry    == File \cup {Dirs}
Folder   == [e \in Entry |-> "whole"]
Nothing  == [e \in {} |-> "whole"]      \* an empty directory, or none
NoFolder == "none"
Nobody   == "nobody"
Gone     == "gone"                      \* a connection whose receiver has dropped it

ASSUME ReceiverAssumption == {Nobody, Gone} \cap Receiver = {}

VARIABLES
  up,            \* does the provider's process run?
  registered,    \* is the folder in outgoing_transfers?
  queue,         \* transfer_incoming: connections nobody serves yet
  srv,           \* serve_registered_transfer, for the connection it has
  link,          \* per receiver: is the connection of this attempt open?
  answer,        \* per receiver: the answer to the manifest request
  streams,       \* per receiver: streams opened after the first, in the order of ids
  arrived,       \* per receiver and file: what the provider has put on its stream
  stage,         \* per receiver: receive_directory_with_progress
  worker,        \* per receiver and file: receive_directory_entry
  temp,          \* per receiver: what is below the temp root
  target,        \* per receiver: what is at the target path
  attempts,      \* per receiver: attempts begun
  faults         \* faults so far

provider == <<up, registered, queue, srv>>
wire     == <<link, answer, streams, arrived>>
local    == <<stage, worker, temp, target, attempts>>
directoryVars == <<provider, wire, local, faults>>

Put(f, k, x) == [i \in DOMAIN f \cup {k} |-> IF i = k THEN x ELSE f[i]]

\* half: the request that waits for its credit stream; tasks: files being served,
\* with the file of the credit stream each task has; bad: a task returned Err.
Idle       == [of |-> Nobody, left |-> 0, taken |-> 0, half |-> 0,
               tasks |-> [f \in {} |-> 0], bad |-> FALSE]
NewArrived == [f \in File |-> "nothing"]
NoWorkers  == [f \in File |-> "none"]

DirectoryInit ==
  /\ up = TRUE
  /\ registered = FALSE
  /\ queue = <<>>
  /\ srv = Idle
  /\ link = [r \in Receiver |-> FALSE]
  /\ answer = [r \in Receiver |-> "none"]
  /\ streams = [r \in Receiver |-> <<>>]
  /\ arrived = [r \in Receiver |-> NewArrived]
  /\ stage = [r \in Receiver |-> "idle"]
  /\ worker = [r \in Receiver |-> NoWorkers]
  /\ temp = [r \in Receiver |-> Nothing]
  /\ target = [r \in Receiver |-> NoFolder]
  /\ attempts = [r \in Receiver |-> 0]
  /\ faults = 0

Fault == faults < MaxFaults /\ faults' = faults + 1

-----------------------------------------------------------------------------
(* The receiver: receive_directory_with_progress.                          *)

\* connect_transfer, and the manifest request on the first stream, if anybody is there.
Ask(r) ==
  /\ stage[r] \in {"idle", "failed"}
  /\ attempts[r] < MaxAttempts[r]
  /\ attempts' = [attempts EXCEPT ![r] = @ + 1]
  /\ stage' = [stage EXCEPT ![r] = "asking"]
  /\ link' = [link EXCEPT ![r] = up]
  /\ queue' = IF up THEN Append(queue, r) ELSE queue
  /\ answer' = [answer EXCEPT ![r] = "none"]
  /\ UNCHANGED <<up, registered, srv, streams, arrived, worker, temp, target, faults>>

DropsUnseen(r, outcome) ==               \* bug: the provider goes on with the connection
  /\ stage' = [stage EXCEPT ![r] = outcome]
  /\ worker' = [worker EXCEPT ![r] = NoWorkers]
  /\ link' = [link EXCEPT ![r] = FALSE]
  /\ streams' = [streams EXCEPT ![r] = <<>>]
  /\ arrived' = [arrived EXCEPT ![r] = NewArrived]
  /\ UNCHANGED <<provider, answer, attempts>>

\* The attempt is over: what runs of it is aborted and the connection dropped, in
\* the queue or under the provider's hands.
Drops(r, outcome) ==
  /\ stage' = [stage EXCEPT ![r] = outcome]
  /\ worker' = [worker EXCEPT ![r] = NoWorkers]
  /\ link' = [link EXCEPT ![r] = FALSE]
  /\ streams' = [streams EXCEPT ![r] = <<>>]
  /\ arrived' = [arrived EXCEPT ![r] = NewArrived]
  /\ srv' = IF srv.of = r THEN [Idle EXCEPT !.of = Gone] ELSE srv
  /\ queue' = [i \in DOMAIN queue |-> IF queue[i] = r THEN Gone ELSE queue[i]]
  /\ UNCHANGED <<up, registered, answer, attempts>>

Fails(r) == Drops(r, "failed") /\ UNCHANGED target

\* An error response, or none, for the provider has gone or dropped the connection
\* before its answer was read; or the temp root cannot be made.
AskFails(r) ==
  /\ stage[r] = "asking"
  /\ \/ (answer[r] = "refused" \/ ~link[r]) /\ UNCHANGED faults
     \/ answer[r] = "plan" /\ Fault
  /\ Fails(r)
  /\ UNCHANGED temp

ResumesLeftover(r) ==                    \* bug: files that are there are not asked for
  /\ stage[r] = "asking"
  /\ answer[r] = "plan"
  /\ stage' = [stage EXCEPT ![r] = "receiving"]
  /\ temp' = [temp EXCEPT ![r] = Put(@, Dirs, "whole")]
  /\ worker' = [worker EXCEPT ![r] =
                  [f \in File |-> IF f \in DOMAIN temp[r] THEN "joined"
                                  ELSE IF f <= Workers[r] THEN "queued" ELSE "none"]]
  /\ UNCHANGED <<provider, wire, target, attempts, faults>>

\* The plan is here: create_dir_all takes the temp root as it is, left over or new,
\* the empty directories are made and the first workers spawned, one file each.
StartsWorkers(r) ==
  /\ stage[r] = "asking"
  /\ answer[r] = "plan"
  /\ stage' = [stage EXCEPT ![r] = "receiving"]
  /\ temp' = [temp EXCEPT ![r] = Put(@, Dirs, "whole")]
  /\ worker' = [worker EXCEPT ![r] =
                  [f \in File |-> IF f <= Workers[r] THEN "queued" ELSE "none"]]
  /\ UNCHANGED <<provider, wire, target, attempts, faults>>

\* remove_dir_all runs while file operations of aborted workers may still be under
\* way on other threads: what they make meanwhile is left behind.
RemovesTemp(r) ==
  \E late \in SUBSET {f \in File : worker[r][f] \in {"asked", "copying"}} :
    temp' = [temp EXCEPT ![r] = [f \in late |-> "part"]]

\* receive_directory_entries, before the loop: a directory cannot be made.
DirsFail(r) ==
  /\ stage[r] = "asking"
  /\ answer[r] = "plan"
  /\ Fault
  /\ Fails(r)
  /\ RemovesTemp(r)

Spawned(r) == {f \in File : worker[r][f] # "none"}

\* join_next: a result makes room for the next file; a first error ends it all.
SeesSuccess(r, f) ==
  /\ worker[r][f] = "ok"
  /\ worker' = [worker EXCEPT ![r] =
                  [g \in File |-> IF g = f THEN "joined"
                                  ELSE IF g = Cardinality(Spawned(r)) + 1 THEN "queued"
                                  ELSE @[g]]]
  /\ UNCHANGED <<provider, wire, stage, temp, target, attempts, faults>>

SeesError(r, f) ==
  /\ worker[r][f] = "err"
  /\ Fails(r)
  /\ RemovesTemp(r)
  /\ UNCHANGED faults

\* in_flight is 0: everything that was spawned has been joined.
IsDrained(r) == \A f \in File : worker[r][f] \in {"none", "joined"}

\* rename: the temp root becomes the target, and the connection is dropped.
Renames(r) ==
  /\ stage[r] = "receiving"
  /\ IsDrained(r)
  /\ Drops(r, "saved")
  /\ target' = [target EXCEPT ![r] = temp[r]]
  /\ temp' = [temp EXCEPT ![r] = Nothing]
  /\ UNCHANGED faults

RenameFails(r) ==
  /\ stage[r] = "receiving"
  /\ IsDrained(r)
  /\ Fault
  /\ Fails(r)
  /\ UNCHANGED temp

Crash(r) ==
  /\ stage[r] \in {"asking", "receiving"}
  /\ Fault
  /\ Fails(r)
  /\ UNCHANGED temp

-----------------------------------------------------------------------------
(* A worker: receive_directory_entry.                                      *)

OpensRequestUnlocked(r, f) ==            \* bug: no stream_open_lock
  /\ link[r]
  /\ worker[r][f] = "queued"
  /\ streams' = [streams EXCEPT ![r] = Append(@, [file |-> f, use |-> "request"])]
  /\ worker' = [worker EXCEPT ![r][f] = "locked"]
  /\ UNCHANGED <<provider, link, answer, arrived, stage, temp, target, attempts, faults>>

\* stream_open_lock is held from here until the request is written.
OpensRequest(r, f) ==
  /\ link[r]
  /\ worker[r][f] = "queued"
  /\ \A g \in File : worker[r][g] # "locked"
  /\ streams' = [streams EXCEPT ![r] = Append(@, [file |-> f, use |-> "request"])]
  /\ worker' = [worker EXCEPT ![r][f] = "locked"]
  /\ UNCHANGED <<provider, link, answer, arrived, stage, temp, target, attempts, faults>>

\* One step: a provider that has accepted the request stream in between waits.
OpensCreditAndAsks(r, f) ==
  /\ link[r]
  /\ worker[r][f] = "locked"
  /\ streams' = [streams EXCEPT ![r] = Append(@, [file |-> f, use |-> "credit"])]
  /\ worker' = [worker EXCEPT ![r][f] = "asked"]
  /\ UNCHANGED <<provider, link, answer, arrived, stage, temp, target, attempts, faults>>

\* ReadyFile is here: the file is created, truncated if it was there, and the first
\* credit granted.
CreatesFile(r, f) ==
  /\ worker[r][f] = "asked"
  /\ arrived[r][f] \in {"ready", "all"}
  /\ worker' = [worker EXCEPT ![r][f] = "copying"]
  /\ temp' = [temp EXCEPT ![r] = Put(@, f, "part")]
  /\ UNCHANGED <<provider, wire, stage, target, attempts, faults>>

\* All bytes and the trailing hash are in, and match.
FinishesFile(r, f) ==
  /\ worker[r][f] = "copying"
  /\ arrived[r][f] = "all"
  /\ worker' = [worker EXCEPT ![r][f] = "ok"]
  /\ temp' = [temp EXCEPT ![r] = Put(@, f, "whole")]
  /\ UNCHANGED <<provider, wire, stage, target, attempts, faults>>

\* The stream ends early, the connection is lost, or the disk fails.
WorkerFails(r, f) ==
  /\ worker[r][f] \in {"queued", "locked", "asked", "copying"}
  /\ \/ (~link[r] \/ arrived[r][f] = "cut") /\ UNCHANGED faults
     \/ worker[r][f] \in {"asked", "copying"} /\ arrived[r][f] \in {"ready", "all"} /\ Fault
  /\ worker' = [worker EXCEPT ![r][f] = "err"]
  /\ UNCHANGED <<provider, wire, stage, temp, target, attempts>>

-----------------------------------------------------------------------------
(* The provider: prepare_directory_path_with_progress and                  *)
(* register_outgoing_directory, the transfer accept loop, and              *)
(* serve_registered_transfer.                                              *)

Registers ==
  /\ up /\ ~registered
  /\ registered' = TRUE
  /\ UNCHANGED <<up, queue, srv, wire, local, faults>>

Serving(r) == up /\ srv.of = r

\* The accept loop serves a connection to its end before it takes the next.
TakesConnection ==
  /\ up
  /\ srv.of = Nobody
  /\ queue # <<>>
  /\ srv' = [Idle EXCEPT !.of = Head(queue)]
  /\ queue' = Tail(queue)
  /\ UNCHANGED <<up, registered, wire, local, faults>>

\* serve_registered_transfer returns: the connection is dropped, its tasks aborted.
Returns(r) ==
  /\ srv' = Idle
  /\ link' = [link EXCEPT ![r] = FALSE]
  /\ UNCHANGED <<up, registered, queue, streams, arrived, local, faults>>

AnswersManifest(r) ==
  /\ Serving(r)
  /\ answer[r] = "none"
  /\ \/ /\ registered
        /\ answer' = [answer EXCEPT ![r] = "plan"]
        /\ srv' = [srv EXCEPT !.left = FileCount]
        /\ UNCHANGED <<up, registered, queue, link, streams, arrived, local, faults>>
     \/ /\ ~registered
        /\ answer' = [answer EXCEPT ![r] = "refused"]
        /\ Returns(r)

\* Which of r's streams the provider may accept: the lowest id it has not taken, if
\* it has heard of that stream or of a later one.  A request stream is heard of when
\* it is written to, a credit stream at once: its receiving half is dropped when it
\* is opened, and that is announced.
Announced(r, i) ==
  LET s == streams[r][i]
  IN  s.use = "credit" \/ worker[r][s.file] # "locked"

CanAccept(r) == \E i \in DOMAIN streams[r] : srv.taken < i /\ Announced(r, i)

\* Reading a request waits for its first frame; anything else there is an error.
AcceptsRequest(r) ==
  LET next == srv.taken + 1
      isRequest == streams[r][next].use = "request" IN
  /\ Serving(r)
  /\ srv.left > 0 /\ srv.half = 0
  /\ CanAccept(r)
  /\ Announced(r, next)
  /\ srv' = IF isRequest THEN [srv EXCEPT !.taken = next, !.half = streams[r][next].file]
                          ELSE Idle
  /\ link' = [link EXCEPT ![r] = isRequest]
  /\ UNCHANGED <<up, registered, queue, answer, streams, arrived, local, faults>>

\* The next stream is taken for the credit of this request, and a task spawned.
AcceptsCredit(r) ==
  LET next == srv.taken + 1
      credit == streams[r][next] IN
  /\ Serving(r)
  /\ srv.half # 0
  /\ CanAccept(r)
  /\ srv' = [srv EXCEPT !.taken = next, !.half = 0, !.left = @ - 1,
                        !.tasks = Put(@, srv.half,
                                      IF credit.use = "credit" THEN credit.file ELSE 0)]
  /\ UNCHANGED <<up, registered, queue, wire, local, faults>>

\* A receiver that has dropped the connection is noticed at the next accept, or when
\* the tasks have been.
LosesReceiver ==
  /\ up
  /\ srv.of = Gone
  /\ srv' = Idle
  /\ UNCHANGED <<up, registered, queue, wire, local, faults>>

\* All requests are in: the first task that failed, or the last that ended, is the
\* end.  Of a folder without files it is the end as soon as the plan is written,
\* whether the receiver has read it or not.
JoinsTasks(r) ==
  /\ Serving(r)
  /\ answer[r] = "plan" /\ srv.left = 0
  /\ srv.bad \/ DOMAIN srv.tasks = {}
  /\ Returns(r)
  /\ UNCHANGED answer

\* serve_directory_entry_request
Puts(r, f, what) ==
  /\ arrived' = [arrived EXCEPT ![r][f] = what]
  /\ UNCHANGED <<up, registered, queue, link, answer, streams, local>>

TaskBreaks(r, f) ==
  /\ srv' = [srv EXCEPT !.tasks = Restrict(@, DOMAIN @ \ {f}), !.bad = TRUE]
  /\ Puts(r, f, "cut")

\* The entry is in the plan; whether its file can be opened shows afterwards.
TaskAnswers(r, f) ==
  /\ Serving(r) /\ f \in DOMAIN srv.tasks
  /\ arrived[r][f] = "nothing"
  /\ Puts(r, f, "ready")
  /\ UNCHANGED <<srv, faults>>

\* The file is gone, or shorter than planned.
TaskMissesFile(r, f) ==
  /\ Serving(r) /\ f \in DOMAIN srv.tasks
  /\ arrived[r][f] = "ready"
  /\ Fault
  /\ TaskBreaks(r, f)

\* serve_file_with_credit_and_hash and the trailing hash, once the credit stream the
\* task has brings credit.  What is no credit is an error.
TaskServes(r, f) ==
  LET g == srv.tasks[f] IN
  /\ Serving(r) /\ f \in DOMAIN srv.tasks
  /\ arrived[r][f] = "ready"
  /\ g # 0 => worker[r][g] = "copying"
  /\ IF g = 0 THEN TaskBreaks(r, f) ELSE Puts(r, f, "all") /\ UNCHANGED srv
  /\ UNCHANGED faults

\* The receiver has finished its half of the stream.
TaskEnds(r, f) ==
  /\ Serving(r) /\ f \in DOMAIN srv.tasks
  /\ arrived[r][f] = "all"
  /\ worker[r][f] \in {"ok", "joined"}
  /\ srv' = [srv EXCEPT !.tasks = Restrict(@, DOMAIN @ \ {f})]
  /\ UNCHANGED <<up, registered, queue, wire, local, faults>>

ProviderCrashes ==
  /\ up /\ Fault
  /\ up' = FALSE
  /\ queue' = <<>>
  /\ srv' = Idle
  /\ link' = [r \in Receiver |-> FALSE]
  /\ UNCHANGED <<registered, answer, streams, arrived, local>>

-----------------------------------------------------------------------------
WorkerStep(r, f) ==
  \/ OpensRequest(r, f) \/ OpensCreditAndAsks(r, f)
  \/ CreatesFile(r, f) \/ FinishesFile(r, f) \/ WorkerFails(r, f)

ReceiverStep(r) ==
  \/ StartsWorkers(r) \/ AskFails(r) \/ DirsFail(r)
  \/ \E f \in File : SeesSuccess(r, f) \/ SeesError(r, f)
  \/ Renames(r) \/ RenameFails(r)

TaskStep(r, f) ==
  TaskAnswers(r, f) \/ TaskMissesFile(r, f) \/ TaskServes(r, f) \/ TaskEnds(r, f)

ServeStep(r) ==
  AnswersManifest(r) \/ AcceptsRequest(r) \/ AcceptsCredit(r) \/ JoinsTasks(r)

DirectoryNext ==
  \/ Registers \/ TakesConnection \/ LosesReceiver \/ ProviderCrashes
  \/ \E r \in Receiver :
       \/ Ask(r) \/ Crash(r) \/ ReceiverStep(r) \/ ServeStep(r)
       \/ \E f \in File : WorkerStep(r, f) \/ TaskStep(r, f)

\* Every task and the accept loop run when they can; nobody has to ask or to crash.
DirectorySpec ==
  /\ DirectoryInit /\ [][DirectoryNext]_directoryVars
  /\ WF_directoryVars(TakesConnection \/ LosesReceiver)
  /\ \A r \in Receiver :
       /\ WF_directoryVars(ReceiverStep(r))
       /\ WF_directoryVars(ServeStep(r))
       /\ \A f \in File : WF_directoryVars(WorkerStep(r, f)) /\ WF_directoryVars(TaskStep(r, f))

-----------------------------------------------------------------------------
(* Properties.                                                             *)

\* The parts of the protocol have their types, and the provider has taken two streams
\* for every task it has started, and one for half a pair, of those the connection it
\* serves really has (serve_registered_transfer).
DirectoryTypeOK ==
  /\ up \in BOOLEAN /\ registered \in BOOLEAN
  /\ queue \in Seq(Receiver \cup {Gone})
  /\ srv.of \in Receiver \cup {Gone, Nobody}
  /\ srv.left \in 0 .. FileCount /\ srv.half \in 0 .. FileCount
  /\ DOMAIN srv.tasks \subseteq File
  /\ \A r \in Receiver :
       /\ answer[r] \in {"none", "plan", "refused"}
       /\ streams[r] \in Seq([file : File, use : {"request", "credit"}])
       /\ arrived[r] \in [File -> {"nothing", "ready", "all", "cut"}]
       /\ stage[r] \in {"idle", "asking", "receiving", "saved", "failed"}
       /\ DOMAIN temp[r] \subseteq Entry
       /\ attempts[r] \in 0 .. MaxAttempts[r]
       /\ Serving(r) /\ answer[r] = "plan" =>
            /\ srv.taken = 2 * (FileCount - srv.left) + (IF srv.half # 0 THEN 1 ELSE 0)
            /\ srv.taken <= Len(streams[r])

\* However the streams of the workers and the steps of the provider interleave,
\* nothing but a fault, or a request made before the folder is registered, makes a
\* download fail: no worker is handed another's credit stream
\* (receive_directory_entry, stream_open_lock), none waits for a stream that the
\* provider has not heard of, and the provider does not drop the connection early.
\* The exception is a folder without regular files: its provider waits for nobody
\* and drops the connection under a plan that may not have been read.
MayFail(r) == answer[r] = "refused" \/ (FileCount = 0 /\ answer[r] = "plan")

OnlyFaultsFailADownload ==
  faults = 0 => \A r \in Receiver : stage[r] = "failed" => MayFail(r)

\* The target path gets the whole folder or nothing, whatever fails when and
\* whatever an earlier attempt left below the temp root; every attempt ends
\* (receive_directory_with_progress).
Outcome(r) == CASE stage[r] = "idle" -> "none"
                [] stage[r] \in {"asking", "receiving"} -> "pending"
                [] OTHER -> stage[r]

P == INSTANCE FolderPromise WITH outcome <- [r \in Receiver |-> Outcome(r)]
KeepsPromise == P!Promise
=============================================================================
