--------------------------- MODULE TransportProofs ---------------------------
(***************************************************************************)
(* Theorems about the transport's two copies (skyffla-transport/src/       *)
(* lib.rs).  Of a file (CreditFlow), for every file size, window, grant    *)
(* and chunk: the window is respected and the two ends never wait for each *)
(* other.  Of a folder (DirectoryTransfer), for every set of receivers,    *)
(* number of files, size of the pools and number of attempts: the types of *)
(* a download and the count of its streams, that only a fault fails it,    *)
(* and that the target path gets the whole folder or nothing.              *)
(***************************************************************************)
EXTENDS CreditFlow, DirectoryTransfer, SequenceTheorems, FiniteSetTheorems, TLAPS

-----------------------------------------------------------------------------
(* The copy of a file: its inductive invariant.                            *)

\* No byte of the window gets lost: what the receiver has granted, and what it
\* has yet to return, is the window beyond what it has received.
Conserved == granted + pending = Window + got /\ Window <= granted

\* The sender stays within the credit it has read, and reads what was granted.
WithinCredit == got <= sent /\ sent <= limit /\ limit <= granted

\* The messages under way are exactly the news: beyond what was read, up to the
\* last grant.
CreditsAreNews ==
  /\ \A total \in credits : limit < total /\ total <= granted
  /\ limit < granted => granted \in credits

\* While both ends are at work, no grant that is due is held back.
NothingHeldBack ==
  sender = "sending" /\ receiver = "receiving" => pending < Grant \/ got = Size

CreditInv == TypeOK /\ Conserved /\ WithinCredit /\ CreditsAreNews /\ NothingHeldBack

LEMMA InitEstablishes == Init => CreditInv
<1> SUFFICES ASSUME Init PROVE CreditInv
  OBVIOUS
<1> USE SizesAssumption DEF Init
<1>1. TypeOK
  <2>1. length \in Nat
    OBVIOUS
  <2>2. sent \in 0 .. Size /\ got \in 0 .. Size
    OBVIOUS
  <2>3. credits \subseteq Nat /\ granted \in Nat /\ limit \in Nat /\ pending \in Nat
    OBVIOUS
  <2>4. sender = "sending" /\ receiver = "receiving" /\ broken \in BOOLEAN
    OBVIOUS
  <2>5. QED  BY <2>1, <2>2, <2>3, <2>4 DEF TypeOK
<1>2. Conserved /\ WithinCredit /\ NothingHeldBack
  BY DEF Conserved, WithinCredit, NothingHeldBack
<1>3. CreditsAreNews
  BY DEF CreditsAreNews
<1>4. QED  BY <1>1, <1>2, <1>3 DEF CreditInv

\* Reading credit makes the smallest message under way the new limit.
LEMMA ReadCreditPreserves == CreditInv /\ ReadCredit => CreditInv'
<1> SUFFICES ASSUME CreditInv, ReadCredit PROVE CreditInv'
  OBVIOUS
<1> USE SizesAssumption DEF ReadCredit, receiving
<1>1. PICK total \in credits :
        /\ \A other \in credits : total <= other
        /\ limit' = total
        /\ credits' = credits \ {total}
  OBVIOUS
<1>2. total \in Nat /\ limit < total /\ total <= granted
  BY DEF CreditInv, TypeOK, CreditsAreNews
<1>3. TypeOK'
  BY <1>1, <1>2 DEF CreditInv, TypeOK
<1>4. Conserved' /\ NothingHeldBack'
  BY DEF CreditInv, Conserved, NothingHeldBack
<1>5. WithinCredit'
  BY <1>1, <1>2 DEF CreditInv, TypeOK, WithinCredit
<1>6. CreditsAreNews'
  <2>1. ASSUME NEW other \in credits' PROVE limit' < other /\ other <= granted'
    BY <2>1, <1>1, <1>2 DEF CreditInv, TypeOK, CreditsAreNews
  <2>2. ASSUME limit' < granted' PROVE granted' \in credits'
    BY <2>2, <1>1, <1>2 DEF CreditInv, TypeOK, CreditsAreNews
  <2>3. QED  BY <2>1, <2>2 DEF CreditsAreNews
<1>7. QED  BY <1>3, <1>4, <1>5, <1>6 DEF CreditInv

\* Receiving a chunk moves its bytes from the stream to what is pending, and from
\* there into a grant as soon as that is due.
LEMMA ReceivePreserves ==
  ASSUME CreditInv, NEW n \in 1 .. Chunk, Receive(n)
  PROVE  CreditInv'
<1> USE SizesAssumption DEF Receive, sending
<1>1. got' = got + n /\ n <= sent - got /\ n \in Nat
  OBVIOUS
<1>2. CASE EnoughToGrant(pending + n) /\ got' < Size /\ sender = "sending"
  <2>1. /\ pending' = 0 /\ granted' = granted + pending + n
        /\ credits' = credits \cup {granted'}
    BY <1>2
  <2>2. TypeOK' /\ Conserved' /\ WithinCredit'
    BY <1>1, <2>1 DEF CreditInv, TypeOK, Conserved, WithinCredit
  <2>3. CreditsAreNews'
    BY <1>1, <2>1 DEF CreditInv, TypeOK, WithinCredit, CreditsAreNews
  <2>4. NothingHeldBack'
    BY <2>1 DEF NothingHeldBack
  <2>5. QED  BY <2>2, <2>3, <2>4 DEF CreditInv
<1>3. CASE ~(EnoughToGrant(pending + n) /\ got' < Size /\ sender = "sending")
  <2>1. pending' = pending + n /\ UNCHANGED <<granted, credits>>
    BY <1>3
  <2>2. TypeOK' /\ Conserved' /\ WithinCredit'
    BY <1>1, <2>1 DEF CreditInv, TypeOK, Conserved, WithinCredit
  <2>3. CreditsAreNews'
    BY <2>1 DEF CreditInv, CreditsAreNews
  <2>4. NothingHeldBack'
    BY <1>1, <1>3, <2>1, <2>2 DEF CreditInv, TypeOK, NothingHeldBack, EnoughToGrant
  <2>5. QED  BY <2>2, <2>3, <2>4 DEF CreditInv
<1>4. QED  BY <1>2, <1>3

LEMMA StepPreserves == CreditInv /\ [Next]_vars => CreditInv'
<1> SUFFICES ASSUME CreditInv, [Next]_vars PROVE CreditInv'
  OBVIOUS
<1> USE SizesAssumption
     DEF CreditInv, TypeOK, Conserved, WithinCredit, CreditsAreNews, NothingHeldBack,
         receiving, sending
<1>1. CASE ReadCredit
  BY <1>1, ReadCreditPreserves
<1>2. ASSUME NEW n \in 1 .. Chunk, Send(n) PROVE CreditInv'
  BY <1>2 DEF Send
<1>3. CASE SourceTooShort
  BY <1>3 DEF SourceTooShort
<1>4. CASE ReceiverLost
  BY <1>4 DEF ReceiverLost
<1>5. CASE LastChunkRefused
  BY <1>5 DEF LastChunkRefused
<1>6. CASE SentAll
  BY <1>6 DEF SentAll
<1>7. ASSUME NEW n \in 1 .. Chunk, Receive(n) PROVE CreditInv'
  BY <1>7, ReceivePreserves
<1>8. CASE StreamEnds
  BY <1>8 DEF StreamEnds
<1>9. CASE ReadFails
  BY <1>9 DEF ReadFails
<1>10. CASE ConnectionLost
  BY <1>10 DEF ConnectionLost
<1>11. CASE DiskFails
  BY <1>11 DEF DiskFails
<1>12. CASE UNCHANGED vars
  BY <1>12 DEF vars
<1>13. QED
  BY <1>1, <1>2, <1>3, <1>4, <1>5, <1>6, <1>7, <1>8, <1>9, <1>10, <1>11, <1>12
     DEF Next, SendingStep, ReceivingStep

LEMMA InvariantHolds == Spec => []CreditInv
BY InitEstablishes, StepPreserves, PTL DEF Spec

-----------------------------------------------------------------------------
\* The counters of both ends stay in range for every size of file and chunk.
THEOREM CreditTypeCorrect == Spec => []TypeOK
<1>1. CreditInv => TypeOK
  BY DEF CreditInv
<1>2. QED  BY <1>1, InvariantHolds, PTL

\* The sender is never more than a window ahead of the receiver.
THEOREM WindowAlwaysRespected == Spec => []WindowRespected
<1>1. CreditInv => WindowRespected
  BY SizesAssumption DEF CreditInv, TypeOK, Conserved, WithinCredit, WindowRespected
<1>2. QED  BY <1>1, InvariantHolds, PTL

\* As long as a grant is no larger than the window, sender and receiver never
\* both wait.
THEOREM CreditNeverStalls == Spec => []NeverStalled
<1>1. CreditInv => NeverStalled
  <2> SUFFICES ASSUME CreditInv, sender = "sending", receiver = "receiving",
                      ~(sent < limit), credits = {}, ~(got < sent)
               PROVE  limit > 0 /\ sent = Size
    BY DEF NeverStalled
  <2>1. sent = limit /\ limit = granted /\ got = sent
    BY DEF CreditInv, TypeOK, WithinCredit, CreditsAreNews
  <2>2. pending = Window
    BY <2>1, SizesAssumption DEF CreditInv, TypeOK, Conserved
  <2>3. got = Size
    BY <2>2, SizesAssumption DEF CreditInv, TypeOK, NothingHeldBack
  <2>4. limit > 0
    BY <2>1, SizesAssumption DEF CreditInv, TypeOK, Conserved
  <2>5. QED  BY <2>1, <2>3, <2>4
<1>2. QED  BY <1>1, InvariantHolds, PTL

-----------------------------------------------------------------------------
(* The download of a folder.                                               *)

Peer    == Receiver \cup {Gone}
Stream  == [file : File, use : {"request", "credit"}]
TaskMap == UNION {[S -> File \cup {0}] : S \in SUBSET File}
TempMap == UNION {[S -> {"part", "whole"}] : S \in SUBSET Entry}
Server  == [of : Peer \cup {Nobody}, left : 0 .. FileCount, taken : Nat,
            half : 0 .. FileCount, tasks : TaskMap, bad : BOOLEAN]

\* The state of the provider, of the wire and of the receivers, part by part.
ProviderTyped ==
  /\ up \in BOOLEAN /\ registered \in BOOLEAN
  /\ queue \in Seq(Peer)
  /\ srv \in Server
  /\ srv.half # 0 => srv.left > 0

WireTyped ==
  /\ link \in [Receiver -> BOOLEAN]
  /\ answer \in [Receiver -> {"none", "plan", "refused"}]
  /\ streams \in [Receiver -> Seq(Stream)]
  /\ arrived \in [Receiver -> [File -> {"nothing", "ready", "all", "cut"}]]

LocalTyped ==
  /\ stage \in [Receiver -> {"idle", "asking", "receiving", "saved", "failed"}]
  /\ worker \in [Receiver -> [File -> {"none", "queued", "locked", "asked", "copying",
                                       "ok", "err", "joined"}]]
  /\ temp \in [Receiver -> TempMap]
  /\ target = [r \in Receiver |-> target[r]]
  /\ attempts \in [Receiver -> Nat]
  /\ \A r \in Receiver : attempts[r] <= MaxAttempts[r]

Typed == ProviderTyped /\ WireTyped /\ LocalTyped /\ faults \in Nat

-----------------------------------------------------------------------------
(* The maps of tasks and of what is below a temp root.                     *)

\* A map with one more entry is a map (Put, the tasks of serve_registered_transfer).
LEMMA PutTask ==
  ASSUME NEW m \in TaskMap, NEW f \in File, NEW g \in File \cup {0}
  PROVE  Put(m, f, g) \in TaskMap
<1>1. PICK S \in SUBSET File : m \in [S -> File \cup {0}]
  BY DEF TaskMap
<1>2. Put(m, f, g) \in [S \cup {f} -> File \cup {0}]
  BY <1>1 DEF Put
<1>3. S \cup {f} \in SUBSET File
  OBVIOUS
<1>4. QED  BY <1>2, <1>3 DEF TaskMap

\* No task yet is a map of tasks, and a map without a task that has ended is one.
LEMMA FewerTasks ==
  /\ [f \in {} |-> 0] \in TaskMap
  /\ \A m \in TaskMap, f \in File : Restrict(m, DOMAIN m \ {f}) \in TaskMap
<1>1. [f \in {} |-> 0] \in [{} -> File \cup {0}]
  OBVIOUS
<1>2. ASSUME NEW m \in TaskMap, NEW f \in File
      PROVE  Restrict(m, DOMAIN m \ {f}) \in TaskMap
  <2>1. PICK S \in SUBSET File : m \in [S -> File \cup {0}]
    BY DEF TaskMap
  <2>2. Restrict(m, DOMAIN m \ {f}) \in [S \ {f} -> File \cup {0}]
    BY <2>1 DEF Restrict
  <2>3. S \ {f} \in SUBSET File
    OBVIOUS
  <2>4. QED  BY <2>2, <2>3 DEF TaskMap
<1>3. {} \in SUBSET File
  OBVIOUS
<1>4. QED  BY <1>1, <1>2, <1>3 DEF TaskMap

\* Every task is of a file.
LEMMA TasksAreFiles ==
  ASSUME NEW m \in TaskMap
  PROVE  DOMAIN m \subseteq File /\ \A f \in DOMAIN m : m[f] \in File \cup {0}
BY DEF TaskMap

\* What is below a temp root stays a map of entries when one is written, and when
\* all but what late file operations make is removed.
LEMMA PutEntry ==
  ASSUME NEW m \in TempMap, NEW e \in Entry, NEW w \in {"part", "whole"}
  PROVE  Put(m, e, w) \in TempMap
<1>1. PICK S \in SUBSET Entry : m \in [S -> {"part", "whole"}]
  BY DEF TempMap
<1>2. Put(m, e, w) \in [S \cup {e} -> {"part", "whole"}]
  BY <1>1 DEF Put
<1>3. S \cup {e} \in SUBSET Entry
  OBVIOUS
<1>4. QED  BY <1>2, <1>3 DEF TempMap

LEMMA LeftOver ==
  ASSUME NEW late \in SUBSET File
  PROVE  [f \in late |-> "part"] \in TempMap /\ Nothing \in TempMap
<1>1. [f \in late |-> "part"] \in [late -> {"part", "whole"}]
  OBVIOUS
<1>2. Nothing \in [{} -> {"part", "whole"}]
  BY DEF Nothing
<1>3. late \in SUBSET Entry /\ {} \in SUBSET Entry
  BY DEF Entry
<1>4. QED  BY <1>1, <1>2, <1>3 DEF TempMap

\* An entry of a temp root is an entry of the folder.
LEMMA TempHoldsEntries ==
  ASSUME NEW m \in TempMap
  PROVE  DOMAIN m \subseteq Entry /\ m = [e \in DOMAIN m |-> m[e]]
BY DEF TempMap

\* Whoever is served next starts with nothing taken (serve_registered_transfer).
LEMMA IdleTyped ==
  /\ Idle \in Server
  /\ \A p \in Peer : [Idle EXCEPT !.of = p] \in Server
<1>1. 0 \in 0 .. FileCount
  BY DirectoryAssumption
<1>2. [f \in {} |-> 0] \in TaskMap
  BY FewerTasks
<1>3. \A p \in Peer \cup {Nobody} :
        [of |-> p, left |-> 0, taken |-> 0, half |-> 0,
         tasks |-> [f \in {} |-> 0], bad |-> FALSE] \in Server
  BY <1>1, <1>2 DEF Server
<1>4. QED  BY <1>3 DEF Idle

-----------------------------------------------------------------------------
(* Types.                                                                  *)

LEMMA InitTyped == DirectoryInit => Typed
<1> SUFFICES ASSUME DirectoryInit PROVE Typed
  OBVIOUS
<1> USE DirectoryAssumption DEF DirectoryInit
<1>1. ProviderTyped
  <2>1. queue \in Seq(Peer)
    BY EmptySeq
  <2>2. Idle.half = 0
    BY DEF Idle
  <2>3. QED  BY <2>1, <2>2, IdleTyped DEF ProviderTyped
<1>2. WireTyped
  BY EmptySeq DEF WireTyped, NewArrived
<1>3. LocalTyped
  <2>1. Nothing \in TempMap
    BY LeftOver
  <2>2. QED  BY <2>1 DEF LocalTyped, NoWorkers
<1>4. faults \in Nat
  OBVIOUS
<1>5. QED  BY <1>1, <1>2, <1>3, <1>4 DEF Typed

\* The end of an attempt, whatever its outcome.
LEMMA DropsTyped ==
  ASSUME Typed, NEW r \in Receiver, NEW outcome \in {"saved", "failed"}, Drops(r, outcome)
  PROVE  ProviderTyped' /\ WireTyped'
<1> USE DEF Drops
<1>1. queue' \in Seq(Peer)
  <2>1. queue \in Seq(Peer) /\ Gone \in Peer
    BY DEF Typed, ProviderTyped, Peer
  <2>2. \A i \in 1 .. Len(queue) : (IF queue[i] = r THEN Gone ELSE queue[i]) \in Peer
    BY <2>1, ElementOfSeq
  <2>3. queue' \in [1 .. Len(queue) -> Peer]
    BY <2>1, <2>2, LenProperties
  <2>4. QED  BY <2>1, <2>3, LenProperties, SeqDef
<1>2. ProviderTyped'
  <2>1. Gone \in Peer /\ [Idle EXCEPT !.of = Gone].half = 0
    BY DEF Peer, Idle
  <2>2. QED  BY <1>1, <2>1, IdleTyped DEF Typed, ProviderTyped
<1>3. WireTyped'
  BY EmptySeq DEF Typed, WireTyped, NewArrived
<1>4. QED  BY <1>2, <1>3

\* The five ways an attempt fails have this much in common.
Failing(r) ==
  \/ AskFails(r) \/ DirsFail(r) \/ RenameFails(r) \/ Crash(r)
  \/ \E f \in File : SeesError(r, f)

LEMMA FailingIsFails ==
  ASSUME Typed, NEW r \in Receiver, Failing(r)
  PROVE  Fails(r) /\ (UNCHANGED temp \/ RemovesTemp(r)) /\ faults' \in Nat
BY DEF Failing, AskFails, DirsFail, RenameFails, Crash, SeesError, Fault, Typed

LEMMA FailingTyped ==
  ASSUME Typed, NEW r \in Receiver, Failing(r)
  PROVE  Typed'
<1>1. Fails(r) /\ (UNCHANGED temp \/ RemovesTemp(r)) /\ faults' \in Nat
  BY FailingIsFails
<1>2. ProviderTyped' /\ WireTyped'
  BY <1>1, DropsTyped DEF Fails
<1>3. temp' \in [Receiver -> TempMap]
  <2>1. CASE UNCHANGED temp
    BY <2>1 DEF Typed, LocalTyped
  <2>2. CASE RemovesTemp(r)
    BY <2>2, LeftOver DEF RemovesTemp, Typed, LocalTyped
  <2>3. QED  BY <1>1, <2>1, <2>2
<1>4. LocalTyped'
  BY <1>1, <1>3 DEF Fails, Drops, Typed, LocalTyped, NoWorkers
<1>5. QED  BY <1>1, <1>2, <1>4 DEF Typed

\* Asking, and the receiver's steps that do not fail.
LEMMA ReceiverTyped ==
  ASSUME Typed, NEW r \in Receiver,
         Ask(r) \/ StartsWorkers(r) \/ Renames(r) \/ \E f \in File : SeesSuccess(r, f)
  PROVE  Typed'
<1>1. CASE Ask(r)
  <2>1. queue' \in Seq(Peer)
    <3>1. queue \in Seq(Peer) /\ r \in Peer
      BY DEF Typed, ProviderTyped, Peer
    <3>2. Append(queue, r) \in Seq(Peer)
      BY <3>1, AppendProperties
    <3>3. QED  BY <1>1, <3>1, <3>2 DEF Ask
  <2>2. ProviderTyped' /\ WireTyped'
    BY <1>1, <2>1 DEF Ask, Typed, ProviderTyped, WireTyped
  <2>3. attempts' \in [Receiver -> Nat] /\ \A q \in Receiver : attempts'[q] <= MaxAttempts[q]
    <3>1. attempts[r] \in Nat /\ MaxAttempts[r] \in Nat /\ attempts[r] < MaxAttempts[r]
      BY <1>1, DirectoryAssumption DEF Ask, Typed, LocalTyped
    <3>2. attempts[r] + 1 \in Nat /\ attempts[r] + 1 <= MaxAttempts[r]
      BY <3>1
    <3>3. QED  BY <1>1, <3>2 DEF Ask, Typed, LocalTyped
  <2>4. LocalTyped' /\ faults' \in Nat
    BY <1>1, <2>3 DEF Ask, Typed, LocalTyped
  <2>5. QED  BY <2>2, <2>4 DEF Typed
<1>2. CASE StartsWorkers(r)
  <2>1. temp' \in [Receiver -> TempMap]
    <3>1. Put(temp[r], Dirs, "whole") \in TempMap
      BY PutEntry DEF Typed, LocalTyped, Entry
    <3>2. QED  BY <1>2, <3>1 DEF StartsWorkers, Typed, LocalTyped
  <2>2. QED
    BY <1>2, <2>1
       DEF StartsWorkers, Typed, ProviderTyped, WireTyped, LocalTyped, provider, wire
<1>3. CASE Renames(r)
  <2>1. ProviderTyped' /\ WireTyped'
    BY <1>3, DropsTyped DEF Renames
  <2>2. LocalTyped' /\ faults' \in Nat
    BY <1>3, LeftOver DEF Renames, Drops, Typed, LocalTyped, NoWorkers
  <2>3. QED  BY <2>1, <2>2 DEF Typed
<1>4. ASSUME NEW f \in File, SeesSuccess(r, f) PROVE Typed'
  BY <1>4 DEF SeesSuccess, Typed, ProviderTyped, WireTyped, LocalTyped, provider, wire
<1>5. QED  BY <1>1, <1>2, <1>3, <1>4

LEMMA WorkerTyped ==
  ASSUME Typed, NEW r \in Receiver, NEW f \in File, WorkerStep(r, f)
  PROVE  Typed'
<1> USE DEF Typed, ProviderTyped, WireTyped, LocalTyped, provider, wire
<1>1. ASSUME NEW use \in {"request", "credit"},
             streams' = [streams EXCEPT ![r] = Append(@, [file |-> f, use |-> use])]
      PROVE  streams' \in [Receiver -> Seq(Stream)]
  <2>1. [file |-> f, use |-> use] \in Stream
    BY DEF Stream
  <2>2. Append(streams[r], [file |-> f, use |-> use]) \in Seq(Stream)
    BY <2>1, AppendProperties
  <2>3. QED  BY <1>1, <2>2
<1>2. CASE OpensRequest(r, f)
  BY <1>1, <1>2 DEF OpensRequest
<1>3. CASE OpensCreditAndAsks(r, f)
  BY <1>1, <1>3 DEF OpensCreditAndAsks
<1>4. ASSUME NEW w \in {"part", "whole"}, temp' = [temp EXCEPT ![r] = Put(@, f, w)]
      PROVE  temp' \in [Receiver -> TempMap]
  <2>1. Put(temp[r], f, w) \in TempMap
    BY PutEntry DEF Entry
  <2>2. QED  BY <1>4, <2>1
<1>5. CASE CreatesFile(r, f)
  BY <1>4, <1>5 DEF CreatesFile
<1>6. CASE FinishesFile(r, f)
  BY <1>4, <1>6 DEF FinishesFile
<1>7. CASE WorkerFails(r, f)
  BY <1>7 DEF WorkerFails, Fault
<1>8. QED  BY <1>2, <1>3, <1>5, <1>6, <1>7 DEF WorkerStep

LEMMA TaskTyped ==
  ASSUME Typed, NEW r \in Receiver, NEW f \in File, TaskStep(r, f)
  PROVE  Typed'
<1>1. srv \in Server /\ Restrict(srv.tasks, DOMAIN srv.tasks \ {f}) \in TaskMap
  BY FewerTasks DEF Typed, ProviderTyped, Server
<1>2. [srv EXCEPT !.tasks = Restrict(@, DOMAIN @ \ {f})] \in Server
  BY <1>1 DEF Server
<1>3. [srv EXCEPT !.tasks = Restrict(@, DOMAIN @ \ {f}), !.bad = TRUE] \in Server
  BY <1>1 DEF Server
<1>4. ASSUME NEW what \in {"ready", "all", "cut"}, Puts(r, f, what)
      PROVE  WireTyped' /\ LocalTyped' /\ UNCHANGED <<up, registered, queue>>
  BY <1>4 DEF Puts, Typed, WireTyped, LocalTyped, local
<1>5. ASSUME TaskBreaks(r, f) PROVE ProviderTyped' /\ WireTyped' /\ LocalTyped'
  <2>1. srv' = [srv EXCEPT !.tasks = Restrict(@, DOMAIN @ \ {f}), !.bad = TRUE]
    BY <1>5 DEF TaskBreaks
  <2>2. srv' \in Server /\ srv'.half = srv.half /\ srv'.left = srv.left
    BY <1>1, <1>3, <2>1 DEF Server
  <2>3. QED  BY <1>4, <1>5, <2>2 DEF TaskBreaks, Typed, ProviderTyped
<1>6. CASE TaskAnswers(r, f)
  BY <1>4, <1>6 DEF TaskAnswers, Typed, ProviderTyped
<1>7. CASE TaskMissesFile(r, f)
  BY <1>5, <1>7 DEF TaskMissesFile, Fault, Typed
<1>8. CASE TaskServes(r, f)
  <2>1. CASE srv.tasks[f] = 0
    <3>1. TaskBreaks(r, f) /\ faults' = faults
      BY <1>8, <2>1 DEF TaskServes
    <3>2. QED  BY <1>5, <3>1 DEF Typed
  <2>2. CASE srv.tasks[f] # 0
    <3>1. Puts(r, f, "all") /\ srv' = srv /\ faults' = faults
      BY <1>8, <2>2 DEF TaskServes
    <3>2. QED  BY <1>4, <3>1 DEF Typed, ProviderTyped
  <2>3. QED  BY <2>1, <2>2
<1>9. CASE TaskEnds(r, f)
  <2>1. srv' = [srv EXCEPT !.tasks = Restrict(@, DOMAIN @ \ {f})]
    BY <1>9 DEF TaskEnds
  <2>2. srv' \in Server /\ srv'.half = srv.half /\ srv'.left = srv.left
    BY <1>1, <1>2, <2>1 DEF Server
  <2>3. QED
    BY <1>9, <2>2 DEF TaskEnds, Typed, ProviderTyped, WireTyped, LocalTyped, wire, local
<1>10. QED  BY <1>6, <1>7, <1>8, <1>9 DEF TaskStep

\* The next stream of a connection, when the provider may accept one, is there.
LEMMA NextStreamIsThere ==
  ASSUME Typed, NEW r \in Receiver, CanAccept(r)
  PROVE  /\ srv.taken + 1 \in DOMAIN streams[r]
         /\ srv.taken + 1 <= Len(streams[r])
         /\ streams[r][srv.taken + 1] \in Stream
<1>1. streams[r] \in Seq(Stream) /\ srv.taken \in Nat
  BY DEF Typed, ProviderTyped, WireTyped, Server
<1>2. PICK i \in DOMAIN streams[r] : srv.taken < i
  BY DEF CanAccept
<1>3. DOMAIN streams[r] = 1 .. Len(streams[r]) /\ Len(streams[r]) \in Nat
  BY <1>1, LenProperties
<1>4. srv.taken + 1 \in 1 .. Len(streams[r])
  BY <1>1, <1>2, <1>3
<1>5. QED  BY <1>1, <1>3, <1>4, ElementOfSeq

LEMMA ServeTyped ==
  ASSUME Typed, NEW r \in Receiver, ServeStep(r)
  PROVE  Typed'
<1> DEFINE next == srv.taken + 1
<1>1. /\ srv \in Server /\ Idle \in Server /\ Idle.half = 0
      /\ srv.half # 0 => srv.left > 0
  BY IdleTyped DEF Typed, ProviderTyped, Idle
<1>2. srv' \in Server /\ (srv'.half # 0 => srv'.left > 0)
  <2>1. CASE AnswersManifest(r)
    <3>1. FileCount \in 0 .. FileCount /\ (srv.half # 0 => FileCount > 0)
      BY <1>1, DirectoryAssumption DEF Server
    <3>2. [srv EXCEPT !.left = FileCount] \in Server
      BY <1>1, <3>1 DEF Server
    <3>3. QED  BY <1>1, <2>1, <3>1, <3>2 DEF AnswersManifest, Returns, Server
  <2>2. CASE AcceptsRequest(r)
    <3>1. streams[r][next].file \in File
      BY <2>2, NextStreamIsThere DEF AcceptsRequest, Stream
    <3>2. [srv EXCEPT !.taken = next, !.half = streams[r][next].file] \in Server
      <4>1. next \in Nat /\ streams[r][next].file \in 0 .. FileCount
        BY <1>1, <3>1, DirectoryAssumption DEF Server, File
      <4>2. QED  BY <1>1, <4>1 DEF Server
    <3>3. srv.left > 0
      BY <2>2 DEF AcceptsRequest
    <3>4. CASE streams[r][next].use = "request"
      BY <1>1, <2>2, <3>2, <3>3, <3>4 DEF AcceptsRequest, Server
    <3>5. CASE streams[r][next].use # "request"
      BY <1>1, <2>2, <3>5 DEF AcceptsRequest
    <3>6. QED  BY <3>4, <3>5
  <2>3. CASE AcceptsCredit(r)
    <3>1. PICK g \in File \cup {0} :
            srv' = [srv EXCEPT !.taken = next, !.half = 0, !.left = @ - 1,
                               !.tasks = Put(@, srv.half, g)]
      BY <2>3, NextStreamIsThere DEF AcceptsCredit, Stream
    <3>2. srv.half \in File /\ srv.left - 1 \in 0 .. FileCount
      BY <1>1, <2>3, DirectoryAssumption DEF AcceptsCredit, Server, File
    <3>3. Put(srv.tasks, srv.half, g) \in TaskMap
      BY <1>1, <3>2, PutTask DEF Server
    <3>4. srv' \in Server
      <4>1. 0 \in 0 .. FileCount /\ next \in Nat
        BY <1>1, DirectoryAssumption DEF Server
      <4>2. QED  BY <1>1, <3>1, <3>2, <3>3, <4>1 DEF Server
    <3>5. srv'.half = 0
      BY <1>1, <3>1 DEF Server
    <3>6. QED  BY <3>4, <3>5
  <2>4. CASE JoinsTasks(r)
    BY <1>1, <2>4 DEF JoinsTasks, Returns
  <2>5. QED  BY <2>1, <2>2, <2>3, <2>4 DEF ServeStep
<1>3. /\ UNCHANGED <<up, registered, queue, streams, arrived, local, faults>>
      /\ link' \in [Receiver -> BOOLEAN]
      /\ answer' \in [Receiver -> {"none", "plan", "refused"}]
  BY DEF Typed, WireTyped, ServeStep, AnswersManifest, AcceptsRequest, AcceptsCredit,
         JoinsTasks, Returns, wire
<1>4. QED  BY <1>2, <1>3 DEF Typed, ProviderTyped, WireTyped, LocalTyped, local

LEMMA StepTyped == Typed /\ [DirectoryNext]_directoryVars => Typed'
<1> SUFFICES ASSUME Typed, [DirectoryNext]_directoryVars PROVE Typed'
  OBVIOUS
<1> USE DEF provider, wire, local
<1>1. CASE Registers
  BY <1>1 DEF Registers, Typed, ProviderTyped, WireTyped, LocalTyped
<1>2. CASE TakesConnection
  <2>1. Head(queue) \in Peer /\ Tail(queue) \in Seq(Peer)
    BY <1>2, HeadTailProperties DEF TakesConnection, Typed, ProviderTyped
  <2>2. srv' \in Server /\ srv'.half = 0
    BY <1>2, <2>1, IdleTyped DEF TakesConnection, Idle
  <2>3. QED
    BY <1>2, <2>1, <2>2 DEF TakesConnection, Typed, ProviderTyped, WireTyped, LocalTyped
<1>3. Idle \in Server /\ Idle.half = 0
  BY IdleTyped DEF Idle
<1>4. CASE LosesReceiver
  BY <1>3, <1>4 DEF LosesReceiver, Typed, ProviderTyped, WireTyped, LocalTyped
<1>5. CASE ProviderCrashes
  <2>1. up' = FALSE /\ queue' = <<>> /\ srv' = Idle /\ UNCHANGED registered
    BY <1>5 DEF ProviderCrashes
  <2>2. ProviderTyped'
    BY <1>3, <2>1, EmptySeq DEF Typed, ProviderTyped
  <2>3. WireTyped' /\ LocalTyped' /\ faults' \in Nat
    BY <1>5 DEF ProviderCrashes, Fault, Typed, WireTyped, LocalTyped
  <2>4. QED  BY <2>2, <2>3 DEF Typed
<1>6. ASSUME NEW r \in Receiver, Ask(r) \/ Crash(r) \/ ReceiverStep(r) PROVE Typed'
  BY <1>6, ReceiverTyped, FailingTyped DEF ReceiverStep, Failing
<1>7. ASSUME NEW r \in Receiver, ServeStep(r) PROVE Typed'
  BY <1>7, ServeTyped
<1>8. ASSUME NEW r \in Receiver, NEW f \in File, WorkerStep(r, f) \/ TaskStep(r, f)
      PROVE  Typed'
  BY <1>8, WorkerTyped, TaskTyped
<1>9. CASE UNCHANGED directoryVars
  BY <1>9 DEF directoryVars, Typed, ProviderTyped, WireTyped, LocalTyped
<1>10. QED
  BY <1>1, <1>2, <1>4, <1>5, <1>6, <1>7, <1>8, <1>9 DEF DirectoryNext

LEMMA AlwaysTyped == DirectorySpec => []Typed
BY InitTyped, StepTyped, PTL DEF DirectorySpec

-----------------------------------------------------------------------------
(* Connections: which receivers the provider serves, and which wait.       *)

\* A receiver that waits in the queue has asked and has no answer; nobody waits
\* twice, or while being served (transfer_incoming).
Waiting ==
  /\ \A i \in DOMAIN queue : queue[i] # Gone =>
       stage[queue[i]] = "asking" /\ answer[queue[i]] = "none" /\ srv.of # queue[i]
  /\ \A i, j \in DOMAIN queue : queue[i] = queue[j] /\ queue[i] # Gone => i = j

\* Two streams have been taken for every request that is not outstanding any more, and
\* one for half a pair, and they are there.
Accounted(r) ==
  /\ srv.taken = 2 * (FileCount - srv.left) + (IF srv.half # 0 THEN 1 ELSE 0)
  /\ srv.taken <= Len(streams[r])

\* The receiver being served is at it, and nothing is taken before the plan is sent.
Served(r) ==
  srv.of = r =>
    /\ stage[r] \in {"asking", "receiving"}
    /\ \/ answer[r] = "none" /\ srv = [Idle EXCEPT !.of = r]
       \/ answer[r] = "plan" /\ Accounted(r)

Connected ==
  /\ Waiting
  /\ \A r \in Receiver : Served(r) /\ (stage[r] = "receiving" => answer[r] = "plan")

LEMMA InitConnected == DirectoryInit => Connected
BY ReceiverAssumption DEF DirectoryInit, Connected, Waiting, Served, Idle

\* Whoever drops a connection leaves Gone behind, in the queue or at the provider.
LEMMA DropsConnected ==
  ASSUME Typed, Connected, NEW r \in Receiver, NEW outcome \in {"saved", "failed"},
         Drops(r, outcome)
  PROVE  Connected'
<1> USE DEF Drops
<1>1. r # Gone /\ r # Nobody
  BY ReceiverAssumption
<1>2. DOMAIN queue' = DOMAIN queue
  OBVIOUS
<1>3. \A q \in Receiver \ {r} :
        /\ stage'[q] = stage[q] /\ answer'[q] = answer[q] /\ streams'[q] = streams[q]
        /\ srv'.of = q => srv' = srv
  BY ReceiverAssumption DEF Typed, LocalTyped, WireTyped, Idle
<1>4. srv'.of # r /\ stage'[r] = outcome
  BY <1>1 DEF Typed, LocalTyped, Idle
<1>5. \A i \in DOMAIN queue : queue[i] \in Receiver \cup {Gone}
  BY LenProperties, ElementOfSeq DEF Typed, ProviderTyped, Peer
<1>6. Waiting'
  <2>1. ASSUME NEW i \in DOMAIN queue', queue'[i] # Gone
        PROVE  /\ queue'[i] = queue[i] /\ queue[i] \in Receiver \ {r}
               /\ srv'.of # queue[i]
    BY <1>3, <1>5, <2>1 DEF Connected, Waiting
  <2>2. QED  BY <1>2, <1>3, <2>1 DEF Connected, Waiting
<1>7. ASSUME NEW q \in Receiver
      PROVE  Served(q)' /\ (stage'[q] = "receiving" => answer'[q] = "plan")
  BY <1>3, <1>4 DEF Connected, Served, Accounted
<1>8. QED  BY <1>6, <1>7 DEF Connected

LEMMA AskConnected ==
  ASSUME Typed, Connected, NEW r \in Receiver, Ask(r)
  PROVE  Connected'
<1>1. /\ stage' = [stage EXCEPT ![r] = "asking"] /\ answer' = [answer EXCEPT ![r] = "none"]
      /\ srv' = srv /\ streams' = streams
      /\ stage[r] \in {"idle", "failed"}
  BY DEF Ask
<1>2. srv.of # r /\ \A i \in DOMAIN queue : queue[i] # r
  BY <1>1, ReceiverAssumption DEF Connected, Waiting, Served
<1>3. Waiting'
  <2>1. CASE queue' = queue
    BY <1>1, <1>2, <2>1 DEF Typed, LocalTyped, WireTyped, Connected, Waiting
  <2>2. CASE queue' = Append(queue, r)
    <3>1. queue \in Seq(Peer) /\ r \in Peer
      BY DEF Typed, ProviderTyped, Peer
    <3>2. /\ DOMAIN queue' = 1 .. Len(queue) + 1 /\ DOMAIN queue = 1 .. Len(queue)
          /\ queue'[Len(queue) + 1] = r
          /\ \A i \in 1 .. Len(queue) : queue'[i] = queue[i]
      BY <2>2, <3>1, AppendProperties, LenProperties
    <3>3. stage'[r] = "asking" /\ answer'[r] = "none"
      BY <1>1 DEF Typed, LocalTyped, WireTyped
    <3>4. \A q : q # r => stage'[q] = stage[q] /\ answer'[q] = answer[q]
      BY <1>1
    <3>5. Len(queue) \in Nat
      BY <3>1, LenProperties
    <3>6. ASSUME NEW i \in DOMAIN queue', queue'[i] # Gone
          PROVE  /\ stage'[queue'[i]] = "asking" /\ answer'[queue'[i]] = "none"
                 /\ srv'.of # queue'[i]
      BY <1>1, <1>2, <3>2, <3>3, <3>4, <3>5, <3>6 DEF Connected, Waiting
    <3>7. ASSUME NEW i \in DOMAIN queue', NEW j \in DOMAIN queue',
                 queue'[i] = queue'[j], queue'[i] # Gone
          PROVE  i = j
      BY <1>2, <3>2, <3>5, <3>7 DEF Connected, Waiting
    <3>8. QED  BY <3>6, <3>7 DEF Waiting
  <2>3. QED  BY <2>1, <2>2 DEF Ask
<1>4. \A q \in Receiver : Served(q)' /\ (stage'[q] = "receiving" => answer'[q] = "plan")
  BY <1>1, <1>2 DEF Typed, LocalTyped, WireTyped, Connected, Served, Accounted
<1>5. QED  BY <1>3, <1>4 DEF Connected

LEMMA TakesConnectionConnected == Typed /\ Connected /\ TakesConnection => Connected'
<1> SUFFICES ASSUME Typed, Connected, TakesConnection PROVE Connected'
  OBVIOUS
<1>1. /\ queue # <<>> /\ srv' = [Idle EXCEPT !.of = Head(queue)] /\ queue' = Tail(queue)
      /\ UNCHANGED <<stage, answer, streams>>
  BY DEF TakesConnection, wire, local
<1>2. queue \in Seq(Peer)
  BY DEF Typed, ProviderTyped
<1>3. /\ Len(queue) \in Nat \ {0} /\ DOMAIN queue = 1 .. Len(queue)
      /\ Head(queue) = queue[1] /\ DOMAIN queue' = 1 .. Len(queue) - 1
      /\ \A i \in 1 .. Len(queue) - 1 : queue'[i] = queue[i + 1]
  BY <1>1, <1>2, HeadTailProperties, LenProperties, EmptySeq
<1>4. srv'.of = queue[1] /\ 1 \in DOMAIN queue
  BY <1>1, <1>3 DEF Idle
<1>5. Waiting'
  <2>1. ASSUME NEW i \in DOMAIN queue', queue'[i] # Gone
        PROVE  /\ i + 1 \in DOMAIN queue /\ queue'[i] = queue[i + 1]
               /\ queue[i + 1] # queue[1]
    BY <1>3, <1>4, <2>1 DEF Connected, Waiting
  <2>2. ASSUME NEW i \in DOMAIN queue', NEW j \in DOMAIN queue', queue'[i] # Gone,
               queue'[i] = queue'[j]
        PROVE  i = j
    <3>1. i + 1 = j + 1
      BY <1>3, <2>1, <2>2 DEF Connected, Waiting
    <3>2. QED  BY <1>3, <3>1
  <2>3. QED  BY <1>1, <1>4, <2>1, <2>2 DEF Connected, Waiting
<1>6. \A q \in Receiver : Served(q)' /\ (stage'[q] = "receiving" => answer'[q] = "plan")
  BY <1>1, <1>4, ReceiverAssumption DEF Connected, Waiting, Served
<1>7. QED  BY <1>5, <1>6 DEF Connected

LEMMA ServeConnected ==
  ASSUME Typed, Connected, NEW r \in Receiver, ServeStep(r)
  PROVE  Connected'
<1>1. UNCHANGED <<queue, streams, stage>> /\ srv.of = r
  BY DEF ServeStep, AnswersManifest, AcceptsRequest, AcceptsCredit, JoinsTasks, Returns,
         Serving, wire, local
<1>2. \A i \in DOMAIN queue : queue[i] # r
  BY <1>1, ReceiverAssumption DEF Connected, Waiting
<1>3. \A q \in Receiver \ {r} : answer'[q] = answer[q]
  <2>1. CASE AnswersManifest(r)
    BY <2>1 DEF AnswersManifest, Typed, WireTyped
  <2>2. CASE AcceptsRequest(r) \/ AcceptsCredit(r) \/ JoinsTasks(r)
    BY <2>2 DEF AcceptsRequest, AcceptsCredit, JoinsTasks, wire
  <2>3. QED  BY <2>1, <2>2 DEF ServeStep
<1>4. srv \in Server /\ FileCount \in Nat
  BY DirectoryAssumption DEF Typed, ProviderTyped
<1>5. srv'.of \in {r, Nobody}
  <2>1. CASE srv' = Idle
    BY <2>1 DEF Idle
  <2>2. CASE AnswersManifest(r)
    BY <1>1, <1>4, <2>1, <2>2 DEF AnswersManifest, Returns, Server
  <2>3. CASE AcceptsRequest(r)
    BY <1>1, <1>4, <2>1, <2>3 DEF AcceptsRequest, Server
  <2>4. CASE AcceptsCredit(r)
    BY <1>1, <1>4, <2>4 DEF AcceptsCredit, Server
  <2>5. QED  BY <2>1, <2>2, <2>3, <2>4 DEF ServeStep, JoinsTasks, Returns
<1>6. Waiting'
  <2>1. \A i \in DOMAIN queue : queue[i] # Gone => queue[i] \in Receiver
    BY LenProperties, ElementOfSeq DEF Typed, ProviderTyped, Peer
  <2>2. QED
    BY <1>1, <1>2, <1>3, <1>5, <2>1, ReceiverAssumption DEF Connected, Waiting
<1>7. Served(r)' /\ (stage'[r] = "receiving" => answer'[r] = "plan")
  <2>1. CASE srv' = Idle /\ answer' = answer
    BY <1>1, <2>1, ReceiverAssumption DEF Connected, Served, Idle
  <2>2. CASE AnswersManifest(r)
    <3>1. srv = [Idle EXCEPT !.of = r] /\ Len(streams[r]) \in Nat
      BY <1>1, <2>2, LenProperties
         DEF AnswersManifest, Connected, Served, Typed, WireTyped
    <3>2. CASE srv' = [srv EXCEPT !.left = FileCount] /\ answer' = [answer EXCEPT ![r] = "plan"]
      <4>1. srv'.taken = 0 /\ srv'.half = 0 /\ srv'.left = FileCount
        BY <3>1, <3>2 DEF Idle
      <4>2. answer'[r] = "plan" /\ Accounted(r)'
        BY <1>1, <1>4, <3>1, <3>2, <4>1 DEF Accounted, Typed, WireTyped
      <4>3. QED  BY <1>1, <4>2 DEF Connected, Served
    <3>3. CASE srv' = Idle
      <4>1. srv'.of # r /\ stage[r] # "receiving"
        BY <2>2, <3>3, ReceiverAssumption DEF Idle, AnswersManifest, Connected
      <4>2. QED  BY <1>1, <4>1 DEF Served
    <3>4. QED  BY <2>2, <3>2, <3>3 DEF AnswersManifest, Returns
  <2>3. answer[r] = "plan" \/ srv = [Idle EXCEPT !.of = r]
    BY <1>1 DEF Connected, Served
  <2>4. CASE AcceptsRequest(r) /\ streams[r][srv.taken + 1].use = "request"
    <3>1. answer[r] = "plan" /\ Accounted(r) /\ answer' = answer
      BY <1>1, <2>4 DEF AcceptsRequest, Connected, Served, Idle
    <3>2. streams[r][srv.taken + 1].file \in File /\ srv.taken + 1 <= Len(streams[r])
      BY <2>4, NextStreamIsThere DEF AcceptsRequest, Stream
    <3>3. /\ srv'.taken = srv.taken + 1 /\ srv'.left = srv.left /\ srv'.half # 0
          /\ srv.half = 0
      BY <1>4, <2>4, <3>2 DEF AcceptsRequest, Server, File
    <3>4. Accounted(r)'
      BY <1>1, <1>4, <3>1, <3>2, <3>3 DEF Accounted, Server
    <3>5. QED  BY <1>1, <3>1, <3>4 DEF Served, Connected
  <2>5. CASE AcceptsCredit(r)
    <3>1. answer[r] = "plan" /\ Accounted(r) /\ answer' = answer
      BY <1>1, <2>5 DEF AcceptsCredit, Connected, Served, Idle, wire
    <3>2. srv.taken + 1 <= Len(streams[r])
      BY <2>5, NextStreamIsThere DEF AcceptsCredit
    <3>3. /\ srv'.taken = srv.taken + 1 /\ srv'.left = srv.left - 1 /\ srv'.half = 0
          /\ srv.half # 0
      BY <1>4, <2>5 DEF AcceptsCredit, Server
    <3>4. Accounted(r)'
      BY <1>1, <1>4, <3>1, <3>2, <3>3 DEF Accounted, Server
    <3>5. QED  BY <1>1, <3>1, <3>4 DEF Served, Connected
  <2>6. QED
    BY <2>1, <2>2, <2>4, <2>5 DEF ServeStep, AcceptsRequest, JoinsTasks, Returns
<1>8. \A q \in Receiver : Served(q)' /\ (stage'[q] = "receiving" => answer'[q] = "plan")
  BY <1>1, <1>3, <1>5, <1>7, ReceiverAssumption DEF Connected, Served
<1>9. QED  BY <1>6, <1>8 DEF Connected

LEMMA WorkerConnected ==
  ASSUME Typed, Connected, NEW r \in Receiver, NEW f \in File, WorkerStep(r, f)
  PROVE  Connected'
<1>1. UNCHANGED <<srv, queue, stage, answer>>
  BY DEF WorkerStep, OpensRequest, OpensCreditAndAsks, CreatesFile, FinishesFile,
         WorkerFails, provider, wire
<1>2. \A q \in Receiver : Len(streams'[q]) >= Len(streams[q])
  <2>1. \A q \in Receiver : streams[q] \in Seq(Stream) /\ Len(streams[q]) \in Nat
    BY LenProperties DEF Typed, WireTyped
  <2>2. CASE streams' = streams
    BY <2>1, <2>2
  <2>3. ASSUME NEW use \in {"request", "credit"},
               streams' = [streams EXCEPT ![r] = Append(@, [file |-> f, use |-> use])]
        PROVE  \A q \in Receiver : Len(streams'[q]) >= Len(streams[q])
    <3>1. [file |-> f, use |-> use] \in Stream
      BY DEF Stream
    <3>2. Len(Append(streams[r], [file |-> f, use |-> use])) = Len(streams[r]) + 1
      BY <2>1, <3>1, AppendProperties
    <3>3. QED  BY <2>1, <2>3, <3>2 DEF Typed, WireTyped
  <2>4. QED
    BY <2>2, <2>3 DEF WorkerStep, OpensRequest, OpensCreditAndAsks, CreatesFile,
                      FinishesFile, WorkerFails, wire
<1>3. srv \in Server /\ \A q \in Receiver : Len(streams[q]) \in Nat /\ Len(streams'[q]) \in Nat
  BY WorkerTyped, LenProperties DEF Typed, ProviderTyped, WireTyped
<1>4. QED
  BY <1>1, <1>2, <1>3 DEF Connected, Waiting, Served, Accounted, Server

LEMMA TaskConnected ==
  ASSUME Typed, Connected, NEW r \in Receiver, NEW f \in File, TaskStep(r, f)
  PROVE  Connected'
<1>1. UNCHANGED <<queue, stage, answer, streams>> /\ srv.of = r /\ f \in DOMAIN srv.tasks
  BY DEF TaskStep, TaskAnswers, TaskMissesFile, TaskServes, TaskEnds, TaskBreaks, Puts,
         Serving, wire, local
<1>2. answer[r] = "plan" /\ Accounted(r)
  <2>1. srv # [Idle EXCEPT !.of = r]
    BY <1>1 DEF Idle
  <2>2. QED  BY <1>1, <2>1 DEF Connected, Served
<1>3. /\ srv'.of = srv.of /\ srv'.taken = srv.taken
      /\ srv'.left = srv.left /\ srv'.half = srv.half
  <2>1. srv \in Server
    BY DEF Typed, ProviderTyped
  <2>2. \/ srv' = srv
        \/ srv' = [srv EXCEPT !.tasks = Restrict(@, DOMAIN @ \ {f}), !.bad = TRUE]
        \/ srv' = [srv EXCEPT !.tasks = Restrict(@, DOMAIN @ \ {f})]
    BY DEF TaskStep, TaskAnswers, TaskMissesFile, TaskServes, TaskEnds, TaskBreaks
  <2>3. QED  BY <2>1, <2>2 DEF Server
<1>4. QED
  BY <1>1, <1>2, <1>3, ReceiverAssumption DEF Connected, Waiting, Served, Accounted

LEMMA StepConnected == Typed /\ Connected /\ [DirectoryNext]_directoryVars => Connected'
<1> SUFFICES ASSUME Typed, Connected, [DirectoryNext]_directoryVars PROVE Connected'
  OBVIOUS
<1> USE DEF provider, wire, local
<1>1. CASE Registers
  BY <1>1 DEF Registers, Connected, Waiting, Served, Accounted
<1>2. CASE TakesConnection
  BY <1>2, TakesConnectionConnected
<1>3. CASE LosesReceiver
  BY <1>3, ReceiverAssumption, LenProperties, ElementOfSeq
     DEF LosesReceiver, Connected, Waiting, Served, Idle, Typed, ProviderTyped, Peer
<1>4. CASE ProviderCrashes
  BY <1>4, ReceiverAssumption DEF ProviderCrashes, Connected, Waiting, Served, Idle
<1>5. ASSUME NEW r \in Receiver, Failing(r) PROVE Connected'
  BY <1>5, FailingIsFails, DropsConnected DEF Fails
<1>6. ASSUME NEW r \in Receiver, Ask(r) PROVE Connected'
  BY <1>6, AskConnected
<1>7. ASSUME NEW r \in Receiver, StartsWorkers(r) PROVE Connected'
  BY <1>7 DEF StartsWorkers, Connected, Waiting, Served, Accounted, Typed, LocalTyped
<1>8. ASSUME NEW r \in Receiver, Renames(r) PROVE Connected'
  BY <1>8, DropsConnected DEF Renames
<1>9. ASSUME NEW r \in Receiver, NEW f \in File, SeesSuccess(r, f) PROVE Connected'
  BY <1>9 DEF SeesSuccess, Connected, Waiting, Served, Accounted
<1>10. ASSUME NEW r \in Receiver, ServeStep(r) PROVE Connected'
  BY <1>10, ServeConnected
<1>11. ASSUME NEW r \in Receiver, NEW f \in File, WorkerStep(r, f) \/ TaskStep(r, f)
       PROVE  Connected'
  BY <1>11, WorkerConnected, TaskConnected
<1>12. CASE UNCHANGED directoryVars
  BY <1>12 DEF directoryVars, Connected, Waiting, Served, Accounted
<1>13. QED
  BY <1>1, <1>2, <1>3, <1>4, <1>5, <1>6, <1>7, <1>8, <1>9, <1>10, <1>11, <1>12
     DEF DirectoryNext, ReceiverStep, Failing

LEMMA AlwaysConnected == DirectorySpec => [](Typed /\ Connected)
<1>1. DirectoryInit => Connected
  BY InitConnected
<1>2. Typed /\ Connected /\ [DirectoryNext]_directoryVars => Connected'
  BY StepConnected
<1>3. QED  BY <1>1, <1>2, AlwaysTyped, PTL DEF DirectorySpec

\* The parts of the protocol keep their types whatever the receivers and the provider
\* do, and the provider has taken two streams for every task it has started, and one
\* for half a pair, of those the connection it serves really has
\* (serve_registered_transfer).
THEOREM DirectoryTypeCorrect == DirectorySpec => []DirectoryTypeOK
<1>1. Typed /\ Connected => DirectoryTypeOK
  <2> SUFFICES ASSUME Typed, Connected PROVE DirectoryTypeOK
    OBVIOUS
  <2>1. /\ up \in BOOLEAN /\ registered \in BOOLEAN
        /\ queue \in Seq(Receiver \cup {Gone})
        /\ srv.of \in Receiver \cup {Gone, Nobody}
        /\ srv.left \in 0 .. FileCount /\ srv.half \in 0 .. FileCount
        /\ DOMAIN srv.tasks \subseteq File
    BY TasksAreFiles DEF Typed, ProviderTyped, Server, Peer
  <2>2. ASSUME NEW r \in Receiver
        PROVE  /\ answer[r] \in {"none", "plan", "refused"}
               /\ streams[r] \in Seq([file : File, use : {"request", "credit"}])
               /\ arrived[r] \in [File -> {"nothing", "ready", "all", "cut"}]
               /\ stage[r] \in {"idle", "asking", "receiving", "saved", "failed"}
    BY DEF Typed, WireTyped, LocalTyped, Stream
  <2>3. ASSUME NEW r \in Receiver
        PROVE  DOMAIN temp[r] \subseteq Entry /\ attempts[r] \in 0 .. MaxAttempts[r]
    BY TempHoldsEntries, DirectoryAssumption DEF Typed, LocalTyped
  <2>4. ASSUME NEW r \in Receiver, Serving(r), answer[r] = "plan" PROVE Accounted(r)
    BY <2>4 DEF Serving, Connected, Served
  <2>5. QED  BY <2>1, <2>2, <2>3, <2>4 DEF DirectoryTypeOK, Accounted
<1>2. QED  BY <1>1, AlwaysConnected, PTL

-----------------------------------------------------------------------------
(* The pool of workers and the temp root.                                  *)

\* While files are received, what has been seen to succeed is whole below the temp
\* root; files are spawned in order, and as long as some are left one is in the works
\* (receive_directory_entries).
HoldsResults(r) ==
  /\ Dirs \in DOMAIN temp[r] /\ temp[r][Dirs] = "whole"
  /\ \A f \in File : worker[r][f] \in {"ok", "joined"} =>
       f \in DOMAIN temp[r] /\ temp[r][f] = "whole"

UpTo(r, k) ==
  /\ Spawned(r) = 1 .. k
  /\ k < FileCount => \E f \in 1 .. k : worker[r][f] # "joined"

Pool(r) == IF stage[r] = "receiving" THEN HoldsResults(r) /\ \E k \in 0 .. FileCount : UpTo(r, k)
                                     ELSE worker[r] = NoWorkers

Pools == \A r \in Receiver : Pool(r)

LEMMA InitPools == DirectoryInit => Pools
BY DEF DirectoryInit, Pools, Pool

\* A pool is not disturbed by what leaves its receiver alone.
LEMMA PoolFrame ==
  ASSUME NEW r \in Receiver, Pool(r),
         stage'[r] = stage[r], worker'[r] = worker[r], temp'[r] = temp[r]
  PROVE  Pool(r)'
BY DEF Pool, HoldsResults, UpTo, Spawned

LEMMA StartsWorkersPool ==
  ASSUME Typed, NEW r \in Receiver, StartsWorkers(r)
  PROVE  Pool(r)'
<1>1. /\ stage'[r] = "receiving" /\ temp'[r] = Put(temp[r], Dirs, "whole")
      /\ worker'[r] = [f \in File |-> IF f <= Workers[r] THEN "queued" ELSE "none"]
  BY DEF StartsWorkers, Typed, LocalTyped
<1>2. Dirs \in DOMAIN temp'[r] /\ temp'[r][Dirs] = "whole"
  BY <1>1 DEF Put
<1>3. \E k \in 0 .. FileCount : UpTo(r, k)'
  <2>1. FileCount \in Nat /\ Workers[r] \in Nat \ {0}
    BY DirectoryAssumption
  <2>2. Spawned(r)' = {f \in File : f <= Workers[r]}
    BY <1>1 DEF Spawned
  <2>3. CASE Workers[r] <= FileCount
    <3>1. Workers[r] \in 0 .. FileCount /\ Spawned(r)' = 1 .. Workers[r]
      BY <2>1, <2>2, <2>3 DEF File
    <3>2. 1 \in 1 .. Workers[r] /\ worker'[r][1] # "joined"
      BY <1>1, <2>1, <2>3 DEF File
    <3>3. QED  BY <3>1, <3>2 DEF UpTo
  <2>4. CASE FileCount < Workers[r]
    <3>1. FileCount \in 0 .. FileCount /\ Spawned(r)' = 1 .. FileCount
      BY <2>1, <2>2, <2>4 DEF File
    <3>2. QED  BY <2>1, <3>1 DEF UpTo
  <2>5. QED  BY <2>1, <2>3, <2>4
<1>4. \A f \in File : worker'[r][f] \notin {"ok", "joined"}
  BY <1>1
<1>5. HoldsResults(r)'
  BY <1>2, <1>4 DEF HoldsResults
<1>6. QED  BY <1>1, <1>3, <1>5 DEF Pool

\* A worker that has been seen to succeed makes room for the next file.
LEMMA SeesSuccessSpawns ==
  ASSUME Typed, Pools, NEW r \in Receiver, NEW f \in File, SeesSuccess(r, f)
  PROVE  /\ stage[r] = "receiving" /\ FileCount \in Nat
         /\ \E k \in File :
              /\ UpTo(r, k) /\ k \in Nat /\ 1 <= k /\ k <= FileCount
              /\ worker'[r] = [g \in File |-> IF g = f THEN "joined"
                                           ELSE IF g = k + 1 THEN "queued" ELSE worker[r][g]]
<1>1. stage[r] = "receiving"
  BY DEF SeesSuccess, Pools, Pool, NoWorkers
<1>2. PICK k \in 0 .. FileCount : UpTo(r, k)
  BY <1>1 DEF Pools, Pool
<1>3. FileCount \in Nat /\ k \in Nat /\ 1 <= k /\ k <= FileCount
  <2>1. f \in 1 .. k
    BY <1>2 DEF UpTo, Spawned, SeesSuccess
  <2>2. QED  BY <2>1, DirectoryAssumption
<1>4. Cardinality(Spawned(r)) = k
  BY <1>2, <1>3, FS_Interval DEF UpTo
<1>5. worker'[r] = [g \in File |-> IF g = f THEN "joined"
                                  ELSE IF g = k + 1 THEN "queued" ELSE worker[r][g]]
  BY <1>4 DEF SeesSuccess, Typed, LocalTyped
<1>6. k \in File
  BY <1>3 DEF File
<1>7. QED  BY <1>1, <1>2, <1>3, <1>5, <1>6

LEMMA SeesSuccessPool ==
  ASSUME Typed, Pools, NEW r \in Receiver, NEW f \in File, SeesSuccess(r, f)
  PROVE  Pool(r)'
<1>1. stage[r] = "receiving" /\ FileCount \in Nat
  BY SeesSuccessSpawns
<1>2. PICK k \in File :
        /\ UpTo(r, k) /\ k \in Nat /\ 1 <= k /\ k <= FileCount
        /\ worker'[r] = [g \in File |-> IF g = f THEN "joined"
                                     ELSE IF g = k + 1 THEN "queued" ELSE worker[r][g]]
  BY SeesSuccessSpawns
<1>3. /\ FileCount \in Nat /\ k \in Nat /\ 1 <= k /\ k <= FileCount
      /\ Spawned(r) = 1 .. k
  BY <1>1, <1>2 DEF UpTo
<1>4. worker'[r] = [g \in File |-> IF g = f THEN "joined"
                                  ELSE IF g = k + 1 THEN "queued" ELSE worker[r][g]]
  BY <1>2
<1>5. f \in Spawned(r) /\ worker[r][f] = "ok"
  BY DEF SeesSuccess, Spawned
<1>6. \E l \in 0 .. FileCount : UpTo(r, l)'
  <2>1. CASE k < FileCount
    <3>1. k + 1 \in File /\ k + 1 # f /\ k + 1 \in 0 .. FileCount
      BY <1>3, <1>5, <2>1 DEF File
    <3>2. Spawned(r)' = Spawned(r) \cup {k + 1}
      BY <1>4, <1>5, <3>1 DEF Spawned
    <3>3. Spawned(r)' = 1 .. k + 1
      BY <1>3, <3>2
    <3>4. worker'[r][k + 1] # "joined" /\ k + 1 \in 1 .. k + 1
      BY <1>3, <1>4, <3>1
    <3>5. QED  BY <3>1, <3>3, <3>4 DEF UpTo
  <2>2. CASE ~(k < FileCount)
    <3>1. \A g \in File : g # k + 1
      BY <1>3, <2>2 DEF File
    <3>2. Spawned(r)' = Spawned(r)
      BY <1>4, <1>5, <3>1 DEF Spawned
    <3>3. QED  BY <1>3, <2>2, <3>2 DEF UpTo
  <2>3. QED  BY <2>1, <2>2
<1>7. stage' = stage /\ temp' = temp
  BY DEF SeesSuccess
<1>8. \A g \in File : worker'[r][g] \in {"ok", "joined"} => worker[r][g] \in {"ok", "joined"}
  BY <1>4, <1>5
<1>9. HoldsResults(r)'
  BY <1>1, <1>7, <1>8 DEF Pools, Pool, HoldsResults
<1>10. QED  BY <1>1, <1>6, <1>7, <1>9 DEF Pool

LEMMA WorkerPool ==
  ASSUME Typed, Pools, NEW r \in Receiver, NEW f \in File, WorkerStep(r, f)
  PROVE  Pool(r)'
<1>1. PICK w \in {"locked", "asked", "copying", "ok", "err"} :
        worker' = [worker EXCEPT ![r][f] = w]
  BY DEF WorkerStep, OpensRequest, OpensCreditAndAsks, CreatesFile, FinishesFile, WorkerFails
<1>2. worker[r][f] \in {"queued", "locked", "asked", "copying"} /\ stage' = stage
  BY DEF WorkerStep, OpensRequest, OpensCreditAndAsks, CreatesFile, FinishesFile, WorkerFails
<1>3. \A g \in File : worker'[r][g] = IF g = f THEN w ELSE worker[r][g]
  BY <1>1 DEF Typed, LocalTyped
<1>4. stage[r] = "receiving"
  BY <1>2 DEF Pools, Pool, NoWorkers
<1>5. Spawned(r)' = Spawned(r) /\ f \in Spawned(r)
  BY <1>2, <1>3 DEF Spawned
<1>6. \E k \in 0 .. FileCount : UpTo(r, k)'
  <2>1. PICK k \in 0 .. FileCount : UpTo(r, k)
    BY <1>4 DEF Pools, Pool
  <2>2. f \in 1 .. k /\ worker'[r][f] # "joined"
    BY <1>3, <1>5, <2>1 DEF UpTo
  <2>3. QED  BY <1>5, <2>1, <2>2 DEF UpTo
<1>7. HoldsResults(r)'
  <2>1. Dirs # f
    BY DEF File, Dirs
  <2>2. CASE temp' = temp /\ w \notin {"ok", "joined"}
    BY <1>3, <1>4, <2>2 DEF Pools, Pool, HoldsResults
  <2>3. CASE CreatesFile(r, f)
    <3>1. temp'[r] = Put(temp[r], f, "part") /\ worker'[r][f] = "copying"
      BY <2>3 DEF CreatesFile, Typed, LocalTyped
    <3>2. QED  BY <1>3, <1>4, <2>1, <3>1 DEF Pools, Pool, HoldsResults, Put
  <2>4. CASE FinishesFile(r, f)
    <3>1. temp'[r] = Put(temp[r], f, "whole")
      BY <2>4 DEF FinishesFile, Typed, LocalTyped
    <3>2. QED  BY <1>3, <1>4, <2>1, <3>1 DEF Pools, Pool, HoldsResults, Put
  <2>5. CASE OpensRequest(r, f) \/ OpensCreditAndAsks(r, f) \/ WorkerFails(r, f)
    <3>1. temp' = temp /\ worker'[r][f] \in {"locked", "asked", "err"}
      BY <2>5 DEF OpensRequest, OpensCreditAndAsks, WorkerFails, Typed, LocalTyped
    <3>2. QED  BY <1>3, <2>2, <3>1
  <2>6. QED  BY <2>3, <2>4, <2>5 DEF WorkerStep
<1>8. QED  BY <1>2, <1>4, <1>6, <1>7 DEF Pool

LEMMA StepPools == Typed /\ Pools /\ [DirectoryNext]_directoryVars => Pools'
<1> SUFFICES ASSUME Typed, Pools, [DirectoryNext]_directoryVars PROVE Pools'
  OBVIOUS
<1>1. CASE UNCHANGED <<stage, worker, temp>>
  BY <1>1, PoolFrame DEF Pools
<1>2. CASE Registers \/ TakesConnection \/ LosesReceiver \/ ProviderCrashes
           \/ UNCHANGED directoryVars
  BY <1>1, <1>2
     DEF Registers, TakesConnection, LosesReceiver, ProviderCrashes, directoryVars, local
<1>3. ASSUME NEW r \in Receiver, ServeStep(r) PROVE Pools'
  BY <1>1, <1>3 DEF ServeStep, AnswersManifest, AcceptsRequest, AcceptsCredit, JoinsTasks,
                    Returns, local
<1>4. ASSUME NEW r \in Receiver, NEW f \in File, TaskStep(r, f) PROVE Pools'
  BY <1>1, <1>4 DEF TaskStep, TaskAnswers, TaskMissesFile, TaskServes, TaskEnds,
                    TaskBreaks, Puts, local
<1>5. ASSUME NEW r \in Receiver, Pool(r)',
             \A q \in Receiver \ {r} : /\ stage'[q] = stage[q] /\ worker'[q] = worker[q]
                                       /\ temp'[q] = temp[q]
      PROVE  Pools'
  BY <1>5, PoolFrame DEF Pools
<1>6. ASSUME NEW r \in Receiver, NEW outcome \in {"failed", "saved"}, Drops(r, outcome)
      PROVE  Pool(r)'
  BY <1>6 DEF Drops, Pool, Typed, LocalTyped
<1>7. ASSUME NEW r \in Receiver, Ask(r) PROVE Pools'
  <2>1. stage'[r] = "asking" /\ worker[r] = NoWorkers
    BY <1>7 DEF Ask, Typed, LocalTyped, Pools, Pool
  <2>2. Pool(r)'
    BY <1>7, <2>1 DEF Ask, Pool
  <2>3. QED  BY <1>5, <1>7, <2>2 DEF Ask, Typed, LocalTyped
<1>8. ASSUME NEW r \in Receiver, Failing(r) PROVE Pools'
  <2>1. Fails(r) /\ (UNCHANGED temp \/ RemovesTemp(r))
    BY <1>8, FailingIsFails
  <2>2. Pool(r)'
    BY <1>6, <2>1 DEF Fails
  <2>3. QED  BY <1>5, <2>1, <2>2 DEF Fails, Drops, RemovesTemp, Typed, LocalTyped
<1>9. ASSUME NEW r \in Receiver, Renames(r) PROVE Pools'
  <2>1. Pool(r)'
    BY <1>6, <1>9 DEF Renames
  <2>2. QED  BY <1>5, <1>9, <2>1 DEF Renames, Drops, Typed, LocalTyped
<1>10. ASSUME NEW r \in Receiver, StartsWorkers(r) PROVE Pools'
  BY <1>5, <1>10, StartsWorkersPool DEF StartsWorkers, Typed, LocalTyped
<1>11. ASSUME NEW r \in Receiver, NEW f \in File, SeesSuccess(r, f) PROVE Pools'
  BY <1>5, <1>11, SeesSuccessPool DEF SeesSuccess, Typed, LocalTyped
<1>12. ASSUME NEW r \in Receiver, NEW f \in File, WorkerStep(r, f) PROVE Pools'
  <2>1. \A q \in Receiver \ {r} : /\ stage'[q] = stage[q] /\ worker'[q] = worker[q]
                                  /\ temp'[q] = temp[q]
    BY <1>12 DEF WorkerStep, OpensRequest, OpensCreditAndAsks, CreatesFile, FinishesFile,
                 WorkerFails, Typed, LocalTyped
  <2>2. QED  BY <1>5, <1>12, <2>1, WorkerPool
<1>13. QED
  BY <1>2, <1>3, <1>4, <1>7, <1>8, <1>9, <1>10, <1>11, <1>12
     DEF DirectoryNext, ReceiverStep, Failing

LEMMA AlwaysPooled == DirectorySpec => [](Typed /\ Pools)
<1>1. DirectoryInit => Pools
  BY InitPools
<1>2. Typed /\ Pools /\ [DirectoryNext]_directoryVars => Pools'
  BY StepPools
<1>3. QED  BY <1>1, <1>2, AlwaysTyped, PTL DEF DirectorySpec

-----------------------------------------------------------------------------
(* The promise.                                                            *)

\* What is renamed is the whole folder: when nothing that was spawned is left to
\* join, everything was spawned, and has succeeded.
LEMMA RenamedIsWhole ==
  ASSUME Typed, Pools, NEW r \in Receiver, stage[r] = "receiving", IsDrained(r)
  PROVE  temp[r] = Folder
<1>1. HoldsResults(r)
  BY DEF Pools, Pool
<1>2. PICK k \in 0 .. FileCount : UpTo(r, k)
  BY DEF Pools, Pool
<1>3. FileCount \in Nat /\ k \in Nat /\ k <= FileCount
  BY DirectoryAssumption
<1>4. \A f \in 1 .. k : worker[r][f] = "joined"
  BY <1>2, <1>3 DEF UpTo, Spawned, IsDrained, File
<1>5. k = FileCount
  BY <1>2, <1>3, <1>4 DEF UpTo
<1>6. \A f \in File : f \in DOMAIN temp[r] /\ temp[r][f] = "whole"
  BY <1>1, <1>4, <1>5 DEF HoldsResults, File
<1>7. DOMAIN temp[r] \subseteq Entry /\ temp[r] = [e \in DOMAIN temp[r] |-> temp[r][e]]
  BY TempHoldsEntries DEF Typed, LocalTyped
<1>8. DOMAIN temp[r] = Entry /\ \A e \in Entry : temp[r][e] = "whole"
  BY <1>1, <1>6, <1>7 DEF HoldsResults, Entry
<1>9. QED  BY <1>7, <1>8 DEF Folder

LEMMA InitKeepsPromise == DirectoryInit => P!PromiseInit
BY DEF DirectoryInit, P!PromiseInit, Outcome

\* A step that changes neither a stage nor a target is none of the promise's.
LEMMA OthersStutter == UNCHANGED <<stage, target>> => UNCHANGED P!promiseVars
BY DEF P!promiseVars, Outcome

\* Attempts end by failing or by the rename, and only what is under way ends.
LEMMA EndsKeepPromise ==
  ASSUME Typed, Pools, NEW r \in Receiver, Failing(r) \/ Renames(r)
  PROVE  P!Fail(r) \/ P!Save(r)
<1>1. CASE Failing(r)
  <2>1. /\ stage' = [stage EXCEPT ![r] = "failed"] /\ target' = target
    BY <1>1, FailingIsFails DEF Fails, Drops
  <2>2. stage[r] \in {"asking", "receiving"}
    BY <1>1 DEF Failing, AskFails, DirsFail, RenameFails, Crash, SeesError,
                Pools, Pool, NoWorkers
  <2>3. /\ \A q \in Receiver : Outcome(q)' = IF q = r THEN "failed" ELSE Outcome(q)
        /\ Outcome(r) = "pending"
    BY <2>1, <2>2 DEF Outcome, Typed, LocalTyped
  <2>4. QED  BY <2>1, <2>3 DEF P!Fail
<1>2. CASE Renames(r)
  <2>1. /\ stage' = [stage EXCEPT ![r] = "saved"] /\ stage[r] = "receiving"
        /\ target' = [target EXCEPT ![r] = Folder]
    BY <1>2, RenamedIsWhole DEF Renames, Drops
  <2>2. /\ \A q \in Receiver : Outcome(q)' = IF q = r THEN "saved" ELSE Outcome(q)
        /\ Outcome(r) = "pending"
    BY <2>1 DEF Outcome, Typed, LocalTyped
  <2>3. QED  BY <2>1, <2>2 DEF P!Save
<1>3. QED  BY <1>1, <1>2

LEMMA StepKeepsPromise ==
  Typed /\ Pools /\ [DirectoryNext]_directoryVars => [P!PromiseNext]_(P!promiseVars)
<1> SUFFICES ASSUME Typed, Pools, [DirectoryNext]_directoryVars
             PROVE  [P!PromiseNext]_(P!promiseVars)
  OBVIOUS
<1>1. CASE Registers \/ TakesConnection \/ LosesReceiver \/ ProviderCrashes
           \/ UNCHANGED directoryVars
  BY <1>1, OthersStutter
     DEF Registers, TakesConnection, LosesReceiver, ProviderCrashes, directoryVars, local
<1>2. ASSUME NEW r \in Receiver, ServeStep(r) PROVE UNCHANGED P!promiseVars
  BY <1>2, OthersStutter
     DEF ServeStep, AnswersManifest, AcceptsRequest, AcceptsCredit, JoinsTasks, Returns, local
<1>3. ASSUME NEW r \in Receiver, NEW f \in File,
             TaskStep(r, f) \/ WorkerStep(r, f) \/ SeesSuccess(r, f)
      PROVE  UNCHANGED P!promiseVars
  BY <1>3, OthersStutter
     DEF TaskStep, TaskAnswers, TaskMissesFile, TaskServes, TaskEnds, TaskBreaks, Puts,
         WorkerStep, OpensRequest, OpensCreditAndAsks, CreatesFile, FinishesFile,
         WorkerFails, SeesSuccess, local
<1>4. ASSUME NEW r \in Receiver, Ask(r) PROVE P!Ask(r)
  <2>1. /\ stage' = [stage EXCEPT ![r] = "asking"] /\ target' = target
        /\ stage[r] \in {"idle", "failed"}
    BY <1>4 DEF Ask
  <2>2. /\ \A q \in Receiver : Outcome(q)' = IF q = r THEN "pending" ELSE Outcome(q)
        /\ Outcome(r) \in {"none", "failed"}
    BY <2>1 DEF Outcome, Typed, LocalTyped
  <2>3. QED  BY <2>1, <2>2 DEF P!Ask
<1>5. ASSUME NEW r \in Receiver, StartsWorkers(r) PROVE UNCHANGED P!promiseVars
  BY <1>5 DEF StartsWorkers, P!promiseVars, Outcome, Typed, LocalTyped
<1>6. ASSUME NEW r \in Receiver, Failing(r) \/ Renames(r) PROVE P!Fail(r) \/ P!Save(r)
  BY <1>6, EndsKeepPromise
<1>7. QED
  BY <1>1, <1>2, <1>3, <1>4, <1>5, <1>6
     DEF DirectoryNext, ReceiverStep, Failing, P!PromiseNext

\* The workers, the provider and their streams implement the folder download: the
\* target path gets the whole folder in one step or nothing, whatever fails when and
\* whatever an earlier attempt left below the temp root
\* (receive_directory_with_progress).
THEOREM FolderAppearsWhole == DirectorySpec => P!PromiseSafety
<1>1. DirectoryInit => P!PromiseInit
  BY InitKeepsPromise
<1>2. Typed /\ Pools /\ [DirectoryNext]_directoryVars => [P!PromiseNext]_(P!promiseVars)
  BY StepKeepsPromise
<1>3. QED  BY <1>1, <1>2, AlwaysPooled, PTL DEF DirectorySpec, P!PromiseSafety

-----------------------------------------------------------------------------
(* The streams of one receiver, s, and what its workers are at, w: while   *)
(* nothing fails they come in pairs, a request and the credit of the same  *)
(* file, one pair per file, and only the last may lack its credit.         *)

Alternating(s) ==
  /\ \A k \in Nat : 2 * k + 1 <= Len(s) => s[2 * k + 1].use = "request"
  /\ \A k \in Nat : 2 * k + 2 <= Len(s) =>
       s[2 * k + 2].use = "credit" /\ s[2 * k + 2].file = s[2 * k + 1].file

Distinct(s) ==
  \A k, l \in Nat : (/\ 2 * k + 1 <= Len(s) /\ 2 * l + 1 <= Len(s)
                     /\ s[2 * k + 1].file = s[2 * l + 1].file) => k = l

NotAskedYet(s, w) ==
  \A f \in File : w[f] \in {"none", "queued"} => \A i \in 1 .. Len(s) : s[i].file # f

NoneLocked(w) == \A f \in File : w[f] # "locked"

LastIsLocked(s, w) ==
  /\ \A f \in File : w[f] = "locked" =>
       (\E n \in Nat : Len(s) = 2 * n + 1) /\ s[Len(s)].file = f
  /\ NoneLocked(w) => \E n \in Nat : Len(s) = 2 * n

Paired(s, w) == Alternating(s) /\ Distinct(s) /\ NotAskedYet(s, w) /\ LastIsLocked(s, w)

\* The workers v are the workers w but for f, which is at state now.
Moves(w, v, f, state) == \A g \in File : v[g] = IF g = f THEN state ELSE w[g]

\* No stream is open yet.
LEMMA NoStreamsPaired ==
  ASSUME NEW w, NoneLocked(w)
  PROVE  Paired(<<>>, w)
<1>1. Len(<<>>) = 0 /\ 0 = 2 * 0
  OBVIOUS
<1>2. QED
  BY <1>1 DEF Paired, Alternating, Distinct, NotAskedYet, LastIsLocked, NoneLocked

\* Workers that open no stream do not disturb the pairs.
LEMMA PairedFrame ==
  ASSUME NEW s, NEW w, NEW v, Paired(s, w),
         \A f \in File : /\ v[f] = "locked" <=> w[f] = "locked"
                         /\ v[f] \in {"none", "queued"} => w[f] \in {"none", "queued"}
  PROVE  Paired(s, v)
<1>1. NotAskedYet(s, v)
  BY DEF Paired, NotAskedYet
<1>2. LastIsLocked(s, v)
  <2>1. \A f \in File : v[f] = "locked" <=> w[f] = "locked"
    OBVIOUS
  <2>2. QED  BY <2>1, Zenon DEF Paired, LastIsLocked, NoneLocked
<1>3. QED  BY <1>1, <1>2 DEF Paired

\* The request stream of a file that was not asked for, opened under the lock
\* (receive_directory_entry, stream_open_lock).
LEMMA RequestPaired ==
  ASSUME NEW s \in Seq(Stream), NEW w, NEW t, NEW v, NEW f \in File, Paired(s, w),
         t = Append(s, [file |-> f, use |-> "request"]),
         w[f] = "queued", NoneLocked(w), Moves(w, v, f, "locked")
  PROVE  Paired(t, v)
<1> DEFINE e == [file |-> f, use |-> "request"]
<1>1. e \in Stream
  BY DEF Stream
<1>2. /\ Len(s) \in Nat /\ Len(t) = Len(s) + 1 /\ t[Len(s) + 1] = e
      /\ \A i \in 1 .. Len(s) : t[i] = s[i]
  BY <1>1, AppendProperties, LenProperties
<1>3. PICK n \in Nat : Len(s) = 2 * n
  BY DEF Paired, LastIsLocked
<1>4. Alternating(t)
  <2>1. ASSUME NEW k \in Nat, 2 * k + 1 <= Len(t) PROVE t[2 * k + 1].use = "request"
    BY <1>2, <1>3, <2>1 DEF Paired, Alternating
  <2>2. ASSUME NEW k \in Nat, 2 * k + 2 <= Len(t)
        PROVE  t[2 * k + 2].use = "credit" /\ t[2 * k + 2].file = t[2 * k + 1].file
    <3>1. 2 * k + 2 <= Len(s)
      BY <1>2, <1>3, <2>2
    <3>2. QED  BY <1>2, <3>1 DEF Paired, Alternating
  <2>3. QED  BY <2>1, <2>2 DEF Alternating
<1>5. Distinct(t)
  <2>1. ASSUME NEW k \in Nat, NEW l \in Nat, 2 * k + 1 <= Len(t), 2 * l + 1 <= Len(t),
               t[2 * k + 1].file = t[2 * l + 1].file
        PROVE  k = l
    <3>1. \A i \in 1 .. Len(s) : t[i].file # f
      BY <1>2 DEF Paired, NotAskedYet
    <3>2. k # n /\ l # n => k = l
      BY <1>2, <1>3, <2>1 DEF Paired, Distinct
    <3>3. k = n => l = n
      BY <1>2, <1>3, <2>1, <3>1
    <3>4. l = n => k = n
      BY <1>2, <1>3, <2>1, <3>1
    <3>5. QED  BY <3>2, <3>3, <3>4
  <2>2. QED  BY <2>1 DEF Distinct
<1>6. NotAskedYet(t, v)
  BY <1>2 DEF Paired, NotAskedYet, Moves
<1>7. LastIsLocked(t, v)
  BY <1>2, <1>3 DEF LastIsLocked, NoneLocked, Moves
<1>8. QED  BY <1>4, <1>5, <1>6, <1>7, Zenon DEF Paired

\* The credit stream, opened before the lock is given back.
LEMMA CreditPaired ==
  ASSUME NEW s \in Seq(Stream), NEW w, NEW t, NEW v, NEW f \in File, Paired(s, w),
         t = Append(s, [file |-> f, use |-> "credit"]),
         w[f] = "locked", Moves(w, v, f, "asked")
  PROVE  Paired(t, v)
<1> DEFINE e == [file |-> f, use |-> "credit"]
<1>1. e \in Stream
  BY DEF Stream
<1>2. /\ Len(s) \in Nat /\ Len(t) = Len(s) + 1 /\ t[Len(s) + 1] = e
      /\ \A i \in 1 .. Len(s) : t[i] = s[i]
  BY <1>1, AppendProperties, LenProperties
<1>3. PICK n \in Nat : Len(s) = 2 * n + 1 /\ s[Len(s)].file = f
  BY DEF Paired, LastIsLocked
<1>4. Alternating(t)
  <2>1. ASSUME NEW k \in Nat, 2 * k + 1 <= Len(t) PROVE t[2 * k + 1].use = "request"
    <3>1. 2 * k + 1 <= Len(s)
      BY <1>2, <1>3, <2>1
    <3>2. QED  BY <1>2, <3>1 DEF Paired, Alternating
  <2>2. ASSUME NEW k \in Nat, 2 * k + 2 <= Len(t)
        PROVE  t[2 * k + 2].use = "credit" /\ t[2 * k + 2].file = t[2 * k + 1].file
    <3>1. CASE k = n
      BY <1>2, <1>3, <3>1
    <3>2. CASE k # n
      <4>1. 2 * k + 2 <= Len(s)
        BY <1>2, <1>3, <2>2, <3>2
      <4>2. QED  BY <1>2, <4>1 DEF Paired, Alternating
    <3>3. QED  BY <3>1, <3>2
  <2>3. QED  BY <2>1, <2>2 DEF Alternating
<1>5. Distinct(t)
  <2>1. ASSUME NEW k \in Nat, 2 * k + 1 <= Len(t)
        PROVE  2 * k + 1 <= Len(s) /\ t[2 * k + 1] = s[2 * k + 1]
    BY <1>2, <1>3, <2>1
  <2>2. QED  BY <2>1 DEF Paired, Distinct
<1>6. NotAskedYet(t, v)
  BY <1>2, <1>3 DEF Paired, NotAskedYet, Moves
<1>7. LastIsLocked(t, v)
  <2>1. \A g \in File : v[g] # "locked"
    BY <1>3 DEF Paired, LastIsLocked, Moves
  <2>2. \E m \in Nat : Len(t) = 2 * m
    <3>1. n + 1 \in Nat /\ Len(t) = 2 * (n + 1)
      BY <1>2, <1>3
    <3>2. QED  BY <3>1, Zenon
  <2>3. QED  BY <2>1, <2>2, Zenon DEF LastIsLocked
<1>8. QED  BY <1>4, <1>5, <1>6, <1>7, Zenon DEF Paired

\* As many distinct requests as there are files ask for every file.
LEMMA AllAreAsked ==
  ASSUME NEW s \in Seq(Stream), Distinct(s), 2 * FileCount <= Len(s)
  PROVE  \A f \in File : \E k \in Nat : 2 * k + 2 <= 2 * FileCount /\ s[2 * k + 1].file = f
<1>1. FileCount \in Nat /\ Len(s) \in Nat
  BY DirectoryAssumption, LenProperties
<1> DEFINE asked == [k \in File |-> s[2 * (k - 1) + 1].file]
<1>2. \A k \in File : /\ k - 1 \in Nat /\ 2 * (k - 1) + 1 \in 1 .. Len(s)
                      /\ 2 * (k - 1) + 2 <= 2 * FileCount
  BY <1>1 DEF File
<1>3. asked \in [File -> File]
  <2>1. \A i \in 1 .. Len(s) : s[i].file \in File
    <3>1. \A i \in 1 .. Len(s) : s[i] \in Stream
      BY ElementOfSeq
    <3>2. QED  BY <3>1 DEF Stream
  <2>2. QED  BY <1>2, <2>1
<1>4. \A k, l \in File : asked[k] = asked[l] => k = l
  <2>1. ASSUME NEW k \in File, NEW l \in File, asked[k] = asked[l] PROVE k - 1 = l - 1
    <3>1. PICK i \in Nat, j \in Nat : i = k - 1 /\ j = l - 1
      BY <1>2
    <3>2. /\ 2 * i + 1 <= Len(s) /\ 2 * j + 1 <= Len(s)
          /\ s[2 * i + 1].file = s[2 * j + 1].file
      BY <1>1, <1>2, <2>1, <3>1
    <3>3. QED  BY <3>1, <3>2 DEF Distinct
  <2>2. \A k \in File : k \in Int
    BY <1>1 DEF File
  <2>3. QED  BY <2>1, <2>2
<1>5. asked \in Injection(File, File)
  BY <1>3, <1>4 DEF Injection, IsInjective
<1>6. IsFiniteSet(File)
  BY <1>1, FS_Interval DEF File
<1>7. asked \in Surjection(File, File)
  BY <1>5, <1>6, FS_Injection
<1>8. \A f \in File : \E k \in File : asked[k] = f
  BY <1>7 DEF Surjection
<1>9. QED  BY <1>2, <1>8

-----------------------------------------------------------------------------
(* A run without faults.                                                   *)

IsDone(r, f) == worker[r][f] \in {"ok", "joined"}

\* Only what may fail does, and the provider drops a connection it has answered only
\* when all files are in.
Unharmed(r) ==
  /\ stage[r] = "failed" => MayFail(r)
  /\ stage[r] = "asking" /\ ~link[r] => MayFail(r)
  /\ stage[r] = "receiving" /\ ~link[r] => \A f \in File : IsDone(r, f)
  /\ stage[r] # "receiving" => streams[r] = <<>>
  /\ \A f \in File : worker[r][f] # "err" /\ arrived[r][f] # "cut"

\* The provider pairs every request with its own credit, and serves what it has taken
\* until the receiver has it.
WellServed(r) ==
  srv.of = r =>
    /\ srv.half # 0 => srv.half = streams[r][srv.taken].file
    /\ \A f \in DOMAIN srv.tasks : srv.tasks[f] = f
    /\ ~srv.bad
    /\ \A k \in Nat : 2 * k + 2 <= srv.taken =>
         streams[r][2 * k + 1].file \in DOMAIN srv.tasks
           \/ IsDone(r, streams[r][2 * k + 1].file)

Calm(r) == Unharmed(r) /\ Paired(streams[r], worker[r]) /\ WellServed(r)

Undisturbed == faults = 0 => up /\ \A r \in Receiver : Calm(r)

IInv == Typed /\ Connected /\ Pools /\ Undisturbed

LEMMA InitUndisturbed == DirectoryInit => Undisturbed
<1> SUFFICES ASSUME DirectoryInit, NEW r \in Receiver PROVE up /\ Calm(r)
  BY DEF DirectoryInit, Undisturbed
<1>1. Unharmed(r) /\ WellServed(r)
  BY ReceiverAssumption
     DEF DirectoryInit, Unharmed, WellServed, Idle, NoWorkers, NewArrived
<1>2. Paired(streams[r], worker[r])
  BY NoStreamsPaired DEF DirectoryInit, NoWorkers, NoneLocked
<1>3. QED  BY <1>1, <1>2 DEF DirectoryInit, Calm

\* What leaves a receiver and its connection alone does not disturb it, nor does the
\* provider turning to another.
LEMMA CalmFrame ==
  ASSUME NEW r \in Receiver, Calm(r), srv'.of = r => srv' = srv,
         stage'[r] = stage[r], answer'[r] = answer[r], link'[r] = link[r],
         streams'[r] = streams[r], arrived'[r] = arrived[r], worker'[r] = worker[r]
  PROVE  Calm(r)'
<1>1. Unharmed(r)'
  BY DEF Calm, Unharmed, MayFail, IsDone
<1>2. Paired(streams[r], worker[r])'
  BY DEF Calm
<1>3. WellServed(r)'
  BY DEF Calm, WellServed, IsDone
<1>4. QED  BY <1>1, <1>2, <1>3 DEF Calm

\* The end of an attempt that may fail, or saved what it was to save.
LEMMA DropsCalm ==
  ASSUME Typed, NEW r \in Receiver, NEW outcome \in {"saved", "failed"},
         Drops(r, outcome), outcome = "failed" => MayFail(r)
  PROVE  Calm(r)'
<1>1. /\ stage'[r] = outcome /\ answer'[r] = answer[r] /\ streams'[r] = <<>>
      /\ worker'[r] = NoWorkers /\ arrived'[r] = NewArrived
  BY DEF Drops, Typed, LocalTyped, WireTyped
<1>2. srv'.of # r
  BY ReceiverAssumption DEF Drops, Idle
<1>3. Unharmed(r)'
  BY <1>1 DEF Unharmed, MayFail, NoWorkers, NewArrived
<1>4. Paired(<<>>, NoWorkers)
  BY NoStreamsPaired DEF NoWorkers, NoneLocked
<1>5. QED  BY <1>1, <1>2, <1>3, <1>4 DEF Calm, WellServed

\* Nothing has been taken of a connection without streams.
LEMMA NothingTaken ==
  ASSUME Typed, Connected, NEW r \in Receiver, srv.of = r, streams[r] = <<>>
  PROVE  srv.taken = 0 /\ srv.half = 0 /\ (answer[r] = "plan" => srv.left = FileCount)
<1>1. srv \in Server /\ FileCount \in Nat /\ Len(<<>>) = 0
  BY DirectoryAssumption DEF Typed, ProviderTyped
<1>2. CASE srv = [Idle EXCEPT !.of = r] /\ answer[r] = "none"
  BY <1>2 DEF Idle
<1>3. CASE Accounted(r)
  <2>1. srv.taken <= 0 /\ srv.taken \in Nat /\ srv.left \in 0 .. FileCount
    BY <1>1, <1>3 DEF Accounted, Server
  <2>2. srv.taken = 0
    BY <2>1
  <2>3. CASE srv.half = 0
    <3>1. 0 = 2 * (FileCount - srv.left)
      BY <1>1, <1>3, <2>1, <2>2, <2>3 DEF Accounted
    <3>2. QED  BY <1>1, <2>1, <2>2, <2>3, <3>1
  <2>4. CASE srv.half # 0
    BY <1>1, <1>3, <2>1, <2>2, <2>4 DEF Accounted
  <2>5. QED  BY <2>3, <2>4
<1>4. QED  BY <1>2, <1>3 DEF Connected, Served

LEMMA StartsWorkersCalm ==
  ASSUME Typed, Connected, NEW r \in Receiver, Calm(r), StartsWorkers(r)
  PROVE  Calm(r)'
<1>1. /\ stage[r] = "asking" /\ answer[r] = "plan" /\ stage'[r] = "receiving"
      /\ answer' = answer /\ link' = link /\ streams' = streams /\ arrived' = arrived
      /\ srv' = srv
      /\ worker'[r] = [f \in File |-> IF f <= Workers[r] THEN "queued" ELSE "none"]
  BY DEF StartsWorkers, Typed, LocalTyped, provider, wire
<1>2. streams[r] = <<>> /\ (link'[r] \/ FileCount = 0)
  BY <1>1 DEF Calm, Unharmed, MayFail, Typed, WireTyped
<1>3. Unharmed(r)'
  <2>1. FileCount = 0 => File = {}
    BY DEF File
  <2>2. QED  BY <1>1, <1>2, <2>1 DEF Calm, Unharmed
<1>4. Paired(streams[r], worker[r])'
  BY <1>1, <1>2, NoStreamsPaired DEF NoneLocked
<1>5. WellServed(r)'
  <2>1. srv.of = r => srv.taken = 0 /\ srv.half = 0
    BY <1>2, NothingTaken
  <2>2. \A k \in Nat : ~(2 * k + 2 <= 0)
    OBVIOUS
  <2>3. QED  BY <1>1, <2>1, <2>2 DEF Calm, WellServed
<1>6. QED  BY <1>3, <1>4, <1>5 DEF Calm

\* What has been taken of a connection are streams of it.
LEMMA TakenAreStreams ==
  ASSUME Typed, Connected, NEW r \in Receiver, srv.of = r
  PROVE  /\ srv.taken \in Nat /\ Len(streams[r]) \in Nat /\ srv.taken <= Len(streams[r])
         /\ \A i \in 1 .. Len(streams[r]) : streams[r][i].file \in File
<1>1. streams[r] \in Seq(Stream) /\ srv.taken \in Nat
  BY DEF Typed, ProviderTyped, WireTyped, Server
<1>2. Len(streams[r]) \in Nat /\ \A i \in 1 .. Len(streams[r]) : streams[r][i] \in Stream
  BY <1>1, ElementOfSeq, LenProperties
<1>3. CASE srv = [Idle EXCEPT !.of = r]
  <2>1. srv.taken = 0
    BY <1>3 DEF Idle
  <2>2. QED  BY <1>2, <2>1 DEF Stream
<1>4. CASE Accounted(r)
  BY <1>1, <1>2, <1>4 DEF Accounted, Stream
<1>5. QED  BY <1>3, <1>4 DEF Connected, Served

\* Workers that go on without opening a stream do not disturb the provider.
LEMMA WellServedFrame ==
  ASSUME Typed, Connected, NEW r \in Receiver, WellServed(r),
         srv' = srv, streams' = streams,
         \A f \in File : IsDone(r, f) => IsDone(r, f)'
  PROVE  WellServed(r)'
<1>1. ASSUME NEW k \in Nat, srv.of = r, 2 * k + 2 <= srv.taken
      PROVE  streams[r][2 * k + 1].file \in DOMAIN srv.tasks
               \/ IsDone(r, streams[r][2 * k + 1].file)'
  <2>1. 2 * k + 1 \in 1 .. Len(streams[r])
    BY <1>1, TakenAreStreams
  <2>2. QED  BY <1>1, <2>1, TakenAreStreams DEF WellServed
<1>2. QED  BY <1>1 DEF WellServed

LEMMA SeesSuccessCalm ==
  ASSUME Typed, Connected, Pools, NEW r \in Receiver, NEW f \in File, Calm(r), SeesSuccess(r, f)
  PROVE  Calm(r)'
<1>1. /\ stage' = stage /\ answer' = answer /\ link' = link /\ streams' = streams
      /\ arrived' = arrived /\ srv' = srv /\ worker[r][f] = "ok"
  BY DEF SeesSuccess, provider, wire
<1>2. ASSUME NEW g \in File
      PROVE  \/ worker'[r][g] = worker[r][g]
             \/ g = f /\ worker'[r][g] = "joined"
             \/ worker[r][g] = "none" /\ worker'[r][g] = "queued"
  <2>1. PICK k \in File :
          /\ UpTo(r, k) /\ k \in Nat
          /\ worker'[r] = [h \in File |-> IF h = f THEN "joined"
                                       ELSE IF h = k + 1 THEN "queued" ELSE worker[r][h]]
    BY SeesSuccessSpawns
  <2>2. k + 1 \in File => worker[r][k + 1] = "none"
    BY <2>1 DEF UpTo, Spawned
  <2>3. QED  BY <2>1, <2>2
<1>3. Unharmed(r)'
  BY <1>1, <1>2 DEF Calm, Unharmed, MayFail, IsDone
<1>4. Paired(streams[r], worker'[r])
  <2>1. ASSUME NEW g \in File
        PROVE  /\ worker'[r][g] = "locked" <=> worker[r][g] = "locked"
               /\ worker'[r][g] \in {"none", "queued"} => worker[r][g] \in {"none", "queued"}
    BY <1>1, <1>2
  <2>2. QED  BY <2>1, PairedFrame DEF Calm
<1>5. \A g \in File : IsDone(r, g) => IsDone(r, g)'
  BY <1>1, <1>2 DEF IsDone
<1>6. WellServed(r)'
  BY <1>1, <1>5, WellServedFrame DEF Calm
<1>7. QED  BY <1>1, <1>3, <1>4, <1>6 DEF Calm

\* A worker opens its two streams, and gets on with its file.
LEMMA OpensCalm ==
  ASSUME Typed, Connected, Pools, NEW r \in Receiver, NEW f \in File, Calm(r),
         OpensRequest(r, f) \/ OpensCreditAndAsks(r, f)
  PROVE  Calm(r)'
<1>1. PICK use \in {"request", "credit"} :
        /\ streams' = [streams EXCEPT ![r] = Append(@, [file |-> f, use |-> use])]
        /\ worker' = [worker EXCEPT ![r][f] = IF use = "request" THEN "locked" ELSE "asked"]
        /\ worker[r][f] = IF use = "request" THEN "queued" ELSE "locked"
        /\ use = "request" => \A g \in File : worker[r][g] # "locked"
  BY DEF OpensRequest, OpensCreditAndAsks
<1>2. /\ link[r] /\ stage' = stage /\ answer' = answer /\ link' = link
      /\ arrived' = arrived /\ srv' = srv
  BY DEF OpensRequest, OpensCreditAndAsks, provider
<1>3. \A g \in File : worker'[r][g] = IF g = f THEN IF use = "request" THEN "locked" ELSE "asked"
                                              ELSE worker[r][g]
  BY <1>1 DEF Typed, LocalTyped
<1>4. streams'[r] = Append(streams[r], [file |-> f, use |-> use]) /\ streams[r] \in Seq(Stream)
  BY <1>1 DEF Typed, WireTyped
<1>5. stage[r] = "receiving"
  BY <1>1 DEF Pools, Pool, NoWorkers
<1>6. Unharmed(r)'
  BY <1>2, <1>3, <1>5 DEF Calm, Unharmed
<1>7. Paired(streams'[r], worker'[r])
  <2>1. CASE use = "request"
    <3>1. /\ worker[r][f] = "queued" /\ NoneLocked(worker[r])
          /\ Moves(worker[r], worker'[r], f, "locked")
          /\ streams'[r] = Append(streams[r], [file |-> f, use |-> "request"])
      BY <1>1, <1>3, <1>4, <2>1 DEF NoneLocked, Moves
    <3>2. Paired(streams[r], worker[r])
      BY DEF Calm
    <3>3. QED  BY <1>4, <3>1, <3>2, RequestPaired
  <2>2. CASE use = "credit"
    <3>1. /\ worker[r][f] = "locked" /\ Moves(worker[r], worker'[r], f, "asked")
          /\ streams'[r] = Append(streams[r], [file |-> f, use |-> "credit"])
      BY <1>1, <1>3, <1>4, <2>2 DEF Moves
    <3>2. Paired(streams[r], worker[r])
      BY DEF Calm
    <3>3. QED  BY <1>4, <3>1, <3>2, CreditPaired
  <2>3. QED  BY <2>1, <2>2
<1>8. WellServed(r)'
  <2>1. [file |-> f, use |-> use] \in Stream
    BY DEF Stream
  <2>2. \A i \in 1 .. Len(streams[r]) : streams'[r][i] = streams[r][i]
    BY <1>4, <2>1, AppendProperties
  <2>3. \A g \in File : IsDone(r, g) => IsDone(r, g)'
    BY <1>1, <1>3 DEF IsDone
  <2>4. ASSUME srv.of = r
        PROVE  /\ srv.half # 0 => streams'[r][srv.taken] = streams[r][srv.taken]
               /\ \A k \in Nat : 2 * k + 2 <= srv.taken =>
                    /\ streams'[r][2 * k + 1] = streams[r][2 * k + 1]
                    /\ streams[r][2 * k + 1].file \in File
    <3>1. srv.half # 0 => srv.taken \in 1 .. Len(streams[r])
      <4>1. srv.half # 0 => Accounted(r)
        BY <2>4 DEF Connected, Served, Idle
      <4>2. srv \in Server /\ FileCount \in Nat
        BY DirectoryAssumption DEF Typed, ProviderTyped
      <4>3. srv.half # 0 => srv.taken >= 1
        BY <4>1, <4>2 DEF Accounted, Server
      <4>4. QED  BY <2>4, <4>3, TakenAreStreams
    <3>2. \A k \in Nat : 2 * k + 2 <= srv.taken => 2 * k + 1 \in 1 .. Len(streams[r])
      BY <2>4, TakenAreStreams
    <3>3. QED  BY <2>2, <2>4, <3>1, <3>2, TakenAreStreams
  <2>5. ASSUME NEW k \in Nat, srv.of = r, 2 * k + 2 <= srv.taken
        PROVE  (streams[r][2 * k + 1].file \in DOMAIN srv.tasks
                  \/ IsDone(r, streams[r][2 * k + 1].file))'
    <3>1. streams'[r][2 * k + 1] = streams[r][2 * k + 1] /\ streams[r][2 * k + 1].file \in File
      BY <2>4, <2>5
    <3>2. streams[r][2 * k + 1].file \in DOMAIN srv.tasks \/ IsDone(r, streams[r][2 * k + 1].file)
      BY <2>5 DEF Calm, WellServed
    <3>3. QED  BY <1>2, <2>3, <3>1, <3>2 DEF IsDone
  <2>6. QED  BY <1>2, <2>4, <2>5 DEF Calm, WellServed
<1>9. QED  BY <1>6, <1>7, <1>8 DEF Calm

LEMMA WorkerCalm ==
  ASSUME Typed, Connected, Pools, NEW r \in Receiver, NEW f \in File, Calm(r),
         WorkerStep(r, f), faults' = 0
  PROVE  Calm(r)'
<1>1. CASE OpensRequest(r, f) \/ OpensCreditAndAsks(r, f)
  BY <1>1, OpensCalm
<1>2. CASE CreatesFile(r, f) \/ FinishesFile(r, f)
  <2>1. /\ stage' = stage /\ answer' = answer /\ link' = link /\ streams' = streams
        /\ arrived' = arrived /\ srv' = srv
    BY <1>2 DEF CreatesFile, FinishesFile, provider, wire
  <2>2. /\ worker[r][f] \in {"asked", "copying"} /\ worker'[r][f] \in {"copying", "ok"}
        /\ \A g \in File \ {f} : worker'[r][g] = worker[r][g]
    BY <1>2 DEF CreatesFile, FinishesFile, Typed, LocalTyped
  <2>3. Unharmed(r)'
    BY <2>1, <2>2 DEF Calm, Unharmed, MayFail, IsDone
  <2>4. Paired(streams[r], worker'[r])
    <3>1. ASSUME NEW g \in File
          PROVE  /\ worker'[r][g] = "locked" <=> worker[r][g] = "locked"
                 /\ worker'[r][g] \in {"none", "queued"} => worker[r][g] \in {"none", "queued"}
      BY <2>2
    <3>2. QED  BY <3>1, PairedFrame DEF Calm
  <2>5. \A g \in File : IsDone(r, g) => IsDone(r, g)'
    BY <2>2 DEF IsDone
  <2>6. WellServed(r)'
    BY <2>1, <2>5, WellServedFrame DEF Calm
  <2>7. QED  BY <2>1, <2>3, <2>4, <2>6 DEF Calm
<1>3. ~WorkerFails(r, f)
  <2>1. SUFFICES ASSUME WorkerFails(r, f) PROVE FALSE
    OBVIOUS
  <2>2. ~link[r] \/ arrived[r][f] = "cut"
    BY <2>1 DEF WorkerFails, Fault, Typed
  <2>3. ~IsDone(r, f) /\ stage[r] = "receiving"
    BY <2>1 DEF WorkerFails, IsDone, Pools, Pool, NoWorkers
  <2>4. QED  BY <2>2, <2>3 DEF Calm, Unharmed
<1>4. QED  BY <1>1, <1>2, <1>3 DEF WorkerStep

\* The provider takes a request, then its credit: the streams it takes alternate, so
\* that it never takes one for the other.
LEMMA AcceptsCalm ==
  ASSUME Typed, Connected, NEW r \in Receiver, Calm(r),
         AcceptsRequest(r) \/ AcceptsCredit(r)
  PROVE  Calm(r)'
<1> DEFINE next == srv.taken + 1
<1>1. /\ srv.of = r /\ (srv.half # 0 \/ srv.left > 0)
      /\ stage' = stage /\ answer' = answer /\ streams' = streams /\ arrived' = arrived
      /\ worker' = worker
  BY DEF AcceptsRequest, AcceptsCredit, Serving, wire, local
<1>2. /\ srv \in Server /\ FileCount \in Nat
      /\ next <= Len(streams[r]) /\ Len(streams[r]) \in Nat
      /\ streams[r][next] \in Stream
  BY DirectoryAssumption, NextStreamIsThere, TakenAreStreams
     DEF AcceptsRequest, AcceptsCredit, Serving, Typed, ProviderTyped
<1>3. srv # [Idle EXCEPT !.of = r]
  BY <1>1 DEF Idle
<1>4. Accounted(r)
  BY <1>1, <1>3 DEF Connected, Served
<1>5. CASE AcceptsRequest(r)
  <2>1. PICK k \in Nat : srv.taken = 2 * k
    <3>1. srv.taken = 2 * (FileCount - srv.left) /\ FileCount - srv.left \in Nat
      BY <1>2, <1>4, <1>5 DEF AcceptsRequest, Accounted, Server
    <3>2. QED  BY <3>1
  <2>2. streams[r][next].use = "request"
    BY <1>2, <2>1 DEF Calm, Paired, Alternating
  <2>3. /\ srv' = [srv EXCEPT !.taken = next, !.half = streams[r][next].file]
        /\ link' = [link EXCEPT ![r] = TRUE] /\ link[r] \in BOOLEAN
    BY <1>5, <2>2 DEF AcceptsRequest, Typed, WireTyped
  <2>4. /\ srv'.taken = next /\ srv'.half = streams[r][next].file /\ srv'.of = r
        /\ srv'.tasks = srv.tasks /\ srv'.bad = srv.bad
    BY <1>1, <1>2, <2>3 DEF Server
  <2>5. WellServed(r)'
    <3>1. \A j \in Nat : 2 * j + 2 <= next => 2 * j + 2 <= srv.taken
      BY <2>1
    <3>2. QED  BY <1>1, <2>4, <3>1 DEF Calm, WellServed, IsDone
  <2>6. Unharmed(r)'
    BY <1>1, <2>3 DEF Calm, Unharmed, MayFail, IsDone, Typed, WireTyped
  <2>7. QED  BY <1>1, <2>5, <2>6 DEF Calm
<1>6. CASE AcceptsCredit(r)
  <2>1. PICK k \in Nat : srv.taken = 2 * k + 1
    <3>1. srv.taken = 2 * (FileCount - srv.left) + 1 /\ FileCount - srv.left \in Nat
      BY <1>2, <1>4, <1>6 DEF AcceptsCredit, Accounted, Server
    <3>2. QED  BY <3>1
  <2>2. streams[r][next].use = "credit" /\ streams[r][next].file = streams[r][2 * k + 1].file
    BY <1>2, <2>1 DEF Calm, Paired, Alternating
  <2>3. srv.half = streams[r][2 * k + 1].file
    BY <1>1, <1>6, <2>1 DEF AcceptsCredit, Calm, WellServed
  <2>4. /\ srv' = [srv EXCEPT !.taken = next, !.half = 0, !.left = @ - 1,
                              !.tasks = Put(@, srv.half, srv.half)]
        /\ link' = link
    BY <1>6, <2>2, <2>3 DEF AcceptsCredit, wire
  <2>5. /\ srv'.taken = next /\ srv'.half = 0 /\ srv'.of = r
        /\ srv'.tasks = Put(srv.tasks, srv.half, srv.half) /\ srv'.bad = srv.bad
    BY <1>1, <1>2, <2>4 DEF Server
  <2>6. WellServed(r)'
    <3>1. /\ DOMAIN srv'.tasks = DOMAIN srv.tasks \cup {srv.half}
          /\ \A f \in DOMAIN srv'.tasks : srv'.tasks[f] = f
      BY <1>1, <2>5 DEF Put, Calm, WellServed
    <3>2. \A j \in Nat : 2 * j + 2 <= next => j = k \/ 2 * j + 2 <= srv.taken
      BY <2>1
    <3>3. QED  BY <1>1, <2>3, <2>5, <3>1, <3>2 DEF Calm, WellServed, IsDone
  <2>7. Unharmed(r)'
    BY <1>1, <2>4 DEF Calm, Unharmed, MayFail, IsDone
  <2>8. QED  BY <1>1, <2>6, <2>7 DEF Calm
<1>7. QED  BY <1>5, <1>6

\* When all requests are in and no task is left, the receiver has every file.
LEMMA JoinsCalm ==
  ASSUME Typed, Connected, NEW r \in Receiver, Calm(r), JoinsTasks(r)
  PROVE  Calm(r)'
<1>1. /\ srv.of = r /\ answer[r] = "plan" /\ srv.left = 0 /\ stage' = stage
      /\ answer' = answer /\ streams' = streams /\ arrived' = arrived /\ worker' = worker
      /\ srv' = Idle
  BY DEF JoinsTasks, Returns, Serving, local
<1>2. Accounted(r) /\ stage[r] \in {"asking", "receiving"}
  BY <1>1 DEF Connected, Served
<1>3. /\ srv.taken = 2 * FileCount /\ FileCount \in Nat
      /\ srv.taken <= Len(streams[r]) /\ streams[r] \in Seq(Stream)
  <2>1. srv.half = 0
    BY <1>1 DEF Typed, ProviderTyped
  <2>2. FileCount \in Nat
    BY DirectoryAssumption
  <2>3. QED  BY <1>1, <1>2, <2>1, <2>2 DEF Accounted, Typed, WireTyped
<1>4. stage[r] = "receiving" \/ FileCount = 0
  <2>1. Len(<<>>) = 0
    OBVIOUS
  <2>2. streams[r] # <<>> \/ FileCount = 0
    BY <1>3, <2>1
  <2>3. QED  BY <2>2 DEF Calm, Unharmed
<1>5. DOMAIN srv.tasks = {}
  BY <1>1 DEF JoinsTasks, Calm, WellServed
<1>6. \A f \in File : IsDone(r, f)
  <2>1. ASSUME NEW f \in File PROVE IsDone(r, f)
    <3>1. PICK k \in Nat : 2 * k + 2 <= 2 * FileCount /\ streams[r][2 * k + 1].file = f
      BY <1>3, AllAreAsked DEF Calm, Paired
    <3>2. QED  BY <1>1, <1>3, <1>5, <3>1 DEF Calm, WellServed
  <2>2. QED  BY <2>1
<1>7. Unharmed(r)'
  BY <1>1, <1>2, <1>4, <1>6 DEF Calm, Unharmed, MayFail, IsDone
<1>8. WellServed(r)'
  BY <1>1, ReceiverAssumption DEF WellServed, Idle
<1>9. QED  BY <1>1, <1>7, <1>8 DEF Calm

\* The answer to the manifest request, when the folder is registered or not yet.
LEMMA AnswersManifestCalm ==
  ASSUME Typed, Connected, NEW r \in Receiver, Calm(r), AnswersManifest(r)
  PROVE  Calm(r)'
<1>1. /\ srv = [Idle EXCEPT !.of = r] /\ stage[r] = "asking" /\ stage' = stage
      /\ streams' = streams /\ arrived' = arrived /\ worker' = worker
  BY DEF AnswersManifest, Returns, Serving, Connected, Served, local
<1>2. CASE /\ answer' = [answer EXCEPT ![r] = "plan"] /\ link' = link
           /\ srv' = [srv EXCEPT !.left = FileCount]
  <2>1. /\ srv'.half = 0 /\ srv'.taken = 0 /\ srv'.bad = FALSE
        /\ srv'.tasks = [f \in {} |-> 0] /\ srv'.of = r
    BY <1>1, <1>2 DEF Idle
  <2>2. WellServed(r)'
    BY <2>1 DEF WellServed
  <2>3. link[r]
    BY <1>1 DEF AnswersManifest, Calm, Unharmed, MayFail, Typed, WireTyped
  <2>4. Unharmed(r)'
    BY <1>1, <1>2, <2>3 DEF Calm, Unharmed
  <2>5. QED  BY <1>1, <2>2, <2>4 DEF Calm
<1>3. CASE answer' = [answer EXCEPT ![r] = "refused"] /\ Returns(r)
  <2>1. answer'[r] = "refused" /\ srv'.of # r
    BY <1>3, ReceiverAssumption DEF Returns, Idle, Typed, WireTyped
  <2>2. MayFail(r)'
    BY <2>1 DEF MayFail
  <2>3. Unharmed(r)'
    BY <1>1, <2>2 DEF Calm, Unharmed
  <2>4. QED  BY <1>1, <2>1, <2>3 DEF Calm, WellServed
<1>4. QED  BY <1>2, <1>3 DEF AnswersManifest

LEMMA TaskCalm ==
  ASSUME Typed, NEW r \in Receiver, NEW f \in File, Calm(r), TaskStep(r, f), faults' = 0
  PROVE  Calm(r)'
<1>1. /\ stage' = stage /\ answer' = answer /\ link' = link /\ streams' = streams
      /\ worker' = worker /\ srv.of = r /\ f \in DOMAIN srv.tasks
  BY DEF TaskStep, TaskAnswers, TaskMissesFile, TaskServes, TaskEnds, TaskBreaks, Puts,
         Serving, wire, local
<1>2. ASSUME NEW what \in {"ready", "all"}, Puts(r, f, what), srv' = srv PROVE Calm(r)'
  <2>1. \A g \in File : arrived'[r][g] # "cut"
    BY <1>2 DEF Puts, Calm, Unharmed, Typed, WireTyped
  <2>2. Unharmed(r)'
    BY <1>1, <2>1 DEF Calm, Unharmed, MayFail, IsDone
  <2>3. WellServed(r)'
    BY <1>1, <1>2 DEF Calm, WellServed, IsDone
  <2>4. QED  BY <1>1, <2>2, <2>3 DEF Calm
<1>3. CASE TaskAnswers(r, f)
  BY <1>2, <1>3 DEF TaskAnswers
<1>4. ~TaskMissesFile(r, f)
  BY DEF TaskMissesFile, Fault, Typed
<1>5. CASE TaskServes(r, f)
  <2>1. srv.tasks[f] = f /\ f # 0
    BY <1>1, DirectoryAssumption DEF Calm, WellServed, File
  <2>2. Puts(r, f, "all") /\ srv' = srv
    BY <1>5, <2>1 DEF TaskServes
  <2>3. QED  BY <1>2, <2>2
<1>6. CASE TaskEnds(r, f)
  <2>1. /\ IsDone(r, f) /\ arrived' = arrived
        /\ srv' = [srv EXCEPT !.tasks = Restrict(@, DOMAIN @ \ {f})]
    BY <1>6 DEF TaskEnds, IsDone, wire
  <2>2. /\ srv'.tasks = Restrict(srv.tasks, DOMAIN srv.tasks \ {f})
        /\ srv'.half = srv.half /\ srv'.taken = srv.taken /\ srv'.bad = srv.bad
    BY <2>1 DEF Typed, ProviderTyped, Server
  <2>3. /\ DOMAIN srv'.tasks = DOMAIN srv.tasks \ {f}
        /\ \A g \in DOMAIN srv'.tasks : srv'.tasks[g] = srv.tasks[g]
    BY <2>2 DEF Restrict
  <2>4. WellServed(r)'
    BY <1>1, <2>1, <2>2, <2>3 DEF Calm, WellServed, IsDone
  <2>5. Unharmed(r)'
    BY <1>1, <2>1 DEF Calm, Unharmed, MayFail, IsDone
  <2>6. QED  BY <1>1, <2>4, <2>5 DEF Calm
<1>7. QED  BY <1>3, <1>4, <1>5, <1>6 DEF TaskStep

LEMMA AskCalm ==
  ASSUME Typed, Connected, Pools, up, NEW r \in Receiver, Calm(r), Ask(r)
  PROVE  Calm(r)'
<1>1. /\ stage[r] \in {"idle", "failed"} /\ stage'[r] = "asking" /\ link'[r] = TRUE
      /\ streams' = streams /\ arrived' = arrived /\ worker' = worker /\ srv' = srv
  BY DEF Ask, Typed, LocalTyped, WireTyped
<1>2. srv.of # r
  BY <1>1 DEF Connected, Served
<1>3. Unharmed(r)'
  BY <1>1 DEF Calm, Unharmed
<1>4. QED  BY <1>1, <1>2, <1>3 DEF Calm, WellServed

\* Without a fault only what may fail does.
LEMMA FailingCalm ==
  ASSUME Typed, Pools, NEW r \in Receiver, Calm(r), Failing(r), faults' = 0
  PROVE  Calm(r)'
<1>1. MayFail(r) /\ Fails(r)
  <2>1. ~DirsFail(r) /\ ~RenameFails(r) /\ ~Crash(r)
    BY DEF DirsFail, RenameFails, Crash, Fault, Typed
  <2>2. \A f \in File : ~SeesError(r, f)
    BY DEF SeesError, Calm, Unharmed
  <2>3. AskFails(r)
    BY <2>1, <2>2 DEF Failing
  <2>4. stage[r] = "asking" /\ (answer[r] = "refused" \/ ~link[r])
    BY <2>3 DEF AskFails, Fault, Typed
  <2>5. MayFail(r)
    BY <2>4 DEF Calm, Unharmed, MayFail
  <2>6. QED  BY <2>3, <2>5 DEF AskFails
<1>2. QED  BY <1>1, DropsCalm DEF Fails

\* What receiver r, or the provider for r, does leaves the others alone.
OnlyFor(r) ==
  \A q \in Receiver \ {r} :
    /\ srv'.of = q => srv' = srv
    /\ stage'[q] = stage[q] /\ answer'[q] = answer[q] /\ link'[q] = link[q]
    /\ streams'[q] = streams[q] /\ arrived'[q] = arrived[q] /\ worker'[q] = worker[q]

LEMMA StepsAreOnlyForOne ==
  ASSUME Typed, NEW r \in Receiver
  PROVE  /\ Ask(r) \/ StartsWorkers(r) => OnlyFor(r)
         /\ \A outcome : Drops(r, outcome) => OnlyFor(r)
         /\ \A f \in File : SeesSuccess(r, f) \/ WorkerStep(r, f) \/ TaskStep(r, f) => OnlyFor(r)
         /\ ServeStep(r) => OnlyFor(r)
<1> USE DEF Typed, LocalTyped, WireTyped, OnlyFor, provider, wire, local
<1>1. Ask(r) \/ StartsWorkers(r) => OnlyFor(r)
  BY DEF Ask, StartsWorkers
<1>2. ASSUME NEW outcome, Drops(r, outcome) PROVE OnlyFor(r)
  BY <1>2, ReceiverAssumption DEF Drops, Idle
<1>3. ASSUME NEW f \in File, SeesSuccess(r, f) PROVE OnlyFor(r)
  BY <1>3 DEF SeesSuccess
<1>4. ASSUME NEW f \in File, WorkerStep(r, f) PROVE OnlyFor(r)
  BY <1>4 DEF WorkerStep, OpensRequest, OpensCreditAndAsks, CreatesFile, FinishesFile,
              WorkerFails
<1>5. ASSUME NEW f \in File, TaskStep(r, f) PROVE OnlyFor(r)
  <2>1. srv.of = r /\ srv \in Server
    BY <1>5 DEF TaskStep, TaskAnswers, TaskMissesFile, TaskServes, TaskEnds, Serving,
                ProviderTyped
  <2>2. srv'.of = r
    BY <1>5, <2>1 DEF TaskStep, TaskAnswers, TaskMissesFile, TaskServes, TaskEnds,
                      TaskBreaks, Server
  <2>3. QED
    BY <1>5, <2>2 DEF TaskStep, TaskAnswers, TaskMissesFile, TaskServes, TaskEnds,
                      TaskBreaks, Puts
<1>6. ASSUME ServeStep(r) PROVE OnlyFor(r)
  <2>1. srv.of = r /\ srv \in Server
    BY <1>6 DEF ServeStep, AnswersManifest, AcceptsRequest, AcceptsCredit, JoinsTasks,
                Serving, ProviderTyped
  <2>2. srv'.of \in {r, Nobody}
    <3>1. Idle.of = Nobody
      BY DEF Idle
    <3>2. QED
      BY <1>6, <2>1, <3>1 DEF ServeStep, AnswersManifest, AcceptsRequest, AcceptsCredit,
                              JoinsTasks, Returns, Server
  <2>3. QED
    BY <1>6, <2>2, ReceiverAssumption
       DEF ServeStep, AnswersManifest, AcceptsRequest, AcceptsCredit, JoinsTasks, Returns
<1>7. QED  BY <1>1, <1>2, <1>3, <1>4, <1>5, <1>6

LEMMA StepUndisturbed == IInv /\ [DirectoryNext]_directoryVars => Undisturbed'
<1> SUFFICES ASSUME IInv, [DirectoryNext]_directoryVars, faults' = 0
             PROVE  up' /\ \A r \in Receiver : Calm(r)'
  BY DEF Undisturbed
<1>1. Typed /\ Connected /\ Pools
  BY DEF IInv
<1>2. faults = 0 /\ up' = up
  <2>1. CASE UNCHANGED directoryVars
    BY <2>1 DEF directoryVars, provider
  <2>2. ~ProviderCrashes
    BY <1>1 DEF ProviderCrashes, Fault, Typed
  <2>3. CASE Registers \/ TakesConnection \/ LosesReceiver
    BY <2>3 DEF Registers, TakesConnection, LosesReceiver
  <2>4. ASSUME NEW r \in Receiver, Ask(r) \/ Crash(r) \/ ReceiverStep(r)
        PROVE  faults = 0 /\ up' = up
    BY <1>1, <2>4 DEF Ask, Crash, ReceiverStep, StartsWorkers, AskFails, DirsFail,
                      SeesSuccess, SeesError, Renames, RenameFails, Fails, Drops, Fault,
                      Typed, provider
  <2>5. ASSUME NEW r \in Receiver, ServeStep(r) PROVE faults = 0 /\ up' = up
    BY <2>5 DEF ServeStep, AnswersManifest, AcceptsRequest, AcceptsCredit, JoinsTasks, Returns
  <2>6. ASSUME NEW r \in Receiver, NEW f \in File, WorkerStep(r, f) \/ TaskStep(r, f)
        PROVE  faults = 0 /\ up' = up
    BY <1>1, <2>6 DEF WorkerStep, OpensRequest, OpensCreditAndAsks, CreatesFile,
                      FinishesFile, WorkerFails, TaskStep, TaskAnswers, TaskMissesFile,
                      TaskServes, TaskEnds, TaskBreaks, Puts, Fault, Typed, provider
  <2>7. QED  BY <2>1, <2>2, <2>3, <2>4, <2>5, <2>6 DEF DirectoryNext
<1>3. up' /\ \A r \in Receiver : Calm(r)
  BY <1>2 DEF IInv, Undisturbed
<1>4. ASSUME NEW r \in Receiver, Calm(r)', OnlyFor(r)
      PROVE  \A q \in Receiver : Calm(q)'
  BY <1>3, <1>4, CalmFrame DEF OnlyFor
<1>5. CASE Registers \/ UNCHANGED directoryVars
  BY <1>3, <1>5, CalmFrame DEF Registers, directoryVars, provider, wire, local
<1>6. CASE TakesConnection \/ LosesReceiver
  <2>1. ASSUME NEW r \in Receiver PROVE Unharmed(r)' /\ Paired(streams[r], worker[r])'
    <3>1. /\ stage' = stage /\ answer' = answer /\ link' = link /\ streams' = streams
          /\ arrived' = arrived /\ worker' = worker
      BY <1>6 DEF TakesConnection, LosesReceiver, wire, local
    <3>2. QED  BY <1>3, <3>1 DEF Calm, Unharmed, MayFail, IsDone
  <2>2. srv'.half = 0 /\ srv'.taken = 0 /\ srv'.bad = FALSE /\ srv'.tasks = [f \in {} |-> 0]
    BY <1>6 DEF TakesConnection, LosesReceiver, Idle
  <2>3. \A r \in Receiver : WellServed(r)'
    BY <2>2 DEF WellServed
  <2>4. QED  BY <1>3, <2>1, <2>3 DEF Calm
<1>7. ~ProviderCrashes
  BY <1>1 DEF ProviderCrashes, Fault, Typed
<1>8. ASSUME NEW r \in Receiver, Ask(r) PROVE \A q \in Receiver : Calm(q)'
  BY <1>1, <1>2, <1>3, <1>4, <1>8, AskCalm, StepsAreOnlyForOne
<1>9. ASSUME NEW r \in Receiver, Failing(r) PROVE \A q \in Receiver : Calm(q)'
  BY <1>1, <1>3, <1>4, <1>9, FailingCalm, FailingIsFails, StepsAreOnlyForOne DEF Fails
<1>10. ASSUME NEW r \in Receiver, StartsWorkers(r) PROVE \A q \in Receiver : Calm(q)'
  BY <1>1, <1>3, <1>4, <1>10, StartsWorkersCalm, StepsAreOnlyForOne
<1>11. ASSUME NEW r \in Receiver, Renames(r) PROVE \A q \in Receiver : Calm(q)'
  BY <1>1, <1>3, <1>4, <1>11, DropsCalm, StepsAreOnlyForOne DEF Renames
<1>12. ASSUME NEW r \in Receiver, NEW f \in File,
              SeesSuccess(r, f) \/ WorkerStep(r, f) \/ TaskStep(r, f)
       PROVE  \A q \in Receiver : Calm(q)'
  BY <1>1, <1>3, <1>4, <1>12, SeesSuccessCalm, WorkerCalm, TaskCalm, StepsAreOnlyForOne
<1>13. ASSUME NEW r \in Receiver, ServeStep(r) PROVE \A q \in Receiver : Calm(q)'
  BY <1>1, <1>3, <1>4, <1>13, AnswersManifestCalm, AcceptsCalm, JoinsCalm, StepsAreOnlyForOne
     DEF ServeStep
<1>14. QED
  BY <1>3, <1>5, <1>6, <1>7, <1>8, <1>9, <1>10, <1>11, <1>12, <1>13
     DEF DirectoryNext, ReceiverStep, Failing

LEMMA AlwaysUndisturbed == DirectorySpec => []IInv
<1>1. DirectoryInit => Undisturbed
  BY InitUndisturbed
<1>2. IInv /\ [DirectoryNext]_directoryVars => Undisturbed'
  BY StepUndisturbed
<1>3. Typed /\ Connected /\ Pools /\ Undisturbed <=> IInv
  BY DEF IInv
<1>4. QED
  BY <1>1, <1>2, <1>3, AlwaysConnected, AlwaysPooled, PTL DEF DirectorySpec

\* However the streams of the workers and the steps of the provider interleave, with
\* any number of receivers, files and workers, nothing but a fault or a request made
\* before the folder is registered makes a download fail (receive_directory_entry,
\* stream_open_lock, serve_registered_transfer); of a folder without files, only the
\* provider that does not wait for its plan to be read.
THEOREM OnlyFaultsFail == DirectorySpec => []OnlyFaultsFailADownload
<1>1. IInv => OnlyFaultsFailADownload
  BY DEF IInv, Undisturbed, Calm, Unharmed, OnlyFaultsFailADownload
<1>2. QED  BY <1>1, AlwaysUndisturbed, PTL

=============================================================================
