--------------------------- MODULE HostRuntimeProofs ---------------------------
(***************************************************************************)
(* What holds of the processes of a room for every number of them, of      *)
(* commands and of faults, with writers that die between or within turns.  *)
(***************************************************************************)
EXTENDS HostRuntime, TLAPS

Word == {"leave", "command"}
WriterState == {"none", "idle", "used", "busy", "dead", "closed"}

ProcTyped ==
  /\ stage \in [Process -> Stage]
  /\ session \in [Process -> SessionState \union {"Refused"}]
  /\ registered \in Process \union {NoProcess}
  /\ target \in [Process -> Process \union {NoProcess}]
ClientTyped ==
  /\ inputClosed \in [Process -> BOOLEAN]
  /\ peerClosed \in [Process -> BOOLEAN]
  /\ outbox \in [Process -> Seq(Word)]
  /\ welcome \in [Process -> BOOLEAN]
CountTyped == commands \in 0..MaxCommands /\ faults \in 0..MaxFaults
RoomTyped ==
  /\ entered \in BOOLEAN
  /\ members \subseteq Process /\ peers \subseteq Process
  /\ view \in [Process -> SUBSET Process]
  /\ pending \in [Process -> Nat]
LinkTyped ==
  /\ peerLink \in [Process -> {"none", "opening", "opened", "ready"}]
  /\ conn \in [Process -> {"none", "up", "lost"}]
  /\ writer \in [Process -> [Link -> WriterState]]
  /\ readers \in [Process -> SUBSET Link]
DoorTyped ==
  /\ host \in Process \union {NoProcess}
  /\ accepting \in Process \union {NoProcess} /\ arrived \subseteq Process
Typed ==
  /\ ProcTyped /\ ClientTyped /\ CountTyped /\ RoomTyped /\ LinkTyped /\ DoorTyped

\* One process hosts at a time, and the registry names it as long as it does.
OneHost == \A p \in Process : stage[p] = "hosting" => host = p /\ registered = p

\* How far a process has come and what its session has recorded agree; the
\* host's session enters the machine state with the first joiner.
Recorded(p) ==
  /\ stage[p] = "start" => session[p] = "Idle"
  /\ stage[p] \in {"unhosted", "beaten"} => session[p] = "Joining"
  /\ stage[p] = "dialling" => session[p] = "Connecting"
  /\ stage[p] = "greeting" => session[p] = "Negotiating"
  /\ stage[p] = "member" => session[p] = "Machine"
  /\ stage[p] = "hosting" /\ entered => session[p] = "Machine"
  /\ stage[p] = "hosting" /\ ~entered => session[p] = "Connecting"
Orderly == \A p \in Process : session[p] # "Refused" /\ Recorded(p)

\* Without a host there is no room.
NoRoom ==
  /\ entered = FALSE /\ peers = {}
  /\ \A p \in Process :
       view[p] = {} /\ pending[p] = 0 /\ peerLink[p] = "none" /\ readers[p] = {}
  /\ accepting = NoProcess /\ arrived = {}
RoomNeedsHost == HostServes \/ NoRoom

\* The host is nobody's joiner, least of all its own.
Apart ==
  HostServes =>
    /\ accepting # host /\ host \notin arrived /\ host \notin peers
    /\ readers[host] = {} /\ peerLink[host] = "none"

\* Events are kept for peers whose link is not there; only peers are told.
Kin ==
  \A p \in Process :
    /\ pending[p] > 0 => p \in peers /\ peerLink[p] # "ready"
    /\ p \notin peers => view[p] = {}

IInv == Typed /\ OneHost /\ Orderly /\ RoomNeedsHost /\ Apart /\ Kin /\ RosterIsShared

-----------------------------------------------------------------------------
LEMMA Distinct ==
  /\ Process \cap {NoProcess} = {}
  /\ MaxCommands \in Nat /\ MaxFaults \in Nat
BY RuntimeAssumption

LEMMA EmptySeqTyped == <<>> \in Seq(Word)
OBVIOUS

LEMMA Saying ==
  ASSUME NEW box \in [Process -> Seq(Word)], NEW p \in Process
  PROVE  /\ [box EXCEPT ![p] = Append(@, "command")] \in [Process -> Seq(Word)]
         /\ [box EXCEPT ![p] = Append(@, "leave")] \in [Process -> Seq(Word)]
<1>1. "command" \in Word /\ "leave" \in Word
  BY DEF Word
<1>2. ASSUME NEW w \in Word PROVE Append(box[p], w) \in Seq(Word)
  OBVIOUS
<1>3. QED  BY <1>1, <1>2

LEMMA InitInvariant == RuntimeInit => IInv
<1> SUFFICES ASSUME RuntimeInit PROVE IInv
  OBVIOUS
<1>1. Typed
  <2>1. ProcTyped
    BY DEF RuntimeInit, ProcTyped, Stage, SessionState
  <2>2. ClientTyped
    BY EmptySeqTyped DEF RuntimeInit, ClientTyped
  <2>3. CountTyped
    BY Distinct DEF RuntimeInit, CountTyped
  <2>4. RoomTyped
    BY DEF RuntimeInit, RoomTyped
  <2>5. LinkTyped
    BY DEF RuntimeInit, LinkTyped, WriterState
  <2>6. DoorTyped
    BY DEF RuntimeInit, DoorTyped
  <2>7. QED  BY <2>1, <2>2, <2>3, <2>4, <2>5, <2>6 DEF Typed
<1>2. OneHost /\ Orderly /\ RoomNeedsHost
  BY DEF RuntimeInit, OneHost, Orderly, Recorded, RoomNeedsHost, NoRoom
<1>3. Apart /\ Kin /\ RosterIsShared
  BY DEF RuntimeInit, Apart, Kin, RosterIsShared, HostServes
<1>4. QED  BY <1>1, <1>2, <1>3 DEF IInv

-----------------------------------------------------------------------------
(* Types.                                                                  *)

LEMMA TypesStay ==
  ASSUME Typed
  PROVE  /\ UNCHANGED procVars => ProcTyped'
         /\ UNCHANGED joinVars => ClientTyped'
         /\ UNCHANGED roomVars => RoomTyped'
         /\ UNCHANGED linkVars => LinkTyped'
         /\ UNCHANGED doorVars => DoorTyped'
         /\ UNCHANGED <<commands, faults>> => CountTyped'
<1>1. UNCHANGED procVars => ProcTyped'
  BY DEF Typed, ProcTyped, procVars
<1>2. UNCHANGED joinVars => ClientTyped'
  BY DEF Typed, ClientTyped, joinVars
<1>3. UNCHANGED roomVars => RoomTyped'
  BY DEF Typed, RoomTyped, roomVars
<1>4. UNCHANGED linkVars => LinkTyped'
  BY DEF Typed, LinkTyped, linkVars
<1>5. UNCHANGED doorVars => DoorTyped'
  BY DEF Typed, DoorTyped, doorVars
<1>6. UNCHANGED <<commands, faults>> => CountTyped'
  BY DEF Typed, CountTyped
<1>7. QED  BY <1>1, <1>2, <1>3, <1>4, <1>5, <1>6

\* Whatever a turn sends, the writers stay in their states.
LEMMA GivenTyped == \A p \in Process : Given(p) \in WriterState
BY DEF Given, WriterState

LEMMA KeptTyped ==
  ASSUME Typed, Kin, NEW r \in SUBSET Process
  PROVE  /\ Kept(r) \in [Process -> Nat]
         /\ \A p \in Process : Kept(r)[p] > 0 => p \in peers /\ peerLink[p] # "ready"
<1>1. pending \in [Process -> Nat]
  BY DEF Typed, RoomTyped
<1>2. ASSUME NEW p \in Process
      PROVE  /\ Kept(r)[p] \in Nat
             /\ Kept(r)[p] > 0 => p \in peers /\ peerLink[p] # "ready"
  <2>1. pending[p] \in Nat /\ (pending[p] > 0 => p \in peers /\ peerLink[p] # "ready")
    BY <1>1 DEF Kin
  <2>2. Kept(r)[p] = IF p \in r \cap peers /\ peerLink[p] # "ready"
                     THEN pending[p] + 1 ELSE pending[p]
    BY DEF Kept
  <2>3. QED  BY <2>1, <2>2
<1>3. QED  BY <1>2 DEF Kept

-----------------------------------------------------------------------------
(* A process that does not host changes nothing of the room.               *)

OwnStep(p) ==
  /\ UNCHANGED <<roomVars, doorVars, peerLink, readers>>
  /\ stage[p] # "hosting" /\ stage'[p] # "hosting"
  /\ \A q \in Process \ {p} : stage'[q] = stage[q] /\ session'[q] = session[q]
  /\ Recorded(p)' /\ session'[p] # "Refused"
  /\ registered' = registered \/ registered = p
  /\ Typed'

LEMMA OwnStepKeeps ==
  ASSUME IInv, NEW p \in Process, OwnStep(p)
  PROVE  IInv'
<1>1. /\ stage \in [Process -> Stage] /\ stage' \in [Process -> Stage]
      /\ Typed' /\ host \in Process \union {NoProcess}
  BY DEF OwnStep, IInv, Typed, ProcTyped, DoorTyped
<1>2. /\ entered' = entered /\ members' = members /\ peers' = peers /\ view' = view
      /\ pending' = pending /\ host' = host /\ accepting' = accepting /\ arrived' = arrived
      /\ peerLink' = peerLink /\ readers' = readers
  BY DEF OwnStep, roomVars, doorVars
<1>3. \A q \in Process : stage'[q] = "hosting" <=> stage[q] = "hosting"
  BY DEF OwnStep
<1>4. HostServes' <=> HostServes
  BY <1>1, <1>2, <1>3 DEF HostServes
<1>5. OneHost'
  BY <1>2, <1>3 DEF OwnStep, IInv, OneHost
<1>6. Orderly'
  <2>1. ASSUME NEW q \in Process \ {p} PROVE session'[q] # "Refused" /\ Recorded(q)'
    BY <1>2 DEF OwnStep, IInv, Orderly, Recorded
  <2>2. QED  BY <2>1 DEF OwnStep, Orderly
<1>7. RoomNeedsHost' /\ Apart' /\ Kin' /\ RosterIsShared'
  BY <1>2, <1>4 DEF IInv, RoomNeedsHost, NoRoom, Apart, Kin, RosterIsShared
<1>8. QED  BY <1>1, <1>5, <1>6, <1>7 DEF IInv

LEMMA StopsAlone ==
  ASSUME IInv, NEW p \in Process, stage[p] # "hosting", NEW how \in {"failed", "beaten"},
         Stops(p, how), how = "beaten" => stage[p] = "unhosted"
  PROVE  OwnStep(p)
<1>1. stage \in [Process -> Stage] /\ how \in Stage /\ session' = session
  BY DEF IInv, Typed, ProcTyped, Stops, Stage
<1>2. stage' = [stage EXCEPT ![p] = how]
  BY DEF Stops
<1>3. Typed'
  <2>1. ProcTyped'
    BY <1>1, <1>2 DEF Stops, IInv, Typed, ProcTyped
  <2>2. QED  BY <2>1, TypesStay DEF Stops, IInv, Typed, joinVars, CountTyped
<1>4. Recorded(p)' /\ session'[p] # "Refused"
  BY <1>1, <1>2 DEF IInv, Orderly, Recorded
<1>5. QED  BY <1>1, <1>2, <1>3, <1>4 DEF Stops, OwnStep, linkVars

LEMMA DialsAlone ==
  ASSUME IInv, NEW p \in Process, stage[p] # "hosting", registered # NoProcess, Dials(p),
         session' = [session EXCEPT ![p] = "Connecting"]
  PROVE  OwnStep(p)
<1>1. /\ stage \in [Process -> Stage] /\ session \in [Process -> SessionState \union {"Refused"}]
      /\ target \in [Process -> Process \union {NoProcess}] /\ registered \in Process
  BY DEF IInv, Typed, ProcTyped
<1>2. stage' = [stage EXCEPT ![p] = "dialling"] /\ target' = [target EXCEPT ![p] = registered]
  BY DEF Dials
<1>3. Typed'
  <2>1. ProcTyped'
    BY <1>1, <1>2 DEF Dials, IInv, Typed, ProcTyped, Stage, SessionState
  <2>2. QED  BY <2>1, TypesStay DEF Dials, IInv, Typed, joinVars, CountTyped
<1>4. Recorded(p)' /\ session'[p] # "Refused"
  BY <1>1, <1>2 DEF Recorded
<1>5. QED  BY <1>1, <1>2, <1>3, <1>4 DEF Dials, OwnStep, linkVars

LEMMA RunJoinAlone ==
  ASSUME IInv, NEW p \in Process, RunJoin(p)
  PROVE  OwnStep(p)
<1>1. /\ stage \in [Process -> Stage] /\ session \in [Process -> SessionState \union {"Refused"}]
      /\ stage[p] = "start" /\ session[p] = "Idle"
  BY DEF IInv, Typed, ProcTyped, RunJoin, Orderly, Recorded
<1>2. CASE registered # NoProcess
  <2>1. Dials(p) /\ session' = [session EXCEPT ![p] = "Connecting"]
    BY <1>1, <1>2 DEF RunJoin, Transitions, Transition
  <2>2. QED  BY <1>1, <1>2, <2>1, DialsAlone
<1>3. CASE registered = NoProcess
  <2>1. /\ session' = [session EXCEPT ![p] = "Joining"]
        /\ stage' = [stage EXCEPT ![p] = "unhosted"]
        /\ UNCHANGED <<registered, target, joinVars, roomVars, linkVars, doorVars, faults>>
    BY <1>1, <1>3 DEF RunJoin, Transition
  <2>2. Typed'
    <3>1. ProcTyped'
      BY <1>1, <2>1 DEF IInv, Typed, ProcTyped, Stage, SessionState
    <3>2. QED  BY <2>1, <3>1, TypesStay DEF IInv, Typed, joinVars, CountTyped
  <2>3. Recorded(p)' /\ session'[p] # "Refused"
    BY <1>1, <2>1 DEF Recorded
  <2>4. QED  BY <1>1, <2>1, <2>2, <2>3 DEF OwnStep, linkVars
<1>4. QED  BY <1>2, <1>3

LEMMA JoinRetriesAlone ==
  ASSUME IInv, NEW p \in Process, JoinRetries(p)
  PROVE  OwnStep(p)
<1>1. stage[p] = "beaten" /\ session[p] = "Joining"
  BY DEF IInv, JoinRetries, Orderly, Recorded
<1>2. CASE registered # NoProcess
  <2>1. Dials(p) /\ session' = [session EXCEPT ![p] = "Connecting"]
    BY <1>1, <1>2 DEF JoinRetries, Transition
  <2>2. QED  BY <1>1, <1>2, <2>1, DialsAlone
<1>3. CASE registered = NoProcess
  BY <1>1, <1>3, StopsAlone DEF JoinRetries
<1>4. QED  BY <1>2, <1>3

LEMMA ConnectsAlone ==
  ASSUME IInv, NEW p \in Process, Connects(p)
  PROVE  OwnStep(p)
<1>1. /\ stage \in [Process -> Stage] /\ session \in [Process -> SessionState \union {"Refused"}]
      /\ conn \in [Process -> {"none", "up", "lost"}]
      /\ stage[p] = "dialling" /\ session[p] = "Connecting"
  BY DEF IInv, Typed, ProcTyped, LinkTyped, Connects, Orderly, Recorded
<1>2. CASE Stops(p, "failed")
  BY <1>1, <1>2, StopsAlone
<1>3. CASE /\ stage' = [stage EXCEPT ![p] = "greeting"]
           /\ session' = [session EXCEPT ![p] = Transition(@, "PeerConnected")]
           /\ conn' = [conn EXCEPT ![p] = "up"]
           /\ UNCHANGED <<registered, target, joinVars, roomVars, peerLink, writer, readers,
                          doorVars, faults>>
  <2>1. session' = [session EXCEPT ![p] = "Negotiating"]
    BY <1>1, <1>3 DEF Transition
  <2>2. Typed'
    <3>1. ProcTyped'
      BY <1>1, <1>3, <2>1 DEF IInv, Typed, ProcTyped, Stage, SessionState
    <3>2. LinkTyped'
      BY <1>1, <1>3 DEF IInv, Typed, LinkTyped
    <3>3. QED  BY <1>3, <3>1, <3>2, TypesStay DEF IInv, Typed, joinVars, CountTyped
  <2>3. Recorded(p)' /\ session'[p] # "Refused"
    BY <1>1, <1>3, <2>1 DEF Recorded
  <2>4. QED  BY <1>1, <1>3, <2>1, <2>2, <2>3 DEF OwnStep
<1>4. QED  BY <1>2, <1>3 DEF Connects

LEMMA ExchangesHelloAlone ==
  ASSUME IInv, NEW p \in Process, ExchangesHello(p)
  PROVE  OwnStep(p)
<1>1. /\ stage \in [Process -> Stage] /\ session \in [Process -> SessionState \union {"Refused"}]
      /\ stage[p] = "greeting" /\ session[p] = "Negotiating"
  BY DEF IInv, Typed, ProcTyped, ExchangesHello, Orderly, Recorded
<1>2. /\ session' = [session EXCEPT ![p] = "Machine"]
      /\ stage' = [stage EXCEPT ![p] = "member"]
      /\ UNCHANGED <<registered, target, joinVars, roomVars, linkVars, doorVars, faults>>
  BY <1>1 DEF ExchangesHello, Transition
<1>3. Typed'
  <2>1. ProcTyped'
    BY <1>1, <1>2 DEF IInv, Typed, ProcTyped, Stage, SessionState
  <2>2. QED  BY <1>2, <2>1, TypesStay DEF IInv, Typed, joinVars, CountTyped
<1>4. Recorded(p)' /\ session'[p] # "Refused"
  BY <1>1, <1>2 DEF Recorded
<1>5. QED  BY <1>1, <1>2, <1>3, <1>4 DEF OwnStep, linkVars

LEMMA UnregistersAlone ==
  ASSUME IInv, NEW p \in Process, Unregisters(p)
  PROVE  OwnStep(p)
<1>1. Typed'
  <2>1. ProcTyped'
    BY DEF Unregisters, IInv, Typed, ProcTyped
  <2>2. QED  BY <2>1, TypesStay DEF Unregisters, IInv, Typed, joinVars, CountTyped
<1>2. Recorded(p)' /\ session'[p] # "Refused"
  BY DEF Unregisters, IInv, Orderly, Recorded, roomVars
<1>3. QED  BY <1>1, <1>2 DEF Unregisters, OwnStep, linkVars

-----------------------------------------------------------------------------
(* A joiner in the room.                                                   *)

LEMMA ClosesAlone ==
  ASSUME IInv, NEW p \in Process, stage[p] = "member",
         NEW i \in BOOLEAN, NEW o \in BOOLEAN, Closes(p, i, o), UNCHANGED <<registered, target>>
  PROVE  /\ ProcTyped'
         /\ inputClosed' \in [Process -> BOOLEAN] /\ peerClosed' \in [Process -> BOOLEAN]
         /\ stage'[p] \in {"member", "ended"} /\ session'[p] # "Refused"
         /\ stage'[p] = "member" => session'[p] = "Machine"
         /\ \A q \in Process \ {p} : stage'[q] = stage[q] /\ session'[q] = session[q]
<1>1. /\ stage \in [Process -> Stage] /\ session \in [Process -> SessionState \union {"Refused"}]
      /\ registered \in Process \union {NoProcess}
      /\ target \in [Process -> Process \union {NoProcess}] /\ session[p] = "Machine"
  BY DEF IInv, Typed, ProcTyped, Orderly, Recorded
<1>2. inputClosed \in [Process -> BOOLEAN] /\ peerClosed \in [Process -> BOOLEAN]
  BY DEF IInv, Typed, ClientTyped
<1>3. inputClosed' \in [Process -> BOOLEAN] /\ peerClosed' \in [Process -> BOOLEAN]
  <2>1. /\ inputClosed' = [inputClosed EXCEPT ![p] = i]
        /\ peerClosed' = [peerClosed EXCEPT ![p] = o]
    BY DEF Closes
  <2>2. ASSUME NEW f \in [Process -> BOOLEAN], NEW b \in BOOLEAN
        PROVE  [f EXCEPT ![p] = b] \in [Process -> BOOLEAN]
    BY <2>2, Zenon
  <2>3. QED  BY <1>2, <2>1, <2>2, Zenon
<1>4. CASE i /\ o
  <2>1. /\ stage' = [stage EXCEPT ![p] = "ended"]
        /\ session' = [session EXCEPT ![p] = "Closed"]
    BY <1>1, <1>4 DEF Closes, Transitions, Transition
  <2>2. QED  BY <1>1, <1>3, <2>1 DEF ProcTyped, Stage, SessionState
<1>5. CASE ~(i /\ o)
  <2>1. stage' = stage /\ session' = session
    BY <1>5 DEF Closes
  <2>2. QED  BY <1>1, <1>3, <2>1 DEF ProcTyped, Stage, SessionState
<1>6. QED  BY <1>4, <1>5

LEMMA JoinCommandAlone ==
  ASSUME IInv, NEW p \in Process, JoinCommand(p)
  PROVE  OwnStep(p)
<1>1. /\ stage[p] = "member" /\ outbox' = [outbox EXCEPT ![p] = Append(@, "command")]
      /\ commands < MaxCommands /\ commands' = commands + 1
      /\ UNCHANGED <<procVars, inputClosed, peerClosed, welcome, roomVars, linkVars, doorVars,
                     faults>>
  BY DEF JoinCommand
<1>2. Typed'
  <2>1. ClientTyped'
    <3>1. outbox' \in [Process -> Seq(Word)]
      BY <1>1, Saying DEF IInv, Typed, ClientTyped
    <3>2. QED  BY <1>1, <3>1 DEF IInv, Typed, ClientTyped
  <2>2. CountTyped'
    BY <1>1, Distinct DEF IInv, Typed, CountTyped
  <2>3. QED  BY <1>1, <2>1, <2>2, TypesStay DEF IInv, Typed
<1>3. Recorded(p)' /\ session'[p] # "Refused"
  BY <1>1 DEF IInv, Orderly, Recorded, procVars, roomVars
<1>4. QED  BY <1>1, <1>2, <1>3 DEF OwnStep, linkVars, procVars

\* What the three steps that may end a joiner have in common.
LEMMA EndsAlone ==
  ASSUME IInv, NEW p \in Process, stage[p] = "member",
         NEW i \in BOOLEAN, NEW o \in BOOLEAN, Closes(p, i, o),
         outbox' = outbox \/ outbox' = [outbox EXCEPT ![p] = Append(@, "leave")],
         UNCHANGED <<registered, target, welcome, commands, roomVars, linkVars, doorVars, faults>>
  PROVE  OwnStep(p)
<1>1. ProcTyped' /\ inputClosed' \in [Process -> BOOLEAN] /\ peerClosed' \in [Process -> BOOLEAN]
  BY ClosesAlone
<1>2. outbox' \in [Process -> Seq(Word)]
  <2>1. outbox \in [Process -> Seq(Word)]
    BY DEF IInv, Typed, ClientTyped
  <2>2. CASE outbox' = outbox
    BY <2>1, <2>2
  <2>3. CASE outbox' = [outbox EXCEPT ![p] = Append(@, "leave")]
    BY <2>1, <2>3, Saying
  <2>4. QED  BY <2>2, <2>3
<1>3. Typed'
  <2>1. ClientTyped'
    BY <1>1, <1>2 DEF IInv, Typed, ClientTyped
  <2>2. QED  BY <1>1, <2>1, TypesStay DEF IInv, Typed
<1>4. Recorded(p)' /\ session'[p] # "Refused" /\ stage'[p] # "hosting"
  BY ClosesAlone DEF Recorded
<1>5. \A q \in Process \ {p} : stage'[q] = stage[q] /\ session'[q] = session[q]
  BY ClosesAlone
<1>6. QED  BY <1>3, <1>4, <1>5 DEF OwnStep, linkVars

LEMMA JoinStepAlone ==
  ASSUME IInv, NEW p \in Process, JoinStep(p)
  PROVE  OwnStep(p)
<1>1. inputClosed[p] \in BOOLEAN /\ peerClosed[p] \in BOOLEAN
  BY DEF IInv, Typed, ClientTyped
<1>2. CASE JoinCommand(p)
  BY <1>2, JoinCommandAlone
<1>3. CASE JoinLeaves(p)
  BY <1>1, <1>3, EndsAlone, StopsAlone DEF JoinLeaves
<1>4. CASE JoinInputCloses(p)
  BY <1>1, <1>4, EndsAlone DEF JoinInputCloses
<1>5. CASE JoinHearsEnd(p)
  BY <1>1, <1>5, EndsAlone DEF JoinHearsEnd
<1>6. CASE JoinFails(p)
  BY <1>6, StopsAlone DEF JoinFails
<1>7. QED  BY <1>2, <1>3, <1>4, <1>5, <1>6 DEF JoinStep

-----------------------------------------------------------------------------
(* The room begins and ends with its host.                                 *)

LEMMA NobodyHosts ==
  ASSUME IInv, registered = NoProcess
  PROVE  NoRoom /\ \A q \in Process : stage[q] # "hosting"
<1>1. \A q \in Process : stage[q] # "hosting"
  BY Distinct DEF IInv, OneHost
<1>2. ~HostServes
  BY <1>1 DEF HostServes, IInv, Typed, DoorTyped
<1>3. QED  BY <1>1, <1>2 DEF IInv, RoomNeedsHost

LEMMA StartsHostingKeeps ==
  ASSUME IInv, NEW p \in Process, registered = NoProcess, StartsHosting(p),
         session' = [session EXCEPT ![p] = "Connecting"]
  PROVE  IInv'
<1>1. /\ stage \in [Process -> Stage] /\ session \in [Process -> SessionState \union {"Refused"}]
      /\ target \in [Process -> Process \union {NoProcess}]
  BY DEF IInv, Typed, ProcTyped
<1>2. /\ stage' = [stage EXCEPT ![p] = "hosting"] /\ registered' = p /\ host' = p
      /\ members' = {p}
      /\ UNCHANGED <<target, joinVars, entered, peers, view, pending, linkVars, accepting,
                     arrived, faults>>
  BY DEF StartsHosting
<1>3. NoRoom /\ \A q \in Process : stage[q] # "hosting"
  BY NobodyHosts
<1>4. Typed'
  <2>1. ProcTyped'
    BY <1>1, <1>2 DEF ProcTyped, Stage, SessionState
  <2>2. RoomTyped' /\ DoorTyped'
    BY <1>2 DEF IInv, Typed, RoomTyped, DoorTyped
  <2>3. QED  BY <1>2, <2>1, <2>2, TypesStay DEF IInv, Typed, joinVars, CountTyped
<1>5. stage'[p] = "hosting" /\ \A q \in Process \ {p} : stage'[q] = stage[q]
  BY <1>1, <1>2
<1>6. OneHost'
  BY <1>2, <1>3, <1>5 DEF OneHost
<1>7. Orderly'
  <2>1. session'[p] # "Refused" /\ Recorded(p)'
    BY <1>1, <1>2, <1>3, <1>5 DEF Recorded, NoRoom
  <2>2. ASSUME NEW q \in Process \ {p} PROVE session'[q] # "Refused" /\ Recorded(q)'
    BY <1>1, <1>2, <1>5 DEF IInv, Orderly, Recorded
  <2>3. QED  BY <2>1, <2>2 DEF Orderly
<1>8. HostServes' /\ host' = p /\ p # NoProcess
  BY <1>2, <1>5, Distinct DEF HostServes
<1>9. RoomNeedsHost' /\ Apart' /\ Kin' /\ RosterIsShared'
  <2>1. RoomNeedsHost' /\ RosterIsShared'
    BY <1>2, <1>3, <1>8 DEF RoomNeedsHost, RosterIsShared, NoRoom
  <2>2. Apart'
    BY <1>2, <1>3, <1>8 DEF Apart, NoRoom, linkVars
  <2>3. Kin'
    BY <1>2, <1>3 DEF IInv, Kin, NoRoom, linkVars
  <2>4. QED  BY <2>1, <2>2, <2>3
<1>10. QED  BY <1>4, <1>6, <1>7, <1>9 DEF IInv

LEMMA RunHostKeeps ==
  ASSUME IInv, NEW p \in Process, RunHost(p)
  PROVE  IInv'
<1>1. stage[p] = "start" /\ session[p] = "Idle"
  BY DEF RunHost, IInv, Orderly, Recorded
<1>2. CASE registered = NoProcess
  <2>1. StartsHosting(p) /\ session' = [session EXCEPT ![p] = "Connecting"]
    BY <1>1, <1>2 DEF RunHost, Transitions, Transition
  <2>2. QED  BY <1>2, <2>1, StartsHostingKeeps
<1>3. CASE registered # NoProcess
  BY <1>1, <1>3, StopsAlone, OwnStepKeeps DEF RunHost
<1>4. QED  BY <1>2, <1>3

LEMMA JoinRegistersKeeps ==
  ASSUME IInv, NEW p \in Process, JoinRegisters(p)
  PROVE  IInv'
<1>1. stage[p] = "unhosted" /\ session[p] = "Joining"
  BY DEF JoinRegisters, IInv, Orderly, Recorded
<1>2. CASE registered = NoProcess
  <2>1. StartsHosting(p) /\ session' = [session EXCEPT ![p] = "Connecting"]
    BY <1>1, <1>2 DEF JoinRegisters, Transitions, Transition
  <2>2. QED  BY <1>2, <2>1, StartsHostingKeeps
<1>3. CASE registered # NoProcess
  BY <1>1, <1>3, StopsAlone, OwnStepKeeps DEF JoinRegisters
<1>4. QED  BY <1>2, <1>3

HostEnds(how) ==
  /\ stage' = [stage EXCEPT ![host] = how] /\ RoomIsGone
  /\ UNCHANGED <<session, registered, target, joinVars, conn, host>>
  /\ faults' = faults \/ (faults < MaxFaults /\ faults' = faults + 1)

LEMMA RoomEnds ==
  ASSUME IInv, HostServes, NEW how \in {"ended", "failed", "crashed"}, HostEnds(how)
  PROVE  IInv'
<1> USE DEF HostEnds
<1>1. /\ stage \in [Process -> Stage] /\ session \in [Process -> SessionState \union {"Refused"}]
      /\ target \in [Process -> Process \union {NoProcess}] /\ host \in Process
      /\ registered \in Process \union {NoProcess}
      /\ conn \in [Process -> {"none", "up", "lost"}]
  BY DEF IInv, Typed, ProcTyped, LinkTyped, DoorTyped, HostServes
<1>2. Typed'
  <2>1. ProcTyped'
    BY <1>1 DEF ProcTyped, Stage
  <2>2. RoomTyped' /\ DoorTyped' /\ LinkTyped'
    BY <1>1 DEF RoomIsGone, RoomTyped, DoorTyped, LinkTyped, WriterState
  <2>3. CountTyped'
    BY Distinct DEF IInv, Typed, CountTyped, joinVars
  <2>4. QED  BY <2>1, <2>2, <2>3, TypesStay DEF IInv, Typed
<1>3. \A q \in Process : stage'[q] # "hosting"
  BY <1>1 DEF IInv, OneHost
<1>4. ~HostServes'
  BY <1>1, <1>3 DEF HostServes
<1>5. OneHost'
  BY <1>3 DEF OneHost
<1>6. Orderly'
  <2>1. ASSUME NEW q \in Process PROVE session'[q] # "Refused" /\ Recorded(q)'
    BY <1>1, <1>3 DEF IInv, Orderly, Recorded
  <2>2. QED  BY <2>1 DEF Orderly
<1>7. NoRoom' /\ Kin'
  BY DEF RoomIsGone, NoRoom, Kin
<1>8. QED  BY <1>2, <1>4, <1>5, <1>6, <1>7 DEF IInv, RoomNeedsHost, Apart, RosterIsShared

LEMMA HostIsOverKeeps ==
  ASSUME IInv, HostServes, NEW how \in {"ended", "failed"}, HostIsOver(how)
  PROVE  IInv'
<1>1. HostEnds(how)
  BY DEF HostIsOver, HostEnds
<1>2. how \in {"ended", "failed", "crashed"}
  OBVIOUS
<1>3. QED  BY <1>1, <1>2, RoomEnds

LEMMA HostCrashesKeeps ==
  ASSUME IInv, HostCrashes
  PROVE  IInv'
<1>1. HostServes /\ HostEnds("crashed")
  BY DEF HostCrashes, HostEnds
<1>2. QED  BY <1>1, RoomEnds

-----------------------------------------------------------------------------
(* Turns of the host that leave the roster alone.                          *)

QuietTurn ==
  /\ HostServes /\ UNCHANGED <<procVars, entered, members, peers, view, host>>
  /\ accepting' # host /\ host \notin arrived'
  /\ readers'[host] = {} /\ peerLink'[host] = "none"
  /\ \A p \in Process : pending'[p] > 0 => p \in peers /\ peerLink'[p] # "ready"
  /\ Typed'

LEMMA QuietTurnKeeps ==
  ASSUME IInv, QuietTurn
  PROVE  IInv'
<1>1. /\ stage' = stage /\ session' = session /\ registered' = registered
      /\ entered' = entered /\ members' = members /\ peers' = peers /\ view' = view
      /\ host' = host /\ HostServes /\ Typed'
  BY DEF QuietTurn, procVars
<1>2. HostServes'
  BY <1>1 DEF HostServes
<1>3. OneHost' /\ Orderly'
  BY <1>1 DEF IInv, OneHost, Orderly, Recorded
<1>4. RoomNeedsHost' /\ Apart'
  BY <1>1, <1>2 DEF IInv, RoomNeedsHost, Apart, QuietTurn
<1>5. Kin' /\ RosterIsShared'
  BY <1>1, <1>2 DEF IInv, Kin, RosterIsShared, QuietTurn
<1>6. QED  BY <1>1, <1>3, <1>4, <1>5 DEF IInv

\* What a host that serves can rely on.
LEMMA Serving ==
  ASSUME IInv, HostServes
  PROVE  /\ host \in Process /\ stage[host] = "hosting" /\ registered = host
         /\ accepting # host /\ host \notin arrived /\ host \notin peers
         /\ readers[host] = {} /\ peerLink[host] = "none"
         /\ members = peers \union {host} /\ \A q \in peers : view[q] = members
         /\ \A q \in Process : pending[q] > 0 => q \in peers /\ peerLink[q] # "ready"
<1>1. host \in Process /\ stage[host] = "hosting"
  BY DEF IInv, Typed, DoorTyped, HostServes
<1>2. registered = host
  BY <1>1 DEF IInv, OneHost
<1>3. QED  BY <1>1, <1>2 DEF IInv, Apart, RosterIsShared, Kin

LEMMA AcceptsConnectionKeeps ==
  ASSUME IInv, NEW p \in Process, AcceptsConnection(p)
  PROVE  IInv'
<1>1. HostServes /\ p # host
  BY Serving DEF AcceptsConnection
<1>2. /\ accepting' = p
      /\ UNCHANGED <<procVars, joinVars, roomVars, linkVars, host, arrived, faults>>
  BY DEF AcceptsConnection
<1>3. Typed'
  <2>1. DoorTyped'
    BY <1>2 DEF IInv, Typed, DoorTyped
  <2>2. QED  BY <1>2, <2>1, TypesStay DEF IInv, Typed, joinVars, CountTyped
<1>4. QuietTurn
  BY <1>1, <1>2, <1>3, Serving DEF QuietTurn, roomVars, linkVars
<1>5. QED  BY <1>4, QuietTurnKeeps

LEMMA HandshakeEndsKeeps ==
  ASSUME IInv, NEW p \in Process, HandshakeEnds(p)
  PROVE  IInv'
<1>1. HostServes /\ p # host
  BY Serving DEF HandshakeEnds
<1>2. /\ accepting' = NoProcess /\ arrived' \in {arrived, arrived \union {p}}
      /\ UNCHANGED <<procVars, joinVars, roomVars, linkVars, host, faults>>
  BY DEF HandshakeEnds
<1>3. Typed'
  <2>1. DoorTyped'
    BY <1>2 DEF IInv, Typed, DoorTyped
  <2>2. QED  BY <1>2, <2>1, TypesStay DEF IInv, Typed, joinVars, CountTyped
<1>4. accepting' # host /\ host \notin arrived'
  BY <1>1, <1>2, Serving, Distinct
<1>5. QuietTurn
  BY <1>1, <1>2, <1>3, <1>4, Serving DEF QuietTurn, roomVars, linkVars
<1>6. QED  BY <1>5, QuietTurnKeeps

LEMMA HostOpensPeerLinkKeeps ==
  ASSUME IInv, NEW p \in Process, HostOpensPeerLink(p)
  PROVE  IInv'
<1>1. HostServes /\ p # host
  BY Serving DEF HostOpensPeerLink
<1>2. /\ peerLink \in [Process -> {"none", "opening", "opened", "ready"}]
      /\ writer \in [Process -> [Link -> WriterState]] /\ readers \in [Process -> SUBSET Link]
      /\ conn \in [Process -> {"none", "up", "lost"}]
  BY DEF IInv, Typed, LinkTyped
<1>3. /\ UNCHANGED <<procVars, joinVars, roomVars, conn, doorVars, faults>>
      /\ \/ /\ peerLink' = [peerLink EXCEPT ![p] = "opened"]
            /\ readers' = [readers EXCEPT ![p] = @ \union {"peer"}]
            /\ writer' = [writer EXCEPT ![p]["peer"] = "idle"]
         \/ /\ peerLink' = [peerLink EXCEPT ![p] = "none"]
            /\ UNCHANGED <<readers, writer>>
  BY DEF HostOpensPeerLink
<1>4. /\ peerLink' \in [Process -> {"none", "opening", "opened", "ready"}]
      /\ readers' \in [Process -> SUBSET Link]
      /\ writer' \in [Process -> [Link -> WriterState]]
  <2>1. "peer" \in Link /\ "idle" \in WriterState
    BY DEF Link, WriterState
  <2>2. [writer EXCEPT ![p]["peer"] = "idle"] \in [Process -> [Link -> WriterState]]
    BY <1>2, <2>1
  <2>3. [readers EXCEPT ![p] = @ \union {"peer"}] \in [Process -> SUBSET Link]
    BY <1>2, <2>1
  <2>4. QED  BY <1>2, <1>3, <2>2, <2>3
<1>5. Typed'
  <2>1. LinkTyped'
    BY <1>2, <1>3, <1>4 DEF LinkTyped
  <2>2. QED  BY <1>3, <2>1, TypesStay DEF IInv, Typed, joinVars, CountTyped
<1>6. readers'[host] = {} /\ peerLink'[host] = "none"
  BY <1>1, <1>2, <1>3, Serving
<1>7. \A q \in Process : peerLink'[q] = "ready" => peerLink[q] = "ready"
  BY <1>2, <1>3
<1>8. QuietTurn
  BY <1>1, <1>3, <1>5, <1>6, <1>7, Serving DEF QuietTurn, roomVars, doorVars
<1>9. QED  BY <1>8, QuietTurnKeeps

LEMMA HostPeerLinkReadyKeeps ==
  ASSUME IInv, NEW p \in Process, HostPeerLinkReady(p)
  PROVE  IInv'
<1> DEFINE sends == Sends(Nothing, [q \in Process |->
                           IF q = p /\ p \in peers THEN pending[p] ELSE 0])
<1>1. HostServes /\ p # host /\ peerLink[p] = "opened"
  BY Serving DEF HostPeerLinkReady
<1>2. CASE HostFails
  BY <1>1, <1>2, HostIsOverKeeps DEF HostFails
<1>3. CASE /\ peerLink' = [peerLink EXCEPT ![p] = IF p \in peers THEN "ready" ELSE "none"]
           /\ writer' = IF p \in peers THEN Sent(sends)
                        ELSE [writer EXCEPT ![p]["peer"] = "closed"]
           /\ pending' = Flushed(p)
           /\ UNCHANGED <<procVars, joinVars, entered, members, peers, view, conn, readers,
                          doorVars, faults>>
  <2>1. /\ peerLink \in [Process -> {"none", "opening", "opened", "ready"}]
        /\ writer \in [Process -> [Link -> WriterState]] /\ pending \in [Process -> Nat]
    BY DEF IInv, Typed, LinkTyped, RoomTyped
  <2>2. /\ pending' = [pending EXCEPT ![p] = 0]
        /\ pending' \in [Process -> Nat]
    BY <1>3, <2>1 DEF Flushed
  <2>3. peerLink' \in [Process -> {"none", "opening", "opened", "ready"}]
    BY <1>3, <2>1
  <2>4. writer' \in [Process -> [Link -> WriterState]]
    <3>1. CASE p \in peers
      <4> HIDE DEF sends
      <4>1. writer' = Sent(sends)
        BY <1>3, <3>1
      <4>2. QED  BY <2>1, <4>1, GivenTyped DEF Sent
    <3>2. CASE p \notin peers
      <4>1. "peer" \in Link /\ "closed" \in WriterState
        BY DEF Link, WriterState
      <4>2. [writer EXCEPT ![p]["peer"] = "closed"] \in [Process -> [Link -> WriterState]]
        BY <2>1, <4>1
      <4>3. QED  BY <1>3, <3>2, <4>2
    <3>3. QED  BY <3>1, <3>2
  <2>5. Typed'
    <3>1. LinkTyped' /\ RoomTyped'
      BY <1>3, <2>2, <2>3, <2>4 DEF IInv, Typed, LinkTyped, RoomTyped
    <3>2. QED  BY <1>3, <3>1, TypesStay DEF IInv, Typed, joinVars, CountTyped
  <2>6. \A q \in Process : pending'[q] > 0 => q \in peers /\ peerLink'[q] # "ready"
    <3>1. \A q \in Process \ {p} : pending'[q] = pending[q] /\ peerLink'[q] = peerLink[q]
      BY <1>3, <2>1, <2>2
    <3>2. pending'[p] = 0
      BY <2>1, <2>2
    <3>3. QED  BY <1>1, <3>1, <3>2, Serving
  <2>7. peerLink'[host] = "none"
    BY <1>1, <1>3, <2>1, Serving
  <2>8. QuietTurn
    BY <1>1, <1>3, <2>5, <2>6, <2>7, Serving DEF QuietTurn, doorVars
  <2>9. QED  BY <2>8, QuietTurnKeeps
<1>4. QED  BY <1>2, <1>3 DEF HostPeerLinkReady

\* A turn of which the others hear something, and that is all.
LEMMA TellingKeeps ==
  ASSUME IInv, HostServes, NEW heard \in SUBSET Process, pending' = Kept(heard),
         writer' \in [Process -> [Link -> WriterState]], ClientTyped', CountTyped',
         UNCHANGED <<procVars, entered, members, peers, view, peerLink, conn, readers, doorVars>>
  PROVE  IInv'
<1>1. /\ pending' \in [Process -> Nat]
      /\ \A p \in Process : pending'[p] > 0 => p \in peers /\ peerLink'[p] # "ready"
  <2>1. Typed /\ Kin
    BY DEF IInv
  <2>2. QED  BY <2>1, KeptTyped
<1>2. Typed'
  <2>1. LinkTyped' /\ RoomTyped'
    BY <1>1 DEF IInv, Typed, LinkTyped, RoomTyped
  <2>2. QED  BY <2>1, TypesStay DEF IInv, Typed
<1>3. QuietTurn
  BY <1>1, <1>2, Serving DEF QuietTurn, doorVars
<1>4. QED  BY <1>3, QuietTurnKeeps

LEMMA HandledTyped ==
  ASSUME IInv, NEW p \in Process, Handled(p), outbox[p] # <<>>,
         UNCHANGED <<inputClosed, peerClosed, welcome>>
  PROVE  ClientTyped'
<1>1. outbox \in [Process -> Seq(Word)] /\ outbox' = [outbox EXCEPT ![p] = Tail(@)]
  BY DEF IInv, Typed, ClientTyped, Handled
<1>2. Tail(outbox[p]) \in Seq(Word)
  BY <1>1
<1>3. outbox' \in [Process -> Seq(Word)]
  BY <1>1, <1>2
<1>4. QED  BY <1>3 DEF IInv, Typed, ClientTyped

LEMMA ReachedKnown ==
  ASSUME NEW r \in SUBSET Process
  PROVE  \A told \in Reached(r) : told \in SUBSET Process
BY DEF Reached

LEMMA HostPeerCommandKeeps ==
  ASSUME IInv, NEW p \in Process, HostPeerCommand(p)
  PROVE  IInv'
<1>1. HostServes /\ outbox[p] # <<>>
  BY DEF HostPeerCommand, Takes
<1>2. CASE HostFails
  BY <1>1, <1>2, HostIsOverKeeps DEF HostFails
<1>3. CASE \E accepted \in BOOLEAN, told \in Reached(members \ {p}) :
             LET heard == IF accepted THEN told ELSE {}
                 failed == ~accepted \/ told # members \ {p}
                 sends == Sends([q \in Process |-> IF q = p /\ failed THEN 1 ELSE 0],
                                [q \in Process |-> EventsTo(heard, q)])
             IN  /\ writer' = Sent(sends)
                 /\ pending' = Kept(heard)
                 /\ Handled(p)
                 /\ UNCHANGED <<procVars, inputClosed, peerClosed, welcome,
                                commands, entered, members, peers, view,
                                peerLink, conn, readers, doorVars, faults>>
  <2>1. PICK accepted \in BOOLEAN, told \in Reached(members \ {p}) :
             LET heard == IF accepted THEN told ELSE {}
                 failed == ~accepted \/ told # members \ {p}
                 sends == Sends([q \in Process |-> IF q = p /\ failed THEN 1 ELSE 0],
                                [q \in Process |-> EventsTo(heard, q)])
             IN  /\ writer' = Sent(sends)
                 /\ pending' = Kept(heard)
                 /\ Handled(p)
                 /\ UNCHANGED <<procVars, inputClosed, peerClosed, welcome,
                                commands, entered, members, peers, view,
                                peerLink, conn, readers, doorVars, faults>>
    BY <1>3
  <2> DEFINE heard == IF accepted THEN told ELSE {}
             failed == ~accepted \/ told # members \ {p}
             sends == Sends([q \in Process |-> IF q = p /\ failed THEN 1 ELSE 0],
                            [q \in Process |-> EventsTo(heard, q)])
  <2>2. /\ writer' = Sent(sends) /\ pending' = Kept(heard) /\ Handled(p)
        /\ UNCHANGED <<procVars, inputClosed, peerClosed, welcome, commands, entered, members,
                       peers, view, peerLink, conn, readers, doorVars, faults>>
    BY <2>1
  <2>3. heard \in SUBSET Process
    <3>1. members \ {p} \in SUBSET Process
      BY DEF IInv, Typed, RoomTyped
    <3>2. QED  BY <3>1, ReachedKnown
  <2> HIDE DEF heard, failed, sends
  <2>4. writer' \in [Process -> [Link -> WriterState]]
    <3>1. writer \in [Process -> [Link -> WriterState]]
      BY DEF IInv, Typed, LinkTyped
    <3>2. QED  BY <2>2, <3>1, GivenTyped DEF Sent
  <2>5. ClientTyped' /\ CountTyped'
    BY <1>1, <2>2, HandledTyped DEF IInv, Typed, CountTyped
  <2>6. QED  BY <1>1, <2>2, <2>3, <2>4, <2>5, TellingKeeps
<1>4. QED  BY <1>2, <1>3 DEF HostPeerCommand

LEMMA HostLocalCommandKeeps ==
  ASSUME IInv, HostLocalCommand
  PROVE  IInv'
<1>1. /\ HostServes /\ commands < MaxCommands /\ commands' = commands + 1
      /\ UNCHANGED <<procVars, inputClosed, peerClosed, outbox, welcome, entered, members, peers,
                     view, peerLink, conn, readers, doorVars, faults>>
  BY DEF HostLocalCommand
<1>2. PICK heard \in Reached(members \ {host}) :
        /\ writer' = Sent(Sends(Nothing, [q \in Process |-> EventsTo(heard, q)]))
        /\ pending' = Kept(heard)
  BY DEF HostLocalCommand
<1>3. heard \in SUBSET Process
  <2>1. members \ {host} \in SUBSET Process
    BY DEF IInv, Typed, RoomTyped
  <2>2. QED  BY <2>1, ReachedKnown
<1>4. writer' \in [Process -> [Link -> WriterState]]
  <2> DEFINE sends == Sends(Nothing, [q \in Process |-> EventsTo(heard, q)])
  <2>1. writer' = Sent(sends)
    BY <1>2
  <2> HIDE DEF sends
  <2>2. writer \in [Process -> [Link -> WriterState]]
    BY DEF IInv, Typed, LinkTyped
  <2>3. QED  BY <2>1, <2>2, GivenTyped DEF Sent
<1>5. ClientTyped' /\ CountTyped'
  BY <1>1, Distinct DEF IInv, Typed, ClientTyped, CountTyped
<1>6. QED  BY <1>1, <1>2, <1>3, <1>4, <1>5, TellingKeeps

LEMMA HostDropsCommandKeeps ==
  ASSUME IInv, NEW p \in Process, HostDropsCommand(p)
  PROVE  IInv'
<1>1. HostServes /\ outbox[p] # <<>> /\ Handled(p)
  BY DEF HostDropsCommand, Takes
<1>2. UNCHANGED <<procVars, inputClosed, peerClosed, welcome, commands, roomVars, linkVars,
                  doorVars, faults>>
  BY DEF HostDropsCommand
<1>3. Typed'
  BY <1>1, <1>2, HandledTyped, TypesStay DEF IInv, Typed
<1>4. QuietTurn
  BY <1>1, <1>2, <1>3, Serving DEF QuietTurn, roomVars, linkVars, doorVars
<1>5. QED  BY <1>4, QuietTurnKeeps

LEMMA HostInputClosesKeeps ==
  ASSUME IInv, HostInputCloses
  PROVE  IInv'
<1>1. /\ HostServes /\ inputClosed' = [inputClosed EXCEPT ![host] = TRUE]
      /\ UNCHANGED <<procVars, peerClosed, outbox, welcome, commands, roomVars, linkVars,
                     doorVars, faults>>
  BY DEF HostInputCloses
<1>2. Typed'
  <2>1. ClientTyped'
    BY <1>1 DEF IInv, Typed, ClientTyped
  <2>2. QED  BY <1>1, <2>1, TypesStay DEF IInv, Typed
<1>3. QuietTurn
  BY <1>1, <1>2, Serving DEF QuietTurn, roomVars, linkVars, doorVars
<1>4. QED  BY <1>3, QuietTurnKeeps

LEMMA WriterFailsKeeps ==
  ASSUME IInv, NEW p \in Process, NEW l \in Link, WriterFails(p, l)
  PROVE  IInv'
<1>1. /\ HostServes /\ writer' = [writer EXCEPT ![p][l] = "dead"]
      /\ UNCHANGED <<procVars, joinVars, roomVars, peerLink, conn, readers, doorVars, faults>>
  BY DEF WriterFails
<1>2. Typed'
  <2>1. writer' \in [Process -> [Link -> WriterState]]
    <3>1. writer \in [Process -> [Link -> WriterState]] /\ "dead" \in WriterState
      BY DEF IInv, Typed, LinkTyped, WriterState
    <3>2. QED  BY <1>1, <3>1
  <2>2. LinkTyped'
    BY <1>1, <2>1 DEF IInv, Typed, LinkTyped
  <2>3. QED  BY <1>1, <2>2, TypesStay DEF IInv, Typed, joinVars, CountTyped
<1>3. QuietTurn
  BY <1>1, <1>2, Serving DEF QuietTurn, roomVars, doorVars
<1>4. QED  BY <1>3, QuietTurnKeeps

LEMMA ConnectionIsLostKeeps ==
  ASSUME IInv, NEW p \in Process, ConnectionIsLost(p)
  PROVE  IInv'
<1>1. /\ HostServes /\ conn' = [conn EXCEPT ![p] = "lost"]
      /\ faults' = faults \/ (faults < MaxFaults /\ faults' = faults + 1)
      /\ UNCHANGED <<procVars, joinVars, roomVars, peerLink, readers, doorVars>>
  BY DEF ConnectionIsLost
<1>2. PICK caught \in SUBSET {l \in Link : writer[p][l] = "used"} :
        writer' = [writer EXCEPT ![p] = [l \in Link |-> IF l \in caught THEN "busy" ELSE @[l]]]
  BY DEF ConnectionIsLost
<1>3. Typed'
  <2>1. writer' \in [Process -> [Link -> WriterState]]
    <3>1. writer \in [Process -> [Link -> WriterState]] /\ "busy" \in WriterState
      BY DEF IInv, Typed, LinkTyped, WriterState
    <3>2. [l \in Link |-> IF l \in caught THEN "busy" ELSE writer[p][l]]
            \in [Link -> WriterState]
      BY <3>1
    <3>3. QED  BY <1>2, <3>1, <3>2
  <2>2. LinkTyped'
    BY <1>1, <2>1 DEF IInv, Typed, LinkTyped
  <2>3. CountTyped'
    BY <1>1, Distinct DEF IInv, Typed, CountTyped, joinVars
  <2>4. QED  BY <1>1, <2>2, <2>3, TypesStay DEF IInv, Typed
<1>4. QuietTurn
  BY <1>1, <1>3, Serving DEF QuietTurn, roomVars, doorVars
<1>5. QED  BY <1>4, QuietTurnKeeps

-----------------------------------------------------------------------------
(* Turns that change the roster.                                           *)

RosterTurn ==
  /\ HostServes /\ UNCHANGED <<stage, registered, host, accepting>>
  /\ Orderly'
  /\ host \notin arrived' /\ host \notin peers'
  /\ readers'[host] = {} /\ peerLink'[host] = "none"
  /\ members' = peers' \union {host} /\ \A q \in peers' : view'[q] = members'
  /\ Kin' /\ Typed'

LEMMA RosterTurnKeeps ==
  ASSUME IInv, RosterTurn
  PROVE  IInv'
<1>1. /\ stage' = stage /\ registered' = registered /\ host' = host /\ HostServes
      /\ accepting' = accepting
  BY DEF RosterTurn
<1>2. HostServes'
  BY <1>1 DEF HostServes
<1>3. OneHost'
  BY <1>1 DEF IInv, OneHost
<1>4. RoomNeedsHost' /\ RosterIsShared'
  BY <1>1, <1>2 DEF RoomNeedsHost, RosterIsShared, RosterTurn
<1>5. Apart'
  BY <1>1, <1>2, Serving DEF Apart, RosterTurn
<1>6. QED  BY <1>3, <1>4, <1>5 DEF RosterTurn, IInv

LEMMA HostPeerConnectedKeeps ==
  ASSUME IInv, NEW p \in Process, HostPeerConnected(p)
  PROVE  IInv'
<1>1. /\ HostServes /\ p \in arrived /\ p # host /\ host \in Process
      /\ stage[host] = "hosting"
  BY Serving DEF HostPeerConnected
<1>2. CASE HostFails
  BY <1>1, <1>2, HostIsOverKeeps DEF HostFails
<1>3. CASE /\ session' = [session EXCEPT ![host] = SessionOnJoin]
           /\ entered' = TRUE
           /\ members' = members \union {p} /\ peers' = peers \union {p}
           /\ view' = [q \in Process |->
                 IF q \in peers' THEN view[q] \union (IF q = p THEN members' ELSE {p})
                 ELSE view[q]]
           /\ pending' = Kept(members)
           /\ writer' = Sent(JoinSends(p))
           /\ readers' = [readers EXCEPT ![p] = {"authority"}]
           /\ peerLink' = [peerLink EXCEPT ![p] = "opening"]
           /\ welcome' = [welcome EXCEPT ![p] = TRUE]
           /\ arrived' = arrived \ {p}
           /\ UNCHANGED <<stage, registered, target, inputClosed, peerClosed, outbox, commands,
                          conn, host, accepting, faults>>
  <2>1. /\ peerLink \in [Process -> {"none", "opening", "opened", "ready"}]
        /\ writer \in [Process -> [Link -> WriterState]] /\ readers \in [Process -> SUBSET Link]
        /\ members \subseteq Process /\ peers \subseteq Process
        /\ view \in [Process -> SUBSET Process]
        /\ session \in [Process -> SessionState \union {"Refused"}]
        /\ entered \in BOOLEAN
    BY DEF IInv, Typed, LinkTyped, RoomTyped, ProcTyped
  <2>2. session' = [session EXCEPT ![host] = "Machine"]
    <3>1. /\ entered => session[host] = "Machine"
          /\ ~entered => session[host] = "Connecting"
      BY <1>1 DEF IInv, Orderly, Recorded
    <3>2. CASE entered
      BY <1>3, <3>1, <3>2 DEF SessionOnJoin
    <3>3. CASE ~entered
      <4>1. SessionOnJoin = "Machine"
        BY <3>1, <3>3 DEF SessionOnJoin, Transitions, Transition
      <4>2. QED  BY <1>3, <4>1
    <3>4. QED  BY <3>2, <3>3
  <2>3. Orderly'
    <3>1. ASSUME NEW q \in Process \ {host} PROVE session'[q] # "Refused" /\ Recorded(q)'
      <4>1. stage[q] # "hosting" /\ session'[q] = session[q] /\ stage' = stage
        BY <1>3, <2>1, <2>2 DEF IInv, OneHost
      <4>2. QED  BY <4>1 DEF IInv, Orderly, Recorded
    <3>2. ASSUME NEW q \in Process, q = host PROVE session'[q] # "Refused" /\ Recorded(q)'
      BY <1>1, <1>3, <2>1, <2>2, <3>2 DEF Recorded
    <3>3. QED  BY <3>1, <3>2 DEF Orderly
  <2>4. view' \in [Process -> SUBSET Process]
    <3>1. ASSUME NEW q \in Process
          PROVE  (IF q \in peers' THEN view[q] \union (IF q = p THEN members' ELSE {p})
                  ELSE view[q]) \in SUBSET Process
      BY <1>3, <2>1
    <3>2. QED  BY <1>3, <3>1
  <2>5. /\ pending' \in [Process -> Nat]
        /\ \A q \in Process : pending'[q] > 0 => q \in peers /\ peerLink[q] # "ready"
    <3>1. Typed /\ Kin /\ members \in SUBSET Process
      BY <2>1 DEF IInv
    <3>2. QED  BY <1>3, <3>1, KeptTyped
  <2>6. Typed'
    <3>1. ProcTyped'
      BY <1>3, <2>2 DEF IInv, Typed, ProcTyped, SessionState
    <3>2. ClientTyped'
      BY <1>3 DEF IInv, Typed, ClientTyped
    <3>3. RoomTyped'
      BY <1>3, <2>1, <2>4, <2>5 DEF RoomTyped
    <3>4. LinkTyped'
      <4>1. writer' \in [Process -> [Link -> WriterState]]
        BY <1>3, <2>1, GivenTyped DEF Sent
      <4>2. readers' \in [Process -> SUBSET Link]
        BY <1>3, <2>1 DEF Link
      <4>3. QED  BY <1>3, <2>1, <4>1, <4>2 DEF IInv, Typed, LinkTyped
    <3>5. DoorTyped' /\ CountTyped'
      BY <1>3 DEF IInv, Typed, DoorTyped, CountTyped
    <3>6. QED  BY <3>1, <3>2, <3>3, <3>4, <3>5 DEF Typed
  <2>7. \A q \in peers' : view'[q] = members'
    <3>1. ASSUME NEW q \in peers', q # p PROVE view'[q] = members'
      BY <1>1, <1>3, <2>1, <3>1, Serving
    <3>2. view'[p] = members'
      <4>1. view[p] \subseteq members
        BY <1>1, Serving DEF IInv, Kin
      <4>2. view'[p] = view[p] \union members'
        BY <1>3
      <4>3. QED  BY <1>3, <4>1, <4>2
    <3>3. QED  BY <3>1, <3>2
  <2>8. Kin'
    <3>1. ASSUME NEW q \in Process
          PROVE  /\ pending'[q] > 0 => q \in peers' /\ peerLink'[q] # "ready"
                 /\ q \notin peers' => view'[q] = {}
      <4>1. pending'[q] > 0 => q \in peers' /\ peerLink'[q] # "ready"
        BY <1>3, <2>1, <2>5
      <4>2. q \notin peers' => view'[q] = {}
        BY <1>3 DEF IInv, Kin
      <4>3. QED  BY <4>1, <4>2
    <3>2. QED  BY <3>1 DEF Kin
  <2>9. host \notin arrived' /\ host \notin peers' /\ readers'[host] = {}
        /\ peerLink'[host] = "none" /\ members' = peers' \union {host}
    BY <1>1, <1>3, <2>1, Serving
  <2>10. RosterTurn
    BY <1>1, <1>3, <2>3, <2>6, <2>7, <2>8, <2>9 DEF RosterTurn
  <2>11. QED  BY <2>10, RosterTurnKeeps
<1>4. QED  BY <1>2, <1>3 DEF HostPeerConnected

LEMMA WithoutTyped ==
  ASSUME NEW w \in [Process -> [Link -> WriterState]], NEW p \in Process
  PROVE  WritersWithout(w, p) \in [Process -> [Link -> WriterState]]
<1>1. [l \in Link |-> IF w[p][l] \in {"idle", "used", "busy"}
                          /\ ~(l = "peer" /\ peerLink[p] = "opened")
                      THEN "closed" ELSE w[p][l]] \in [Link -> WriterState]
  BY DEF WriterState
<1>2. QED  BY <1>1 DEF WritersWithout

\* A departure, however the host learns of it.
LEMMA RemovesKeeps ==
  ASSUME IInv, HostServes, NEW p \in Process, p # host, Removes(p),
         ClientTyped', CountTyped', readers' \in [Process -> SUBSET Link], readers'[host] = {},
         UNCHANGED <<procVars, entered, peerLink, conn, doorVars>>
  PROVE  IInv'
<1>1. /\ writer \in [Process -> [Link -> WriterState]] /\ pending \in [Process -> Nat]
      /\ members \subseteq Process /\ peers \subseteq Process
      /\ view \in [Process -> SUBSET Process] /\ entered \in BOOLEAN
  BY DEF IInv, Typed, LinkTyped, RoomTyped
<1>2. /\ stage' = stage /\ session' = session /\ registered' = registered
      /\ entered' = entered /\ host' = host /\ accepting' = accepting /\ arrived' = arrived
      /\ peerLink' = peerLink
  BY DEF procVars, doorVars
<1>3. /\ peers' = peers \ {p} /\ members' = members \ {p}
      /\ pending' \in [Process -> Nat] /\ view' \in [Process -> SUBSET Process]
      /\ writer' \in [Process -> [Link -> WriterState]]
      /\ view'[p] = {} /\ pending'[p] = 0
      /\ \A q \in peers \ {p} : view'[q] = view[q] \ {p}
      /\ \A q \in Process \ peers : view'[q] = {}
      /\ \A q \in Process \ {p} : pending'[q] > 0 => q \in peers /\ peerLink[q] # "ready"
  <2>1. CASE p \in members
    <3>1. /\ peers' = peers \ {p} /\ members' = members \ {p}
          /\ view' = [[q \in Process |-> IF q \in peers THEN view[q] \ {p} ELSE view[q]]
                         EXCEPT ![p] = {}]
          /\ pending' = [Kept(members \ {p}) EXCEPT ![p] = 0]
          /\ writer' = WritersWithout(Sent(LeaveSends(p)), p)
      BY <2>1 DEF Removes, RoomLeave
    <3>2. view' \in [Process -> SUBSET Process]
      <4>1. [q \in Process |-> IF q \in peers THEN view[q] \ {p} ELSE view[q]]
               \in [Process -> SUBSET Process]
        BY <1>1
      <4>2. QED  BY <3>1, <4>1
    <3>3. /\ view'[p] = {} /\ \A q \in peers \ {p} : view'[q] = view[q] \ {p}
          /\ \A q \in Process \ peers : view'[q] = {}
      BY <1>1, <3>1 DEF IInv, Kin
    <3>4. writer' \in [Process -> [Link -> WriterState]]
      <4>1. Sent(LeaveSends(p)) \in [Process -> [Link -> WriterState]]
        BY <1>1, GivenTyped DEF Sent
      <4>2. QED  BY <3>1, <4>1, WithoutTyped
    <3>5. /\ pending' \in [Process -> Nat] /\ pending'[p] = 0
          /\ \A q \in Process \ {p} : pending'[q] > 0 => q \in peers /\ peerLink[q] # "ready"
      <4> DEFINE k == Kept(members \ {p})
      <4>1. Typed /\ Kin /\ members \ {p} \in SUBSET Process
        BY <1>1 DEF IInv
      <4>2. /\ k \in [Process -> Nat]
            /\ \A q \in Process : k[q] > 0 => q \in peers /\ peerLink[q] # "ready"
        BY <4>1, KeptTyped
      <4>3. pending' = [k EXCEPT ![p] = 0]
        BY <3>1
      <4> HIDE DEF k
      <4>4. QED  BY <4>2, <4>3
    <3>6. QED  BY <3>1, <3>2, <3>3, <3>4, <3>5
  <2>2. CASE p \notin members
    <3>1. /\ peers' = peers \ {p} /\ members' = members /\ view' = view /\ pending' = pending
          /\ writer' = writer
      BY <2>2 DEF Removes
    <3>2. p \notin peers /\ pending[p] = 0 /\ view[p] = {}
      BY <1>1, <2>2, Serving DEF IInv, Kin
    <3>3. QED  BY <1>1, <2>2, <3>1, <3>2, Serving DEF IInv, Kin
  <2>3. QED  BY <2>1, <2>2
<1>4. Typed'
  <2>1. RoomTyped' /\ LinkTyped'
    BY <1>1, <1>2, <1>3 DEF IInv, Typed, RoomTyped, LinkTyped
  <2>2. QED  BY <2>1, TypesStay DEF IInv, Typed
<1>5. members' = peers' \union {host}
  BY <1>3, Serving
<1>6. \A q \in peers' : view'[q] = members'
  BY <1>3, Serving
<1>7. Kin'
  <2>1. ASSUME NEW q \in Process
        PROVE  /\ pending'[q] > 0 => q \in peers' /\ peerLink'[q] # "ready"
               /\ q \notin peers' => view'[q] = {}
    BY <1>2, <1>3
  <2>2. QED  BY <2>1 DEF Kin
<1>8. Orderly'
  BY <1>2 DEF IInv, Orderly, Recorded
<1>9. RosterTurn
  BY <1>2, <1>3, <1>4, <1>5, <1>6, <1>7, <1>8, Serving DEF RosterTurn
<1>10. QED  BY <1>9, RosterTurnKeeps

LEMMA HostPeerLeavesKeeps ==
  ASSUME IInv, NEW p \in Process, HostPeerLeaves(p)
  PROVE  IInv'
<1>1. HostServes /\ p # host /\ outbox[p] # <<>>
  BY Serving DEF HostPeerLeaves, Takes
<1>2. CASE HostFails
  BY <1>1, <1>2, HostIsOverKeeps DEF HostFails
<1>3. CASE /\ Removes(p) /\ Handled(p)
           /\ UNCHANGED <<procVars, inputClosed, peerClosed, welcome, commands,
                          entered, peerLink, conn, readers, doorVars, faults>>
  <2>1. ClientTyped' /\ CountTyped'
    BY <1>1, <1>3, HandledTyped DEF IInv, Typed, CountTyped
  <2>2. readers' \in [Process -> SUBSET Link] /\ readers'[host] = {}
    BY <1>1, <1>3, Serving DEF IInv, Typed, LinkTyped
  <2>3. QED  BY <1>1, <1>3, <2>1, <2>2, RemovesKeeps
<1>4. QED  BY <1>2, <1>3 DEF HostPeerLeaves

LEMMA HostPeerDisconnectedKeeps ==
  ASSUME IInv, NEW p \in Process, NEW l \in Link, HostPeerDisconnected(p, l)
  PROVE  IInv'
<1>1. HostServes /\ p # host
  BY Serving DEF HostPeerDisconnected
<1>2. CASE HostFails
  BY <1>1, <1>2, HostIsOverKeeps DEF HostFails
<1>3. CASE HostIsOver("ended")
  BY <1>1, <1>3, HostIsOverKeeps
<1>4. CASE /\ Removes(p)
           /\ readers' = [readers EXCEPT ![p] = @ \ {l}]
           /\ outbox' = [outbox EXCEPT ![p] = IF l = "authority" THEN <<>> ELSE @]
           /\ UNCHANGED <<procVars, inputClosed, peerClosed, welcome, commands,
                          entered, peerLink, conn, doorVars, faults>>
  <2>1. readers \in [Process -> SUBSET Link] /\ outbox \in [Process -> Seq(Word)]
    BY DEF IInv, Typed, LinkTyped, ClientTyped
  <2>2. readers' \in [Process -> SUBSET Link] /\ readers'[host] = {}
    BY <1>1, <1>4, <2>1, Serving
  <2>3. outbox' \in [Process -> Seq(Word)]
    <3>1. (IF l = "authority" THEN <<>> ELSE outbox[p]) \in Seq(Word)
      BY <2>1, EmptySeqTyped
    <3>2. QED  BY <1>4, <2>1, <3>1
  <2>4. ClientTyped' /\ CountTyped'
    BY <1>4, <2>3 DEF IInv, Typed, ClientTyped, CountTyped
  <2>5. QED  BY <1>1, <1>4, <2>2, <2>4, RemovesKeeps
<1>5. QED  BY <1>2, <1>3, <1>4 DEF HostPeerDisconnected

-----------------------------------------------------------------------------
(* Every step.                                                             *)

LEMMA StutterKeeps ==
  ASSUME IInv, UNCHANGED vars
  PROVE  IInv'
<1>1. /\ UNCHANGED <<procVars, joinVars, roomVars, linkVars, doorVars, faults>>
  BY DEF vars
<1>2. Typed'
  BY <1>1, TypesStay DEF IInv, Typed, joinVars, CountTyped
<1>3. HostServes' <=> HostServes
  BY <1>1 DEF HostServes, procVars, doorVars
<1>4. OneHost' /\ Orderly'
  <2>1. /\ stage' = stage /\ session' = session /\ registered' = registered /\ host' = host
        /\ entered' = entered
    BY <1>1 DEF procVars, doorVars, roomVars
  <2>2. QED  BY <2>1 DEF IInv, OneHost, Orderly, Recorded
<1>5. RoomNeedsHost' /\ Apart'
  BY <1>1, <1>3 DEF IInv, RoomNeedsHost, NoRoom, Apart, roomVars, linkVars, doorVars
<1>6. Kin' /\ RosterIsShared'
  BY <1>1, <1>3 DEF IInv, Kin, RosterIsShared, roomVars, linkVars, doorVars
<1>7. QED  BY <1>2, <1>4, <1>5, <1>6 DEF IInv

LEMMA StartingKeeps ==
  ASSUME IInv, NEW p \in Process, Starting(p)
  PROVE  IInv'
<1>1. CASE RunHost(p)
  BY <1>1, RunHostKeeps
<1>2. CASE JoinRegisters(p)
  BY <1>2, JoinRegistersKeeps
<1>3. CASE RunJoin(p) \/ JoinRetries(p) \/ Connects(p) \/ ExchangesHello(p)
  BY <1>3, OwnStepKeeps, RunJoinAlone, JoinRetriesAlone, ConnectsAlone, ExchangesHelloAlone
<1>4. CASE AcceptsConnection(p)
  BY <1>4, AcceptsConnectionKeeps
<1>5. CASE HandshakeEnds(p)
  BY <1>5, HandshakeEndsKeeps
<1>6. QED  BY <1>1, <1>2, <1>3, <1>4, <1>5 DEF Starting

LEMMA HostTurnKeeps ==
  ASSUME IInv, NEW p \in Process, HostTurn(p)
  PROVE  IInv'
<1>1. CASE HostPeerConnected(p)
  BY <1>1, HostPeerConnectedKeeps
<1>2. CASE HostOpensPeerLink(p) \/ HostPeerLinkReady(p)
  BY <1>2, HostOpensPeerLinkKeeps, HostPeerLinkReadyKeeps
<1>3. CASE HostPeerLeaves(p) \/ \E l \in Link : HostPeerDisconnected(p, l)
  BY <1>3, HostPeerLeavesKeeps, HostPeerDisconnectedKeeps
<1>4. CASE HostPeerCommand(p) \/ HostDropsCommand(p)
  BY <1>4, HostPeerCommandKeeps, HostDropsCommandKeeps
<1>5. QED  BY <1>1, <1>2, <1>3, <1>4 DEF HostTurn

LEMMA StepInvariant ==
  ASSUME IInv, [RuntimeNext]_vars
  PROVE  IInv'
<1>1. CASE UNCHANGED vars
  BY <1>1, StutterKeeps
<1>2. CASE HostClient
  <2>1. CASE HostLocalCommand \/ HostInputCloses
    BY <2>1, HostLocalCommandKeeps, HostInputClosesKeeps
  <2>2. CASE HostLeaves \/ HostIsInterrupted
    BY <2>2, HostIsOverKeeps DEF HostLeaves, HostIsInterrupted
  <2>3. QED  BY <1>2, <2>1, <2>2 DEF HostClient
<1>3. CASE HostCrashes
  BY <1>3, HostCrashesKeeps
<1>4. ASSUME NEW p \in Process, Starting(p) \/ HostTurn(p) PROVE IInv'
  BY <1>4, StartingKeeps, HostTurnKeeps
<1>5. ASSUME NEW p \in Process, Unregisters(p) \/ JoinStep(p) PROVE IInv'
  BY <1>5, UnregistersAlone, JoinStepAlone, OwnStepKeeps
<1>6. ASSUME NEW p \in Process, LinkStep(p) PROVE IInv'
  BY <1>6, WriterFailsKeeps, ConnectionIsLostKeeps DEF LinkStep
<1>7. QED  BY <1>1, <1>2, <1>3, <1>4, <1>5, <1>6 DEF RuntimeNext

LEMMA AlwaysInvariant == RuntimeSpec => []IInv
BY InitInvariant, StepInvariant, PTL DEF RuntimeSpec

-----------------------------------------------------------------------------
(* What follows.                                                           *)

\* Every part of the state has its type, and events are kept only for a peer
\* whose link is not there, so that none is sent twice (pending_events).
THEOREM RuntimeTypeCorrect == RuntimeSpec => []RuntimeTypeOK
<1>1. IInv => RuntimeTypeOK
  <2> SUFFICES ASSUME IInv PROVE RuntimeTypeOK
    OBVIOUS
  <2>1. ProcTyped /\ ClientTyped /\ CountTyped /\ RoomTyped /\ LinkTyped /\ DoorTyped /\ Kin
    BY DEF IInv, Typed
  <2>2. \A p \in Process : outbox[p] \in Seq({"leave", "command"})
    BY <2>1 DEF ClientTyped, Word
  <2>3. \A p \in Process : pending[p] > 0 => p \in peers /\ peerLink[p] # "ready"
    BY <2>1 DEF Kin
  <2>4. QED
    BY <2>1, <2>2, <2>3
       DEF RuntimeTypeOK, ProcTyped, ClientTyped, CountTyped, RoomTyped, LinkTyped, DoorTyped,
           WriterState
<1>2. QED  BY <1>1, AlwaysInvariant, PTL

\* Whatever joins, departures, broken links and failing writers the host's turns
\* meet, its members are itself and the peers it has a handle of, and what each of
\* them has been sent or will be amounts to exactly these (handle_host_peer_connected,
\* handle_host_peer_disconnected).
THEOREM RosterAlwaysShared == RuntimeSpec => []RosterIsShared
<1>1. IInv => RosterIsShared
  BY DEF IInv
<1>2. QED  BY <1>1, AlwaysInvariant, PTL

\* No process records a session event its state does not allow, whether it hosts,
\* joins, or joins and ends up hosting (SessionMachine::transition).
THEOREM SessionsAlwaysOrderly == RuntimeSpec => []SessionsAreOrderly
<1>1. IInv => SessionsAreOrderly
  BY DEF IInv, Orderly, SessionsAreOrderly
<1>2. QED  BY <1>1, AlwaysInvariant, PTL
===============================================================================
