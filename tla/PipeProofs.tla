------------------------------ MODULE PipeProofs ------------------------------
(***************************************************************************)
(* What the pipe guarantees for every number of members, length of the     *)
(* input, window, grant and chunk.                                         *)
(***************************************************************************)
EXTENDS Pipe, FiniteSetTheorems, SequenceTheorems, WellFoundedInduction, TLAPS

ChannelId == 0 .. MaxMemberIndex          \* and a route, and a member or Nobody
Outcome == {"absent", "running", "ok", "failed", "crashed"}

Msg == [type : {"welcome", "snapshot", "joined", "opened", "accepted", "closed", "error"},
        on : ChannelId, ms : SUBSET MemberId]
Asking == [type : {"open", "accept", "close"}, on : ChannelId, to : ChannelId]
Parting == [type : {"leave", "end"}]
Said == Asking \cup Parting

ChannelMap == UNION {[d -> SUBSET MemberId] : d \in SUBSET ChannelId}
HostState ==
  [members : SUBSET MemberId, next : 2 .. MaxMemberIndex + 1, channels : ChannelMap,
   peers : SUBSET Joiner, authority : [Joiner -> Seq(Msg)], failed : BOOLEAN]
SenderState ==
  [opened : BOOLEAN, targets : SUBSET MemberId, late : SUBSET MemberId,
   streams : SUBSET MemberId, known : SUBSET MemberId, welcomed : BOOLEAN]
GateState == [accepting : ChannelId, arrivals : Seq(ChannelId)]
TaskCommand == [type : {"add", "remove"}, of : MemberId]
Byte == 1 .. SourceLength
Receiver == [credit : Nat, active : BOOLEAN]
ReceiverMap == UNION {[d -> Receiver] : d \in SUBSET MemberId}
CastState ==
  [task : {"idle", "running", "finishing", "over"}, receivers : ReceiverMap,
   commands : Seq(TaskCommand), pos : 0 .. SourceLength, initial : SUBSET MemberId]
Flow ==
  [stage : {"none", "dialed", "answered", "open", "ended"}, wire : ByteSeq,
   fin : {"open", "finished", "lost"}, grants : Seq(Nat), pending : Nat, out : ByteSeq]

NewsOfOthers(j, q) ==
  \A i \in DOMAIN q : q[i].type = "joined" => Host \notin q[i].ms /\ j \notin q[i].ms

\* The engine's members are known to it, the host among them; whoever joins is
\* announced to others only.
HostTyped(h) ==
  /\ h \in HostState
  /\ Host \in h.members /\ h.peers \subseteq h.members
  /\ \A c \in DOMAIN h.channels : h.channels[c] \subseteq h.members
  /\ \A p \in h.peers : p < h.next
  /\ \A j \in Joiner : NewsOfOthers(j, h.authority[j])
SenderTyped ==
  /\ snd \in SenderState
  /\ snd.late \subseteq snd.targets /\ snd.streams \subseteq snd.targets
  /\ source \notin snd.targets
  /\ ~snd.opened => snd.targets = {} /\ ~Started
CastTyped ==
  /\ cast \in CastState
  /\ source \notin Receivers
  /\ \A i \in DOMAIN cast.commands : cast.commands[i].of # source
Typed ==
  /\ source \in Sources /\ old \subseteq MayBeOld /\ up \in BOOLEAN
  /\ proc \in [MemberId -> Outcome]
  /\ deaf \subseteq Joiner
  /\ toHost \in [Joiner -> Seq(Said)]
  /\ HostTyped(host) /\ SenderTyped /\ gate \in GateState /\ CastTyped
  /\ flow \in [MemberId -> Flow]

\* The host is offered the pipe once, by the source, and has not dialed before.
OffersHost(e) == e.type = "open" /\ e.to \in {ToAll, Host}
NoOffer(q) == \A i \in DOMAIN q : ~OffersHost(q[i])
OneOfferAtMost(q) == \A i, k \in DOMAIN q : OffersHost(q[i]) /\ OffersHost(q[k]) => i = k
OneOffer ==
  /\ \A j \in Joiner :
       /\ OneOfferAtMost(toHost[j])
       /\ j # source \/ ~snd.opened \/ flow[Host].stage # "none" => NoOffer(toHost[j])
  /\ flow[Host].stage # "none" => source # Host /\ snd.opened
  /\ flow[source].stage = "none"

Early(m) == flow[m].stage \in {"none", "dialed", "answered"}
Silent(m) == flow[m].out = <<>> /\ flow[m].wire = <<>>
NotIn(s, e) == \A i \in DOMAIN s : s[i] # e
OnceIn(s, e) == \A i, k \in DOMAIN s : s[i] = e /\ s[k] = e => i = k
Unserved(m) == m \notin Receivers /\ m \notin cast.initial /\ Silent(m)
NotAdded(m) == NotIn(cast.commands, Command("add", m))
NotArrived(m) == NotIn(gate.arrivals, m)
Coming(m) == Early(m) \/ gate.accepting = m \/ ~NotArrived(m)

\* A stream is on its way to the source's loop, waits there, is handed to the task
\* or is served: one after the other, and once.
HandedOver ==
  /\ \A m \in MemberId :
       /\ OnceIn(gate.arrivals, m) /\ OnceIn(cast.commands, Command("add", m))
       /\ Early(m) \/ gate.accepting = m => NotArrived(m)
       /\ Coming(m) => Unserved(m) /\ m \notin snd.streams /\ NotAdded(m)
       /\ ~NotAdded(m) => Unserved(m)
  /\ Started => snd.streams = {}
  /\ ~Started => /\ cast.commands = <<>> /\ Receivers = {} /\ cast.initial = {} /\ cast.pos = 0
                 /\ \A m \in MemberId : Silent(m)

\* What a receiver has granted and not yet had back: its first grant is the whole
\* window, and every later one replaces as many bytes that it has written out.
Credit(m) == IF m \in Receivers THEN cast.receivers[m].credit ELSE 0
Owed(n) == Grant * n
Balanced(grants, wire, pending, credit) ==
  \/ grants = <<Window>> /\ wire = <<>> /\ pending = 0 /\ credit = 0
  \/ /\ \A i \in DOMAIN grants : grants[i] = Grant
     /\ credit + Owed(Len(grants)) + Len(wire) + pending <= Window
Account(m) ==
  /\ Balanced(flow[m].grants, flow[m].wire, flow[m].pending, Credit(m))
  /\ flow[m].pending < Grant
  /\ Early(m) => flow[m].grants = <<>> /\ flow[m].pending = 0
Accounted == \A m \in MemberId : Account(m)

Unbroken(s) == \A i, k \in DOMAIN s : s[i] + k = s[k] + i
EndsAt(s, p) == s = <<>> \/ s[Len(s)] = p
Follows(m) ==
  m \in Receivers /\ Running(m) => /\ EndsAt(Stream(m), cast.pos)
                                   /\ m \in cast.initial /\ Stream(m) = <<>> => cast.pos = 0
Ordered(m) ==
  /\ Unbroken(Stream(m))
  /\ m \in cast.initial /\ Stream(m) # <<>> => Stream(m)[1] = 1
  /\ Follows(m)
InOrder == \A m \in MemberId : Ordered(m)

Complete(m) ==
  /\ EndsAt(Stream(m), SourceLength)
  /\ m \in cast.initial /\ Stream(m) = <<>> => SourceLength = 0
TaskEnding ==
  /\ cast.task \in {"running", "finishing"} => proc[source] \in {"running", "failed"}
  /\ cast.task = "finishing" => proc[source] = "failed" \/ cast.pos = SourceLength
Ended(m) ==
  /\ flow[m].fin = "finished" => cast.task \in {"finishing", "over"} /\ ~Early(m)
  /\ m # source /\ proc[m] = "ok" => flow[m].fin = "finished" /\ flow[m].wire = <<>>
  /\ flow[m].fin = "finished" /\ proc[m] \in {"running", "ok"} /\ proc[source] # "failed"
       => Complete(m)
Ending == TaskEnding /\ \A m \in MemberId : Ended(m)

-----------------------------------------------------------------------------
(* Lemmas about the operators.                                             *)

LEMMA LeastOfNats ==
  ASSUME NEW S, S \subseteq Nat, S # {}
  PROVE  Min(S) \in S /\ \A x \in S : Min(S) <= x
<1> DEFINE R == OpToRel(<, Nat)
<1>1. IsWellFoundedOn(R, Nat)
  BY NatLessThanWellFounded
<1> HIDE DEF R
<1>2. PICK x \in S : \A y \in S : ~ (<<y, x>> \in R)
  BY <1>1, WFMin
<1>3. ASSUME NEW y \in S
      PROVE  x <= y
  <2>1. x \in Nat /\ y \in Nat /\ <<y, x>> \notin R
    BY <1>2, <1>3
  <2>2. y < x => <<y, x>> \in R
    BY <2>1 DEF R, OpToRel
  <2>3. QED
    BY <2>1, <2>2
<1>4. QED
  BY <1>3 DEF Min

LEMMA Numbers ==
  /\ Host \in MemberId /\ MemberId \subseteq Nat \ {0} /\ Joiner \subseteq MemberId
  /\ MemberId \subseteq ChannelId /\ PipeId \in ChannelId /\ ToAll \in ChannelId
  /\ Joiner = 2 .. MaxMemberIndex /\ PipeId = 0 /\ ToAll = 0 /\ Nobody = 0 /\ Host = 1
  /\ MaxMemberIndex \in Nat \ {0, 1} /\ SourceLength \in Nat /\ Window \in Nat \ {0}
  /\ Grant \in 1 .. Window /\ Chunk \in Nat \ {0} /\ Sources \subseteq MemberId
BY PipeAssumption DEF Host, MemberId, Joiner, ChannelId, PipeId, ToAll, Nobody

LEMMA HeadAndTail ==
  ASSUME NEW S, NEW s \in Seq(S), s # <<>>
  PROVE  /\ Head(s) \in S /\ Head(s) = s[1] /\ 1 \in DOMAIN s
         /\ Tail(s) \in Seq(S) /\ Len(s) \in Nat \ {0} /\ Len(Tail(s)) = Len(s) - 1
         /\ \A i \in DOMAIN Tail(s) : Tail(s)[i] = s[i + 1] /\ i + 1 \in DOMAIN s /\ i \in DOMAIN s
OBVIOUS

LEMMA OneMore ==
  ASSUME NEW S, NEW s \in Seq(S), NEW x \in S, NEW t, t = Append(s, x)
  PROVE  /\ t \in Seq(S) /\ Len(t) = Len(s) + 1 /\ t[Len(s) + 1] = x /\ Len(s) \in Nat
         /\ \A i \in DOMAIN t : i = Len(s) + 1 \/ (i \in DOMAIN s /\ t[i] = s[i])
         /\ \A i \in DOMAIN s : i \in DOMAIN t /\ t[i] = s[i] /\ i \in 1 .. Len(s)
OBVIOUS

LEMMA ChannelMaps ==
  ASSUME NEW f
  PROVE  f \in ChannelMap <=> /\ f = [c \in DOMAIN f |-> f[c]]
                              /\ DOMAIN f \subseteq ChannelId
                              /\ \A c \in DOMAIN f : f[c] \subseteq MemberId
<1>1. ASSUME f \in ChannelMap
      PROVE  /\ f = [c \in DOMAIN f |-> f[c]]
             /\ DOMAIN f \subseteq ChannelId
             /\ \A c \in DOMAIN f : f[c] \subseteq MemberId
  <2>1. PICK d \in SUBSET ChannelId : f \in [d -> SUBSET MemberId]
    BY <1>1 DEF ChannelMap
  <2>2. QED  BY <2>1
<1>2. ASSUME f = [c \in DOMAIN f |-> f[c]], DOMAIN f \subseteq ChannelId,
             \A c \in DOMAIN f : f[c] \subseteq MemberId
      PROVE  f \in ChannelMap
  <2>1. f \in [DOMAIN f -> SUBSET MemberId]
    BY <1>2
  <2>2. QED  BY <1>2, <2>1 DEF ChannelMap
<1>3. QED  BY <1>1, <1>2

LEMMA ReceiverMaps ==
  ASSUME NEW f
  PROVE  f \in ReceiverMap <=> /\ f = [m \in DOMAIN f |-> f[m]]
                               /\ DOMAIN f \subseteq MemberId
                               /\ \A m \in DOMAIN f : f[m] \in Receiver
<1>1. ASSUME f \in ReceiverMap
      PROVE  /\ f = [m \in DOMAIN f |-> f[m]]
             /\ DOMAIN f \subseteq MemberId
             /\ \A m \in DOMAIN f : f[m] \in Receiver
  <2>1. PICK d \in SUBSET MemberId : f \in [d -> Receiver]
    BY <1>1 DEF ReceiverMap
  <2>2. QED  BY <2>1
<1>2. ASSUME f = [m \in DOMAIN f |-> f[m]], DOMAIN f \subseteq MemberId,
             \A m \in DOMAIN f : f[m] \in Receiver
      PROVE  f \in ReceiverMap
  <2>1. f \in [DOMAIN f -> Receiver]
    BY <1>2
  <2>2. QED  BY <1>2, <2>1 DEF ReceiverMap
<1>3. QED  BY <1>1, <1>2

\* The host after a change of one of its parts.
LEMMA HostChannels ==
  ASSUME NEW h, HostTyped(h), NEW ch \in ChannelMap,
         \A c \in DOMAIN ch : ch[c] \subseteq h.members,
         NEW g, g = [h EXCEPT !.channels = ch]
  PROVE  /\ HostTyped(g) /\ g.channels = ch /\ g.members = h.members /\ g.peers = h.peers
         /\ g.next = h.next /\ g.authority = h.authority /\ g.failed = h.failed
BY DEF HostTyped, HostState

LEMMA HostFails ==
  ASSUME NEW h, HostTyped(h), NEW g, g = [h EXCEPT !.failed = TRUE]
  PROVE  /\ HostTyped(g) /\ g.channels = h.channels /\ g.members = h.members
         /\ g.peers = h.peers /\ g.next = h.next /\ g.authority = h.authority /\ g.failed = TRUE
BY DEF HostTyped, HostState

LEMMA HostTells ==
  ASSUME NEW h, HostTyped(h), NEW a \in [Joiner -> Seq(Msg)],
         \A j \in Joiner : NewsOfOthers(j, a[j]),
         NEW g, g = [h EXCEPT !.authority = a]
  PROVE  /\ HostTyped(g) /\ g.channels = h.channels /\ g.members = h.members
         /\ g.peers = h.peers /\ g.next = h.next /\ g.authority = a /\ g.failed = h.failed
BY DEF HostTyped, HostState

LEMMA OneMoreNews ==
  ASSUME NEW j, NEW q \in Seq(Msg), NewsOfOthers(j, q), NEW msg \in Msg,
         msg.type = "joined" => Host \notin msg.ms /\ j \notin msg.ms,
         NEW p, p = Append(q, msg)
  PROVE  p \in Seq(Msg) /\ NewsOfOthers(j, p)
<1>1. p \in Seq(Msg) /\ DOMAIN p = 1 .. Len(q) + 1 /\ DOMAIN q = 1 .. Len(q)
  BY DEF Msg
<1>2. \A i \in DOMAIN p : p[i] = msg \/ (i \in DOMAIN q /\ p[i] = q[i])
  BY <1>1
<1>3. QED  BY <1>1, <1>2 DEF NewsOfOthers

LEMMA TellTyped ==
  ASSUME NEW h, HostTyped(h), NEW to, NEW msg \in Msg,
         msg.type = "joined" =>
           Host \notin msg.ms /\ \A j \in to \cap h.peers : j \notin msg.ms,
         NEW g, g = Tell(h, to, msg)
  PROVE  /\ HostTyped(g) /\ g.channels = h.channels /\ g.members = h.members
         /\ g.peers = h.peers /\ g.next = h.next
<1> DEFINE a == [j \in Joiner |-> IF j \in to \cap h.peers THEN Append(h.authority[j], msg)
                                  ELSE h.authority[j]]
<1>1. CASE to \cap h.peers \cap deaf # {}
  BY <1>1, HostFails DEF Tell
<1>2. CASE ~ (to \cap h.peers \cap deaf # {})
  <2>1. ASSUME NEW j \in Joiner
        PROVE  a[j] \in Seq(Msg) /\ NewsOfOthers(j, a[j])
    <3>1. h.authority[j] \in Seq(Msg) /\ NewsOfOthers(j, h.authority[j])
      BY DEF HostTyped, HostState
    <3>2. CASE j \in to \cap h.peers
      BY <3>1, <3>2, OneMoreNews
    <3>3. CASE j \notin to \cap h.peers
      BY <3>1, <3>3
    <3>4. QED  BY <3>2, <3>3
  <2>2. a \in [Joiner -> Seq(Msg)]
    BY <2>1
  <2>3. h.authority \in [Joiner -> Seq(Msg)]
    BY DEF HostTyped, HostState
  <2>4. g = [h EXCEPT !.authority = a]
    BY <1>2, <2>3 DEF Tell
  <2> HIDE DEF a
  <2>5. QED  BY <2>1, <2>2, <2>4, HostTells
<1>3. QED  BY <1>1, <1>2

\* A channel map with one channel changed or taken away, or with all cut down.
PutChannel(ch, c, ms) == [d \in DOMAIN ch \cup {c} |-> IF d = c THEN ms ELSE ch[d]]

LEMMA ChannelPut ==
  ASSUME NEW ch \in ChannelMap, NEW c \in ChannelId, NEW ms \in SUBSET MemberId,
         NEW g, g = PutChannel(ch, c, ms)
  PROVE  g \in ChannelMap /\ g[c] = ms /\ \A d \in DOMAIN g : d = c \/ (d \in DOMAIN ch /\ g[d] = ch[d])
BY ChannelMaps DEF PutChannel

LEMMA LeftTyped ==
  ASSUME NEW h, HostTyped(h), NEW m \in Joiner, NEW g, g = Left(h, m)
  PROVE  /\ HostTyped([g EXCEPT !.peers = @ \ {m}])
         /\ g.authority = h.authority
<1> DEFINE ch == [c \in {d \in DOMAIN h.channels : Cardinality(h.channels[d] \ {m}) > 1}
                    |-> h.channels[c] \ {m}]
<1>1. /\ h \in HostState /\ h.channels \in ChannelMap /\ h.members \subseteq MemberId
      /\ \A c \in DOMAIN h.channels : h.channels[c] \subseteq h.members
      /\ m # Host
  BY DEF HostTyped, HostState, Joiner
<1>2. ch \in ChannelMap /\ \A c \in DOMAIN ch : ch[c] \subseteq h.members \ {m}
  <2>1. \A c \in DOMAIN ch : ch[c] = h.channels[c] \ {m} /\ c \in DOMAIN h.channels
    OBVIOUS
  <2>2. /\ DOMAIN h.channels \subseteq ChannelId
        /\ \A c \in DOMAIN h.channels : h.channels[c] \subseteq MemberId
    BY <1>1, ChannelMaps
  <2>3. ch = [c \in DOMAIN ch |-> ch[c]]
    OBVIOUS
  <2> HIDE DEF ch
  <2>4. QED  BY <1>1, <2>1, <2>2, <2>3, ChannelMaps
<1>3. CASE m \notin h.members
  BY <1>1, <1>3 DEF Left, HostTyped, HostState
<1>4. CASE m \in h.members
  <2>1. g = [h EXCEPT !.members = @ \ {m}, !.channels = ch]
    BY <1>1, <1>4 DEF Left, HostState
  <2> HIDE DEF ch
  <2>2. [g EXCEPT !.peers = @ \ {m}]
          = [h EXCEPT !.members = @ \ {m}, !.channels = ch, !.peers = @ \ {m}]
    BY <1>1, <2>1 DEF HostState
  <2>3. g.authority = h.authority
    BY <1>1, <2>1 DEF HostState
  <2> DEFINE k == [h EXCEPT !.members = @ \ {m}, !.channels = ch, !.peers = @ \ {m}]
  <2>4. /\ k \in HostState
        /\ k.members = h.members \ {m} /\ k.channels = ch /\ k.peers = h.peers \ {m}
        /\ k.authority = h.authority /\ k.next = h.next
    BY <1>1, <1>2 DEF HostState
  <2> HIDE DEF k
  <2>5. HostTyped(k)
    BY <1>1, <1>2, <2>4 DEF HostTyped
  <2>6. QED  BY <2>2, <2>3, <2>5 DEF k
<1>5. QED  BY <1>3, <1>4

LEMMA OpenedTyped ==
  ASSUME NEW h, HostTyped(h), NEW from \in MemberId, NEW c \in ChannelId,
         NEW to \in ChannelId, to = ToAll \/ to \in h.members,
         NEW g, g = Opened(h, from, c, to)
  PROVE  /\ HostTyped(g)
         /\ HostIsOffered(g, c) => Host = from \/ to \in {ToAll, Host}
<1> DEFINE audience == {from} \cup (IF to = ToAll THEN h.members ELSE {to})
           ch == [d \in DOMAIN h.channels \cup {c} |->
                    IF d = c THEN audience ELSE h.channels[d]]
           asked == [h EXCEPT !.channels = ch]
           msg == Message("opened", c, {from})
<1>1. h.channels \in ChannelMap /\ h.members \subseteq MemberId
      /\ \A d \in DOMAIN h.channels : h.channels[d] \subseteq h.members
  BY DEF HostTyped, HostState
<1>2. /\ from \in h.members => audience \subseteq h.members
      /\ Host \in audience => Host = from \/ to \in {ToAll, Host}
  OBVIOUS
<1>3. CASE from \notin h.members \/ c \in DOMAIN h.channels
  <2>1. g = [h EXCEPT !.failed = TRUE]
    BY <1>3 DEF Opened
  <2>2. QED  BY <2>1, HostFails DEF HostIsOffered
<1>4. CASE from \in h.members /\ c \notin DOMAIN h.channels
  <2>1. g = Tell(asked, audience \ {from}, msg)
    <3>1. asked = [h EXCEPT !.channels = [d \in DOMAIN @ \cup {c} |->
                                            IF d = c THEN audience ELSE @[d]]]
      BY DEF HostTyped, HostState
    <3>2. QED  BY <1>4, <3>1 DEF Opened
  <2>2. msg \in Msg /\ msg.type = "opened"
    BY <1>1 DEF Message, Msg
  <2> HIDE DEF audience, msg
  <2>3. ch \in ChannelMap /\ ch[c] = audience
        /\ \A d \in DOMAIN ch : d = c \/ (d \in DOMAIN h.channels /\ ch[d] = h.channels[d])
    <3> HIDE DEF asked
    <3>1. audience \in SUBSET MemberId
      BY <1>1, <1>2, <1>4
    <3>2. ch = PutChannel(h.channels, c, audience)
      BY DEF PutChannel
    <3> HIDE DEF ch
    <3>3. QED  BY <1>1, <3>1, <3>2, ChannelPut
  <2> HIDE DEF ch
  <2>4. \A d \in DOMAIN ch : ch[d] \subseteq h.members
    BY <1>1, <1>2, <1>4, <2>3
  <2>5. HostTyped(asked) /\ asked.channels = ch
    <3>1. asked = [h EXCEPT !.channels = ch]
      OBVIOUS
    <3> HIDE DEF asked
    <3>2. QED  BY <2>3, <2>4, <3>1, HostChannels
  <2> HIDE DEF asked
  <2>6. HostTyped(g) /\ g.channels = ch
    BY <2>1, <2>2, <2>5, TellTyped
  <2>7. QED  BY <1>2, <2>3, <2>6 DEF HostIsOffered
<1>5. QED  BY <1>3, <1>4

LEMMA AcceptedTyped ==
  ASSUME NEW h, HostTyped(h), NEW m \in MemberId, NEW c \in ChannelId,
         NEW g, g = Accepted(h, m, c)
  PROVE  HostTyped(g)
<1>1. Message("accepted", c, {m}) \in Msg /\ Message("accepted", c, {m}).type = "accepted"
  BY DEF Message, Msg
<1>2. QED  BY <1>1, TellTyped, HostFails DEF Accepted

LEMMA ClosedTyped ==
  ASSUME NEW h, HostTyped(h), NEW m \in MemberId, NEW c \in ChannelId,
         NEW g, g = Closed(h, m, c)
  PROVE  HostTyped(g)
<1> DEFINE rest == h.channels[c] \ {m}
           ch == IF Cardinality(rest) > 1 THEN [h.channels EXCEPT ![c] = rest]
                 ELSE [d \in DOMAIN h.channels \ {c} |-> h.channels[d]]
           msg == Message("closed", c, {m})
<1>1. msg \in Msg /\ msg.type = "closed"
  BY DEF Message, Msg
<1> HIDE DEF msg
<1>2. CASE ~ (c \in DOMAIN h.channels /\ m \in h.channels[c])
  BY <1>2, HostFails DEF Closed
<1>3. CASE c \in DOMAIN h.channels /\ m \in h.channels[c]
  <2>1. /\ DOMAIN h.channels \subseteq ChannelId /\ h.channels \in ChannelMap
        /\ h.channels = [d \in DOMAIN h.channels |-> h.channels[d]]
        /\ \A d \in DOMAIN h.channels : h.channels[d] \subseteq MemberId
        /\ \A d \in DOMAIN h.channels : h.channels[d] \subseteq h.members
    BY ChannelMaps DEF HostTyped, HostState
  <2>2. /\ ch = [d \in DOMAIN ch |-> ch[d]] /\ DOMAIN ch \subseteq DOMAIN h.channels
        /\ \A d \in DOMAIN ch : ch[d] = rest \/ ch[d] = h.channels[d]
    <3>1. CASE Cardinality(rest) > 1
      BY <2>1, <3>1
    <3>2. CASE ~ (Cardinality(rest) > 1)
      BY <2>1, <3>2
    <3>3. QED  BY <3>1, <3>2
  <2>3. g = Tell([h EXCEPT !.channels = ch], rest, msg)
    BY <1>3 DEF Closed, msg, HostTyped, HostState
  <2>4. rest \subseteq MemberId /\ rest \subseteq h.members
    BY <1>3, <2>1
  <2> HIDE DEF ch, rest
  <2>5. ch \in ChannelMap /\ \A d \in DOMAIN ch : ch[d] \subseteq h.members
    <3>1. \A d \in DOMAIN ch : d \in ChannelId /\ ch[d] \subseteq MemberId /\ ch[d] \subseteq h.members
      BY <2>1, <2>2, <2>4
    <3>2. QED  BY <2>2, <3>1, ChannelMaps
  <2> DEFINE k == [h EXCEPT !.channels = ch]
  <2>6. HostTyped(k)
    BY <2>5, HostChannels
  <2>7. g = Tell(k, rest, msg)
    BY <2>3
  <2> HIDE DEF k
  <2>8. QED  BY <1>1, <2>6, <2>7, TellTyped
<1>4. QED  BY <1>2, <1>3

LEMMA SomeOrder ==
  ASSUME NEW S, IsFiniteSet(S), NEW f, f = SetToSeq(S)
  PROVE  f \in Seq(S)
<1>1. Cardinality(S) \in Nat /\ Bijection(1 .. Cardinality(S), S) # {}
  BY FS_CardinalityType DEF ExistsBijection
<1>2. PICK g \in Bijection(1 .. Cardinality(S), S) : TRUE
  BY <1>1
<1>3. g \in [1 .. Cardinality(S) -> S] /\ IsInjective(g)
  BY <1>2 DEF Bijection, Injection, IsInjective
<1>4. f \in [1 .. Cardinality(S) -> S]
  BY <1>3 DEF SetToSeq
<1>5. QED  BY <1>1, <1>4

LEMMA OpenIdsTyped ==
  ASSUME SenderTyped
  PROVE  OpenChannelIds(snd) \subseteq ChannelId /\ IsFiniteSet(ChannelId)
<1>1. snd.targets \subseteq MemberId
  BY DEF SenderTyped, SenderState
<1>2. \A m \in snd.targets : ChannelOf(snd, m) \in ChannelId
  BY <1>1, Numbers DEF ChannelOf, LateId
<1>3. IsFiniteSet(ChannelId)
  BY Numbers, FS_Interval DEF ChannelId
<1>4. QED  BY <1>2, <1>3 DEF OpenChannelIds

LEMMA MoreNews ==
  ASSUME NEW j, NEW q \in Seq(Msg), NewsOfOthers(j, q),
         NEW k \in Seq(Msg), \A i \in DOMAIN k : k[i].type # "joined", NEW p, p = q \o k
  PROVE  p \in Seq(Msg) /\ NewsOfOthers(j, p)
<1>1. p \in Seq(Msg) /\ DOMAIN p = 1 .. Len(q) + Len(k) /\ DOMAIN q = 1 .. Len(q)
      /\ DOMAIN k = 1 .. Len(k) /\ Len(q) \in Nat /\ Len(k) \in Nat
  BY DEF Msg
<1>2. \A i \in DOMAIN p : (i \in DOMAIN q /\ p[i] = q[i])
                         \/ (i - Len(q) \in DOMAIN k /\ p[i] = k[i - Len(q)])
  BY <1>1
<1>3. QED  BY <1>1, <1>2 DEF NewsOfOthers

LEMMA AllClosedTyped ==
  ASSUME NEW h, HostTyped(h), NEW ids \in SUBSET ChannelId, IsFiniteSet(ids),
         NEW g, g = [AllClosed(h, ids) EXCEPT !.failed = FALSE]
  PROVE  HostTyped(g)
<1> DEFINE rest(c) == h.channels[c] \ {Host}
           done == {c \in ids : \A d \in ids : d <= c => ~Closed(h, Host, d).failed}
           news(j) == SetToSeq({c \in done : j \in rest(c) \cap h.peers})
           said(j) == [i \in DOMAIN news(j) |-> Message("closed", news(j)[i], {Host})]
           ch == [c \in {d \in DOMAIN h.channels : d \in done => Cardinality(rest(d)) > 1} |->
                    IF c \in done THEN rest(c) ELSE h.channels[c]]
           a == [j \in Joiner |-> h.authority[j] \o said(j)]
<1>1. /\ DOMAIN h.channels \subseteq ChannelId /\ h \in HostState
      /\ \A d \in DOMAIN h.channels : h.channels[d] \subseteq MemberId
      /\ \A d \in DOMAIN h.channels : h.channels[d] \subseteq h.members
  BY ChannelMaps DEF HostTyped, HostState
<1>2. AllClosed(h, ids) = [h EXCEPT !.channels = ch, !.authority = a, !.failed = done # ids]
  BY <1>1 DEF AllClosed, HostState
<1>3. g = [h EXCEPT !.channels = ch, !.authority = a, !.failed = FALSE]
  <2> HIDE DEF ch, a
  <2>1. QED  BY <1>1, <1>2 DEF HostState
<1>4. ch \in ChannelMap /\ \A d \in DOMAIN ch : ch[d] \subseteq h.members
  <2>1. \A d \in DOMAIN ch : d \in DOMAIN h.channels /\ ch[d] \subseteq h.channels[d]
    OBVIOUS
  <2>2. ch = [d \in DOMAIN ch |-> ch[d]]
    OBVIOUS
  <2> HIDE DEF ch
  <2>3. \A d \in DOMAIN ch : d \in ChannelId /\ ch[d] \subseteq MemberId /\ ch[d] \subseteq h.members
    BY <1>1, <2>1
  <2>4. QED  BY <2>2, <2>3, ChannelMaps
<1>5. ASSUME NEW j \in Joiner
      PROVE  a[j] \in Seq(Msg) /\ NewsOfOthers(j, a[j])
  <2> DEFINE T == {c \in done : j \in rest(c) \cap h.peers}
  <2>1. T \subseteq ids /\ T \subseteq ChannelId /\ IsFiniteSet(T)
    <3>1. T \subseteq ids /\ T \subseteq ChannelId
      OBVIOUS
    <3>2. QED  BY <3>1, FS_Subset
  <2>2. news(j) \in Seq(T)
    <3>1. news(j) = SetToSeq(T)
      OBVIOUS
    <3> HIDE DEF news, T
    <3>2. QED  BY <2>1, <3>1, SomeOrder
  <2>3. said(j) \in Seq(Msg) /\ \A i \in DOMAIN said(j) : said(j)[i].type # "joined"
    <3> HIDE DEF news, T
    <3>1. \A i \in DOMAIN news(j) : news(j)[i] \in ChannelId
      BY <2>1, <2>2
    <3>2. Host \in MemberId
      BY Numbers
    <3>3. \A i \in DOMAIN news(j) : said(j)[i] \in Msg /\ said(j)[i].type = "closed"
      BY <3>1, <3>2 DEF Message, Msg
    <3>4. DOMAIN said(j) = 1 .. Len(news(j)) /\ DOMAIN news(j) = 1 .. Len(news(j))
          /\ Len(news(j)) \in Nat
      BY <2>2
    <3>5. said(j) \in [1 .. Len(news(j)) -> Msg]
      BY <3>3, <3>4
    <3> HIDE DEF said
    <3>6. QED  BY <3>3, <3>4, <3>5, <2>2
  <2>4. h.authority[j] \in Seq(Msg) /\ NewsOfOthers(j, h.authority[j])
    BY <1>1 DEF HostTyped, HostState
  <2>5. a[j] = h.authority[j] \o said(j)
    OBVIOUS
  <2> HIDE DEF said, a
  <2>6. QED  BY <2>3, <2>4, <2>5, MoreNews
<1>6. a \in [Joiner -> Seq(Msg)]
  BY <1>5
<1> HIDE DEF ch, a
<1>7. /\ g \in HostState
      /\ g.members = h.members /\ g.channels = ch /\ g.peers = h.peers
      /\ g.authority = a /\ g.next = h.next
  BY <1>1, <1>3, <1>4, <1>6 DEF HostState
<1>8. QED  BY <1>1, <1>4, <1>5, <1>7 DEF HostTyped

LEMMA AdmittedTyped ==
  ASSUME NEW h, HostTyped(h), h.next <= MaxMemberIndex, NEW g, g = Admitted(h)
  PROVE  /\ HostTyped(g) /\ h.next \in Joiner /\ g.peers = h.peers \cup {h.next}
         /\ g.members = h.members \cup {h.next}
<1> DEFINE j == h.next
           msg == Message("joined", PipeId, {j})
           told == Tell(h, h.peers, msg)
           hello == <<Message("welcome", PipeId, {j}),
                      Message("snapshot", PipeId, h.members \cup {j})>>
<1>1. /\ h \in HostState /\ j \in Nat /\ j \in Joiner /\ h.peers \subseteq Joiner
      /\ \A p \in h.peers : p < j
      /\ h.members \subseteq MemberId /\ j + 1 \in 2 .. MaxMemberIndex + 1
      /\ j # Host /\ j \notin h.peers
  BY Numbers DEF HostTyped, HostState
<1>2. msg \in Msg /\ msg.type = "joined" /\ msg.ms = {j}
  BY <1>1, Numbers DEF Message, Msg
<1>3. Host \notin msg.ms /\ \A k \in h.peers \cap h.peers : k \notin msg.ms
  BY <1>1, <1>2
<1> HIDE DEF msg
<1>4. /\ HostTyped(told) /\ told.channels = h.channels /\ told.members = h.members
      /\ told.peers = h.peers /\ told.next = h.next
  BY <1>2, <1>3, TellTyped
<1>5. hello \in Seq(Msg) /\ NewsOfOthers(j, hello)
  <2>1. /\ Message("welcome", PipeId, {j}) \in Msg
        /\ Message("snapshot", PipeId, h.members \cup {j}) \in Msg
    BY <1>1, Numbers DEF Message, Msg
  <2>2. hello[1].type = "welcome" /\ hello[2].type = "snapshot" /\ DOMAIN hello = 1 .. 2
    BY DEF Message
  <2>3. QED  BY <2>1, <2>2 DEF NewsOfOthers
<1> HIDE DEF hello, told
<1>6. g = [told EXCEPT !.next = j + 1, !.members = h.members \cup {j}, !.peers = @ \cup {j},
                       !.authority[j] = hello]
  BY DEF Admitted, hello, told, msg
<1>7. told \in HostState /\ \A k \in Joiner : NewsOfOthers(k, told.authority[k])
  BY <1>4 DEF HostTyped
<1> DEFINE auth == [told.authority EXCEPT ![j] = hello]
           everyone == h.members \cup {j}
           peers == h.peers \cup {j}
           next == j + 1
<1>8. /\ g \in HostState
      /\ g.next = next /\ g.members = everyone /\ g.peers = peers
      /\ g.channels = h.channels /\ g.authority = auth
  <2>1. told.authority \in [Joiner -> Seq(Msg)]
    BY <1>7 DEF HostState
  <2>2. /\ auth \in [Joiner -> Seq(Msg)] /\ everyone \subseteq MemberId /\ peers \subseteq Joiner
        /\ next \in 2 .. MaxMemberIndex + 1
    BY <1>1, <1>5, <2>1, Numbers
  <2>3. g = [told EXCEPT !.next = next, !.members = everyone, !.peers = peers,
                         !.authority = auth]
    BY <1>4, <1>6, <1>7 DEF HostState
  <2> HIDE DEF auth, everyone, peers, next
  <2>4. QED  BY <1>4, <1>7, <2>2, <2>3 DEF HostState
<1>9. \A k \in Joiner : NewsOfOthers(k, g.authority[k])
  BY <1>5, <1>7, <1>8 DEF HostState
<1>10. \A p \in g.peers : p < g.next
  BY <1>1, <1>8, Numbers
<1>11. HostTyped(g)
  BY <1>1, <1>8, <1>9, <1>10 DEF HostTyped
<1>12. QED  BY <1>1, <1>8, <1>11

-----------------------------------------------------------------------------
(* Types.                                                                  *)

LEMMA InitTyped ==
  ASSUME PipeInit
  PROVE  Typed
<1>1. HostTyped(host)
  <2>1. [c \in {} |-> {}] \in ChannelMap
    BY ChannelMaps
  <2> DEFINE none == [c \in {} |-> {}]
  <2>2. none \in ChannelMap /\ DOMAIN none = {}
    BY <2>1
  <2> HIDE DEF none
  <2>3. host = [members |-> {Host}, next |-> 2, channels |-> none, peers |-> {},
                authority |-> [j \in Joiner |-> <<>>], failed |-> FALSE]
    BY DEF PipeInit, none
  <2>4. \A j \in Joiner : NewsOfOthers(j, <<>>)
    BY DEF NewsOfOthers
  <2>5. host \in HostState
    BY <2>2, <2>3, Numbers DEF HostState
  <2>6. QED  BY <2>2, <2>3, <2>4, <2>5 DEF HostTyped
<1>2. SenderTyped
  BY DEF PipeInit, SenderTyped, SenderState, Started
<1>3. gate \in GateState
  BY Numbers DEF PipeInit, GateState
<1>4. CastTyped
  <2>1. [m \in {} |-> 0] \in ReceiverMap
    BY ReceiverMaps
  <2> DEFINE none == [m \in {} |-> 0]
  <2>2. none \in ReceiverMap /\ DOMAIN none = {}
    BY <2>1
  <2> HIDE DEF none
  <2>3. cast = [task |-> "idle", receivers |-> none, commands |-> <<>>,
                pos |-> 0, initial |-> {}]
    BY DEF PipeInit, none
  <2>4. QED  BY <2>2, <2>3, Numbers DEF CastTyped, CastState, Receivers
<1>5. flow \in [MemberId -> Flow]
  BY DEF PipeInit, NoFlow, Flow, ByteSeq
<1>6. proc \in [MemberId -> Outcome]
  BY DEF PipeInit, Outcome
<1>7. old \subseteq MayBeOld /\ toHost \in [Joiner -> Seq(Said)]
  BY DEF PipeInit
<1>8. QED  BY <1>1, <1>2, <1>3, <1>4, <1>5, <1>6, <1>7 DEF Typed, PipeInit

\* What a process says when it ends.
LEMMA EndsLinkTyped ==
  ASSUME Typed, NEW j \in Joiner, NEW said \in Seq(Said), EndsLink(j, said)
  PROVE  toHost' \in [Joiner -> Seq(Said)]
<1>1. <<[type |-> "end"]>> \in Seq(Said)
  BY DEF Said, Parting
<1>2. toHost[j] \in Seq(Said) /\ toHost \in [Joiner -> Seq(Said)]
  BY DEF Typed
<1>3. (toHost[j] \o said) \o <<[type |-> "end"]>> \in Seq(Said)
      /\ <<>> \o <<[type |-> "end"]>> \in Seq(Said)
  <2> DEFINE s == toHost[j] \o said
             t == <<[type |-> "end"]>>
  <2>1. s \in Seq(Said) /\ t \in Seq(Said) /\ <<>> \in Seq(Said)
    BY <1>1, <1>2
  <2> HIDE DEF s, t
  <2>2. s \o t \in Seq(Said) /\ <<>> \o t \in Seq(Said)
    BY <2>1
  <2>3. QED  BY <2>2 DEF s, t
<1> DEFINE both == {(toHost[j] \o said) \o <<[type |-> "end"]>>, <<>> \o <<[type |-> "end"]>>}
<1>4. CASE Running(Host)
  <2>1. PICK s \in both : toHost' = [toHost EXCEPT ![j] = s]
    BY <1>4 DEF EndsLink
  <2>2. s \in Seq(Said)
    BY <1>3
  <2>3. QED  BY <1>2, <2>1, <2>2
<1>5. CASE ~Running(Host)
  BY <1>2, <1>5 DEF EndsLink
<1>6. QED  BY <1>4, <1>5

LEMMA HostBecomesTyped ==
  ASSUME Typed, NEW h, HostTyped(h), HostBecomes(h)
  PROVE  HostTyped(host') /\ proc' \in [MemberId -> Outcome]
BY DEF Typed, HostBecomes, Outcome

LEMMA WithTargetsTyped ==
  ASSUME SenderTyped, NEW s \in SenderState, s.late = {}, s.streams = {},
         NEW ms \in SUBSET (MemberId \ {source}),
         snd' = WithTargets(s, ms), UNCHANGED source
  PROVE  SenderTyped'
BY DEF SenderTyped, SenderState, WithTargets

LEMMA WithLateTyped ==
  ASSUME SenderTyped, snd.opened, NEW m \in MemberId \ {source},
         snd' = WithLate(snd, m), UNCHANGED source
  PROVE  SenderTyped'
<1>1. /\ snd' \in SenderState /\ snd'.opened
      /\ snd'.targets = snd.targets \cup {m} /\ snd'.late = snd.late \cup {m}
      /\ snd'.streams = snd.streams
  BY DEF SenderTyped, SenderState, WithLate
<1>2. QED  BY <1>1 DEF SenderTyped

LEMMA HostAcceptsTyped ==
  ASSUME Typed, HostAccepts
  PROVE  Typed'
<1> DEFINE j == host.next
           h == Admitted(host)
           missing == h.peers \ snd.targets
           first == IsSender(Host) /\ ~snd.opened /\ ~h.failed
           later == /\ IsSender(Host) /\ cast.task \in {"running", "finishing", "over"} /\ ~h.failed
                    /\ missing # {}
           g == IF first THEN FirstOpening(h)
                ELSE IF later THEN LateOpening(h, Min(missing)) ELSE h
<1>1. /\ host' = g
      /\ proc' = [proc EXCEPT ![j] = "running", ![Host] = IF g.failed THEN "failed" ELSE @]
      /\ snd' = IF first THEN WithTargets(snd, h.peers)
                ELSE IF later THEN WithLate(snd, Min(missing)) ELSE snd
      /\ UNCHANGED <<source, old, up, deaf, toHost, gate, cast, flow, faults>>
      /\ j <= MaxMemberIndex
  BY DEF HostAccepts
<1>2. /\ HostTyped(h) /\ h.peers \subseteq Joiner /\ h.peers \subseteq h.members
      /\ j \in Joiner /\ Host \in h.members
  <2>1. HostTyped(host)
    BY DEF Typed
  <2> HIDE DEF h
  <2>2. HostTyped(h) /\ j \in Joiner
    BY <1>1, <2>1, AdmittedTyped DEF h
  <2>3. QED  BY <2>2 DEF HostTyped, HostState
<1> HIDE DEF h, j
<1>3. ASSUME later
      PROVE  Min(missing) \in missing
  <2>1. missing \subseteq Nat
    BY <1>2, Numbers
  <2>2. QED  BY <1>3, <2>1, LeastOfNats
<1>4. HostTyped(g)
  <2>1. HostTyped(FirstOpening(h))
    BY <1>2, OpenedTyped, HostFails, Numbers DEF FirstOpening
  <2>2. ASSUME later PROVE HostTyped(LateOpening(h, Min(missing)))
    <3>1. Min(missing) \in Joiner /\ Min(missing) \in h.members
      BY <1>2, <1>3, <2>2
    <3>2. LateId(Min(missing)) \in ChannelId /\ Min(missing) \in ChannelId
      BY <3>1, Numbers DEF LateId
    <3>3. QED  BY <1>2, <3>1, <3>2, OpenedTyped, HostFails, Numbers DEF LateOpening
  <2>3. QED  BY <1>2, <2>1, <2>2
<1>5. SenderTyped'
  <2>1. SenderTyped /\ snd \in SenderState
    BY DEF Typed, SenderTyped
  <2>2. CASE first
    <3>1. snd' = WithTargets(snd, h.peers) /\ Host = source
      BY <1>1, <2>2 DEF IsSender
    <3>2. snd.late = {} /\ snd.streams = {} /\ source \notin h.peers
      BY <1>2, <2>1, <2>2, <3>1 DEF SenderTyped, Joiner
    <3>3. h.peers \subseteq MemberId
      BY <1>2, Numbers
    <3>4. QED  BY <1>1, <2>1, <3>1, <3>2, <3>3, WithTargetsTyped
  <2>3. CASE ~first /\ later
    <3>1. snd' = WithLate(snd, Min(missing)) /\ Host = source /\ snd.opened
      BY <1>1, <2>3 DEF IsSender
    <3>2. Min(missing) \in MemberId \ {source}
      BY <1>2, <1>3, <2>3, <3>1 DEF Joiner
    <3>3. QED  BY <1>1, <2>1, <3>1, <3>2, WithLateTyped
  <2>4. CASE ~first /\ ~later
    <3>1. snd' = snd
      BY <1>1, <2>4
    <3>2. QED  BY <1>1, <2>1, <3>1 DEF SenderTyped, Started
  <2>5. QED  BY <2>2, <2>3, <2>4
<1> HIDE DEF first, later, missing, g
<1>6. proc' \in [MemberId -> Outcome]
  BY <1>1 DEF Typed, Outcome
<1>7. QED
  BY <1>1, <1>4, <1>5, <1>6 DEF Typed, CastTyped, Receivers

LEMMA ForgetReceiverTyped ==
  ASSUME Typed, NEW j \in Joiner, j # source, ForgetReceiver(j), source' = source
  PROVE  SenderTyped' /\ CastTyped'
<1>1. /\ SenderTyped /\ CastTyped /\ snd \in SenderState /\ cast \in CastState /\ j \in MemberId
  BY Numbers DEF Typed, SenderTyped, CastTyped
<1>2. Started' <=> Started
  BY <1>1 DEF ForgetReceiver, Started, CastState
<1>3. SenderTyped'
  BY <1>1, <1>2 DEF ForgetReceiver, WithoutTarget, SenderTyped, SenderState
<1>4. CASE Started
  <2> DEFINE c == Command("remove", j)
             cs == Append(cast.commands, c)
  <2>1. c \in TaskCommand /\ c.of = j /\ cast.commands \in Seq(TaskCommand)
    BY <1>1 DEF Command, TaskCommand, CastState
  <2>2. cast' = [cast EXCEPT !.commands = cs]
    BY <1>1, <1>4 DEF ForgetReceiver, CastState
  <2> HIDE DEF c
  <2>3. /\ cs \in Seq(TaskCommand)
        /\ \A i \in DOMAIN cs : cs[i] = c \/ (i \in DOMAIN cast.commands /\ cs[i] = cast.commands[i])
    BY <2>1
  <2> HIDE DEF cs
  <2>4. QED  BY <1>1, <1>3, <2>1, <2>2, <2>3 DEF CastTyped, CastState, Receivers
<1>5. CASE ~Started
  BY <1>1, <1>3, <1>5 DEF ForgetReceiver, CastTyped, Receivers
<1>6. QED  BY <1>4, <1>5

LEMMA HostHandlesCommandTyped ==
  ASSUME Typed, NEW j \in Joiner, HostHandlesCommand(j)
  PROVE  Typed'
<1> DEFINE e == Head(toHost[j])
<1>1. /\ HostTyped(host) /\ j \in MemberId /\ Host \in MemberId
      /\ toHost \in [Joiner -> Seq(Said)] /\ flow \in [MemberId -> Flow]
      /\ host.peers \subseteq host.members /\ Host \in host.members
      /\ host.peers \subseteq Joiner
  BY Numbers DEF Typed, HostTyped, HostState
<1>2. e \in Said /\ toHost' \in [Joiner -> Seq(Said)]
  <2>1. toHost[j] \in Seq(Said) /\ toHost[j] # <<>>
    BY <1>1 DEF HostHandlesCommand
  <2>2. QED  BY <1>1, <2>1 DEF HostHandlesCommand
<1> HIDE DEF e
<1>3. e.type \in {"open", "accept", "close"} => e \in Asking /\ e.on \in ChannelId /\ e.to \in ChannelId
  BY <1>2 DEF Said, Asking, Parting
<1>4. UNCHANGED <<source, old, up, deaf, gate, faults>>
  BY DEF HostHandlesCommand
<1>5. [flow EXCEPT ![Host].stage = "dialed"] \in [MemberId -> Flow]
  BY <1>1 DEF Flow
<1>6. ASSUME UNCHANGED <<snd, cast>>
      PROVE  SenderTyped' /\ CastTyped'
  BY <1>4, <1>6 DEF Typed, SenderTyped, CastTyped, Started, Receivers
<1>7. CASE e.type = "open" /\ HostOpens(j, e.on, e.to) /\ UNCHANGED <<snd, cast>>
  <2> DEFINE h == Opened(host, j, e.on, e.to)
             msg == Message("error", e.on, {})
             incapable == IF e.to = ToAll THEN host.peers \cap old # {}
                          ELSE e.to # Host /\ (e.to \notin host.peers \/ e.to \in old)
  <2>1. CASE incapable
    <3>1. HostBecomes(Tell(host, {j}, msg)) /\ UNCHANGED flow
      BY <1>7, <2>1 DEF HostOpens, Refuses
    <3>2. msg \in Msg /\ msg.type = "error"
      BY <1>3, <1>7 DEF Message, Msg
    <3> HIDE DEF msg
    <3>3. HostTyped(Tell(host, {j}, msg))
      BY <1>1, <3>2, TellTyped
    <3>4. HostTyped(host') /\ proc' \in [MemberId -> Outcome]
      BY <3>1, <3>3, HostBecomesTyped
    <3>5. QED  BY <1>2, <1>4, <1>6, <1>7, <3>1, <3>4 DEF Typed
  <2>2. CASE ~incapable
    <3>1. HostTakesOffer(h, e.on)
      BY <1>7, <2>2 DEF HostOpens
    <3>2. e.to = ToAll \/ e.to \in host.members
      BY <1>1, <2>2
    <3>3. HostTyped(h)
      BY <1>1, <1>3, <1>7, <3>2, OpenedTyped
    <3>4. HostTyped(Accepted(h, Host, e.on))
      BY <1>1, <1>3, <1>7, <3>3, AcceptedTyped
    <3> HIDE DEF h
    <3>5. HostTyped(host') /\ proc' \in [MemberId -> Outcome]
      BY <3>1, <3>3, <3>4, HostBecomesTyped DEF HostTakesOffer
    <3>6. flow' \in [MemberId -> Flow]
      BY <1>1, <1>5, <3>1 DEF HostTakesOffer
    <3>7. QED  BY <1>2, <1>4, <1>6, <1>7, <3>5, <3>6 DEF Typed
  <2>3. QED  BY <2>1, <2>2
<1>8. CASE e.type = "accept" /\ HostBecomes(Accepted(host, j, e.on)) /\ UNCHANGED <<snd, cast, flow>>
  <2>1. HostTyped(host') /\ proc' \in [MemberId -> Outcome]
    BY <1>1, <1>3, <1>8, AcceptedTyped, HostBecomesTyped
  <2>2. QED  BY <1>1, <1>2, <1>4, <1>6, <1>8, <2>1 DEF Typed
<1>9. CASE e.type = "close" /\ HostBecomes(Closed(host, j, e.on)) /\ UNCHANGED <<snd, cast, flow>>
  <2>1. HostTyped(host') /\ proc' \in [MemberId -> Outcome]
    BY <1>1, <1>3, <1>9, ClosedTyped, HostBecomesTyped
  <2>2. QED  BY <1>1, <1>2, <1>4, <1>6, <1>9, <2>1 DEF Typed
<1>10. ASSUME HostBecomes([Left(host, j) EXCEPT !.peers = @ \ {j}])
       PROVE  HostTyped(host') /\ proc' \in [MemberId -> Outcome]
  BY <1>1, <1>10, LeftTyped, HostBecomesTyped
<1>11. CASE e.type = "leave" /\ HostBecomes([Left(host, j) EXCEPT !.peers = @ \ {j}])
            /\ UNCHANGED <<snd, cast, flow>>
  BY <1>1, <1>2, <1>4, <1>6, <1>10, <1>11 DEF Typed
<1>12. CASE e.type = "end" /\ HostDropsPeer(j)
  <2>1. HostTyped(host') /\ proc' \in [MemberId -> Outcome] /\ UNCHANGED flow
    BY <1>10, <1>12 DEF HostDropsPeer
  <2>2. SenderTyped' /\ CastTyped'
    <3>1. CASE IsSender(Host)
      BY <1>4, <1>12, <3>1, ForgetReceiverTyped DEF HostDropsPeer, IsSender, Joiner
    <3>2. CASE ~IsSender(Host)
      BY <1>6, <1>12, <3>2 DEF HostDropsPeer
    <3>3. QED  BY <3>1, <3>2
  <2>3. QED  BY <1>2, <1>4, <2>1, <2>2, <1>1 DEF Typed
<1>13. QED  BY <1>7, <1>8, <1>9, <1>11, <1>12 DEF HostHandlesCommand, e

\* Steps that leave sender and task alone.
LEMMA CastAndSenderKept ==
  ASSUME Typed, UNCHANGED <<source, snd, cast>>
  PROVE  SenderTyped' /\ CastTyped'
BY DEF Typed, SenderTyped, CastTyped, Started, Receivers

\* A joiner has read the first messages of its link.
LEMMA NewsRead ==
  ASSUME HostTyped(host), NEW j \in Joiner, NEW q \in Seq(Msg), NewsOfOthers(j, q),
         host' = [host EXCEPT !.authority[j] = q]
  PROVE  HostTyped(host')
<1> DEFINE a == [host.authority EXCEPT ![j] = q]
<1>1. host \in HostState /\ \A k \in Joiner : NewsOfOthers(k, host.authority[k])
  BY DEF HostTyped
<1>2. a \in [Joiner -> Seq(Msg)] /\ \A k \in Joiner : NewsOfOthers(k, a[k])
  BY <1>1 DEF HostState
<1>3. host' = [host EXCEPT !.authority = a]
  BY <1>1 DEF HostState
<1> HIDE DEF a
<1>4. QED  BY <1>2, <1>3, HostTells

LEMMA ReceiverReadsTyped ==
  ASSUME Typed, NEW j \in Joiner, ReceiverReads(j)
  PROVE  Typed'
<1> DEFINE q == host.authority[j]
           I == {i \in 1 .. Len(q) : q[i].type = "opened"}
           k == SelectInSeq(q, LAMBDA e : e.type = "opened")
           rest == IF k = 0 THEN <<>> ELSE SubSeq(q, k + 1, Len(q))
<1>1. /\ q \in Seq(Msg) /\ NewsOfOthers(j, q) /\ HostTyped(host) /\ j \in MemberId
      /\ toHost \in [Joiner -> Seq(Said)] /\ flow \in [MemberId -> Flow]
  BY Numbers DEF Typed, HostTyped, HostState
<1>2. k = IF I # {} THEN Min(I) ELSE 0
  BY DEF SelectInSeq
<1>3. /\ host' = [host EXCEPT !.authority[j] = rest]
      /\ k = 0 => UNCHANGED <<toHost, flow>>
      /\ k # 0 => /\ toHost' = [toHost EXCEPT ![j] = Says(j, "accept", q[k].on, ToAll)]
                  /\ flow' = [flow EXCEPT ![j].stage = "dialed"]
      /\ UNCHANGED <<source, old, proc, up, deaf, snd, gate, cast, faults>>
  BY DEF ReceiverReads
<1>4. k = 0 \/ k \in 1 .. Len(q)
  <2>1. I \subseteq Nat /\ I \subseteq 1 .. Len(q)
    OBVIOUS
  <2> HIDE DEF I, k
  <2>2. QED  BY <1>2, <2>1, LeastOfNats
<1> HIDE DEF k
<1>5. rest \in Seq(Msg) /\ NewsOfOthers(j, rest)
  <2>1. CASE k = 0
    BY <2>1 DEF NewsOfOthers
  <2>2. CASE k \in 1 .. Len(q)
    <3>1. Len(q) \in Nat /\ \A i \in 1 .. Len(q) : q[i] \in Msg
      BY <1>1
    <3>2. rest = SubSeq(q, k + 1, Len(q)) /\ k \in Nat /\ k <= Len(q)
      BY <2>2, <3>1
    <3> HIDE DEF q, rest
    <3>3. /\ rest \in Seq(Msg) /\ DOMAIN rest = 1 .. Len(q) - k
          /\ \A i \in 1 .. Len(q) - k : rest[i] = q[i + k]
      BY <1>1, <3>1, <3>2
    <3>4. \A i \in DOMAIN rest : rest[i] = q[i + k] /\ i + k \in DOMAIN q
      BY <1>1, <3>1, <3>2, <3>3
    <3>5. QED  BY <1>1, <3>3, <3>4 DEF NewsOfOthers
  <2>3. QED  BY <1>4, <2>1, <2>2
<1> HIDE DEF rest
<1>6. HostTyped(host')
  BY <1>1, <1>3, <1>5, NewsRead
<1>7. toHost' \in [Joiner -> Seq(Said)] /\ flow' \in [MemberId -> Flow]
  <2>1. CASE k = 0
    BY <1>1, <1>3, <2>1
  <2>2. CASE k # 0
    <3>1. q[k] \in Msg
      BY <1>1, <1>4, <2>2
    <3>2. [type |-> "accept", on |-> q[k].on, to |-> ToAll] \in Said
      BY <3>1, Numbers DEF Said, Asking, Msg
    <3> HIDE DEF q
    <3>3. Says(j, "accept", q[k].on, ToAll) \in Seq(Said)
      BY <1>1, <3>2 DEF Says
    <3>4. [flow EXCEPT ![j].stage = "dialed"] \in [MemberId -> Flow]
      BY <1>1 DEF Flow
    <3>5. QED  BY <1>1, <1>3, <2>2, <3>3, <3>4
  <2>3. QED  BY <2>1, <2>2
<1>8. QED  BY <1>3, <1>6, <1>7, CastAndSenderKept DEF Typed

LEMMA SenderReadsTyped ==
  ASSUME Typed, NEW j \in Joiner, SenderReads(j)
  PROVE  Typed'
<1> DEFINE q == host.authority[j]
           e == Head(q)
           s == CASE e.type = "welcome"  -> [snd EXCEPT !.welcomed = TRUE]
                  [] e.type = "snapshot" -> [snd EXCEPT !.known = e.ms]
                  [] e.type = "joined"   -> [snd EXCEPT !.known = @ \cup e.ms]
                  [] OTHER -> snd
           opens == e.type \in {"welcome", "snapshot", "joined"} /\ MayOpen(s, j)
           late == {m \in e.ms : e.type = "joined" /\ ~opens /\ MayOpenLate(s, m)}
<1>1. /\ q \in Seq(Msg) /\ NewsOfOthers(j, q) /\ HostTyped(host) /\ j \in MemberId
      /\ toHost \in [Joiner -> Seq(Said)] /\ q # <<>> /\ j = source
      /\ SenderTyped /\ snd \in SenderState
  BY Numbers DEF Typed, HostTyped, HostState, SenderReads, HasNext, IsSender, SenderTyped
<1>2. /\ host' = [host EXCEPT !.authority[j] = Tail(q)]
      /\ \/ opens /\ OpensToAll(s, j)
         \/ ~opens /\ late # {} /\ OpensToLate(s, j, Min(late))
         \/ ~opens /\ late = {} /\ snd' = s /\ UNCHANGED toHost
      /\ proc' = [proc EXCEPT ![j] = "failed"] \/ UNCHANGED proc
      /\ UNCHANGED <<source, old, up, deaf, gate, cast, flow, faults>>
  BY <1>1 DEF SenderReads, HostTyped, HostState
<1>3. e \in Msg /\ Tail(q) \in Seq(Msg) /\ NewsOfOthers(j, Tail(q))
      /\ (e.type = "joined" => j \notin e.ms)
  <2>1. e \in Msg /\ e = q[1] /\ 1 \in DOMAIN q /\ Tail(q) \in Seq(Msg)
    BY <1>1
  <2>2. \A i \in DOMAIN Tail(q) : Tail(q)[i] = q[i + 1] /\ i + 1 \in DOMAIN q
    BY <1>1
  <2>3. QED  BY <1>1, <2>1, <2>2 DEF NewsOfOthers
<1> HIDE DEF e
<1>4. /\ s \in SenderState /\ s.opened = snd.opened /\ s.targets = snd.targets
      /\ s.late = snd.late /\ s.streams = snd.streams
  <2>1. e.ms \subseteq MemberId
    BY <1>3 DEF Msg
  <2>2. QED  BY <1>1, <2>1 DEF SenderState
<1> HIDE DEF s
<1>5. HostTyped(host')
  BY <1>1, <1>2, <1>3, NewsRead
<1>6. proc' \in [MemberId -> Outcome]
  BY <1>1, <1>2 DEF Typed, Outcome
<1>7. CASE opens /\ OpensToAll(s, j)
  <2>1. ~snd.opened /\ s.late = {} /\ s.streams = {} /\ s.known \ {j} \in SUBSET (MemberId \ {source})
    BY <1>1, <1>4, <1>7 DEF MayOpen, SenderTyped, SenderState
  <2>2. SenderTyped'
    BY <1>1, <1>2, <1>4, <1>7, <2>1, WithTargetsTyped DEF OpensToAll
  <2>3. [type |-> "open", on |-> PipeId, to |-> ToAll] \in Said
    BY Numbers DEF Said, Asking
  <2> HIDE DEF q
  <2>4. toHost' \in [Joiner -> Seq(Said)]
    BY <1>1, <1>7, <2>3 DEF OpensToAll, Says
  <2>5. CastTyped'
    BY <1>2 DEF Typed, CastTyped, Receivers
  <2>6. QED  BY <1>2, <1>5, <1>6, <2>2, <2>4, <2>5 DEF Typed
<1>8. CASE ~opens /\ late # {} /\ OpensToLate(s, j, Min(late))
  <2>1. Min(late) \in late
    <3>1. late \subseteq Nat
      BY <1>3, Numbers DEF Msg
    <3>2. QED  BY <1>8, <3>1, LeastOfNats
  <2> DEFINE m == Min(late)
  <2>2. m \in MemberId \ {source} /\ Started
    <3>1. m \in e.ms /\ e.type = "joined" /\ Started
      BY <2>1 DEF MayOpenLate
    <3> HIDE DEF m
    <3>2. QED  BY <1>1, <1>3, <3>1 DEF Msg
  <2>3. OpensToLate(s, j, m)
    BY <1>8
  <2> HIDE DEF m
  <2>4. snd.opened
    BY <1>1, <2>2 DEF SenderTyped
  <2>5. s = snd \/ snd' = WithLate(s, m)
    BY <2>3 DEF OpensToLate
  <2>6. /\ snd' \in SenderState /\ snd'.opened = s.opened /\ snd'.targets = s.targets \cup {m}
        /\ snd'.late = s.late \cup {m} /\ snd'.streams = s.streams
    <3>1. snd' = [s EXCEPT !.targets = @ \cup {m}, !.late = @ \cup {m}]
      BY <2>3 DEF OpensToLate, WithLate
    <3>2. m \in MemberId
      BY <2>2
    <3>3. QED  BY <1>4, <3>1, <3>2 DEF SenderState
  <2>7. SenderTyped'
    BY <1>1, <1>2, <1>4, <2>2, <2>4, <2>6 DEF SenderTyped
  <2>8. [type |-> "open", on |-> LateId(m), to |-> m] \in Said
    BY <2>2, Numbers DEF Said, Asking, LateId
  <2> HIDE DEF q
  <2>9. toHost' \in [Joiner -> Seq(Said)]
    BY <1>1, <2>3, <2>8 DEF OpensToLate, Says
  <2>10. CastTyped'
    BY <1>2 DEF Typed, CastTyped, Receivers
  <2>11. QED  BY <1>2, <1>5, <1>6, <2>7, <2>9, <2>10 DEF Typed
<1>9. CASE ~opens /\ late = {} /\ snd' = s /\ UNCHANGED toHost
  <2>1. SenderTyped' /\ CastTyped'
    BY <1>1, <1>2, <1>4, <1>9 DEF Typed, SenderTyped, CastTyped, Receivers, Started
  <2>2. QED  BY <1>2, <1>5, <1>6, <1>9, <2>1 DEF Typed
<1>10. QED  BY <1>2, <1>7, <1>8, <1>9

LEMMA JoinerSeesHostEndTyped ==
  ASSUME Typed, NEW j \in Joiner, JoinerSeesHostEnd(j)
  PROVE  Typed'
<1>1. toHost' \in [Joiner -> Seq(Said)]
  <2>1. CASE IsSender(j)
    BY <2>1 DEF JoinerSeesHostEnd, Typed
  <2>2. CASE ~IsSender(j)
    <3>1. <<>> \in Seq(Said)
      OBVIOUS
    <3>2. QED  BY <2>2, <3>1, EndsLinkTyped DEF JoinerSeesHostEnd
  <2>3. QED  BY <2>1, <2>2
<1>2. /\ proc' = [proc EXCEPT ![j] = "failed"]
      /\ UNCHANGED <<source, old, up, host, deaf, snd, gate, cast, flow, faults>>
  BY DEF JoinerSeesHostEnd
<1>3. QED  BY <1>1, <1>2, CastAndSenderKept DEF Typed, Outcome

LEMMA WriterFailsTyped ==
  ASSUME Typed, NEW j \in Joiner, WriterFails(j)
  PROVE  Typed'
BY CastAndSenderKept DEF Typed, WriterFails

LEMMA GateTyped ==
  ASSUME Typed, NEW m \in MemberId, BeginAccept(m) \/ EndAccept(m) \/ AcceptFails(m)
  PROVE  Typed'
<1>1. /\ UNCHANGED <<source, old, proc, up, host, deaf, toHost, snd, cast, faults>>
      /\ gate \in GateState /\ flow \in [MemberId -> Flow]
  BY DEF BeginAccept, EndAccept, AcceptFails, Typed
<1>2. m \in ChannelId /\ Nobody \in ChannelId
  BY Numbers DEF ChannelId
<1>3. gate' \in GateState
  <2>1. /\ Append(gate.arrivals, m) \in Seq(ChannelId)
        /\ Append(gate.arrivals, Nobody) \in Seq(ChannelId)
    BY <1>1, <1>2 DEF GateState
  <2>2. CASE BeginAccept(m)
    BY <1>1, <1>2, <2>2 DEF BeginAccept, GateState
  <2>3. CASE EndAccept(m)
    BY <1>2, <2>1, <2>3 DEF EndAccept, GateState
  <2>4. CASE AcceptFails(m)
    BY <1>2, <2>1, <2>4 DEF AcceptFails, GateState
  <2>5. QED  BY <2>2, <2>3, <2>4
<1>4. flow' \in [MemberId -> Flow]
  <2>1. /\ [flow EXCEPT ![m].stage = "answered"] \in [MemberId -> Flow]
        /\ [flow EXCEPT ![m].stage = "ended"] \in [MemberId -> Flow]
    BY <1>1 DEF Flow
  <2>2. QED  BY <1>1, <2>1 DEF BeginAccept, EndAccept, AcceptFails
<1>5. QED  BY <1>1, <1>3, <1>4, CastAndSenderKept DEF Typed

\* A command of the source's loop to the task.
LEMMA CommandTyped ==
  ASSUME CastTyped, NEW m \in MemberId, m # source, NEW type \in {"add", "remove"},
         cast' = [cast EXCEPT !.commands = Append(@, Command(type, m))], UNCHANGED source
  PROVE  /\ CastTyped' /\ (Started' <=> Started) /\ Receivers' = Receivers
         /\ cast'.pos = cast.pos /\ cast'.initial = cast.initial /\ cast'.task = cast.task
         /\ cast'.receivers = cast.receivers
         /\ cast'.commands = Append(cast.commands, Command(type, m))
<1> DEFINE c == Command(type, m)
           cs == Append(cast.commands, c)
<1>1. /\ c \in TaskCommand /\ c.of = m /\ cast.commands \in Seq(TaskCommand) /\ cast \in CastState
      /\ source \notin Receivers /\ \A i \in DOMAIN cast.commands : cast.commands[i].of # source
  BY DEF Command, TaskCommand, CastState, CastTyped
<1>2. cast' = [cast EXCEPT !.commands = cs]
  BY <1>1 DEF CastState
<1> HIDE DEF c
<1>3. /\ cs \in Seq(TaskCommand)
      /\ \A i \in DOMAIN cs : cs[i] = c \/ (i \in DOMAIN cast.commands /\ cs[i] = cast.commands[i])
  BY <1>1
<1>4. cs = Append(cast.commands, Command(type, m))
  BY DEF c
<1> HIDE DEF cs
<1>5. /\ cast' \in CastState /\ cast'.commands = cs /\ cast'.receivers = cast.receivers
      /\ cast'.pos = cast.pos /\ cast'.initial = cast.initial /\ cast'.task = cast.task
  BY <1>1, <1>2, <1>3 DEF CastState
<1>6. QED  BY <1>1, <1>3, <1>4, <1>5 DEF CastTyped, Receivers, Started

StartedReceivers(ms) == [m \in ms |-> NewReceiver]

LEMMA StartedTyped ==
  ASSUME CastTyped, NEW s, s.streams \subseteq MemberId \ {source},
         cast' = StartedWith(s), UNCHANGED source
  PROVE  /\ CastTyped' /\ Receivers' = s.streams /\ cast'.initial = s.streams
         /\ cast'.task = "running" /\ cast'.commands = cast.commands /\ cast'.pos = cast.pos
         /\ \A m \in s.streams : cast'.receivers[m] = NewReceiver
<1> DEFINE rs == StartedReceivers(s.streams)
<1>1. /\ DOMAIN rs = s.streams /\ \A m \in DOMAIN rs : rs[m] = NewReceiver
      /\ rs = [m \in DOMAIN rs |-> rs[m]]
  BY DEF StartedReceivers
<1>2. NewReceiver \in Receiver
  BY DEF NewReceiver, Receiver
<1>3. cast' = [cast EXCEPT !.task = "running", !.initial = s.streams, !.receivers = rs]
  BY DEF StartedWith, StartedReceivers
<1> HIDE DEF rs
<1>4. rs \in ReceiverMap
  BY <1>1, <1>2, ReceiverMaps
<1>5. cast \in CastState /\ \A i \in DOMAIN cast.commands : cast.commands[i].of # source
  BY DEF CastTyped
<1>6. /\ cast' \in CastState /\ cast'.receivers = rs /\ cast'.initial = s.streams
      /\ cast'.task = "running" /\ cast'.commands = cast.commands /\ cast'.pos = cast.pos
  BY <1>3, <1>4, <1>5 DEF CastState
<1>7. QED  BY <1>1, <1>5, <1>6 DEF CastTyped, Receivers

\* What a stream that is taken in does to sender and task.
LEMMA AttachCases ==
  ASSUME Typed, NEW m \in snd.targets, Attaches(m), UNCHANGED source
  PROVE  /\ SenderTyped' /\ CastTyped'
         /\ snd'.targets = snd.targets /\ snd'.opened = snd.opened
         /\ cast'.pos = cast.pos
         /\ \/ /\ Started /\ snd' = snd
               /\ cast' = [cast EXCEPT !.commands = Append(@, Command("add", m))]
            \/ /\ ~Started /\ cast' = cast /\ snd'.streams = snd.streams \cup {m}
            \/ /\ ~Started /\ snd'.streams = {}
               /\ Receivers' = snd.streams \cup {m} /\ cast'.initial = snd.streams \cup {m}
               /\ cast'.task = "running" /\ cast'.commands = cast.commands
               /\ \A k \in Receivers' : cast'.receivers[k] = NewReceiver
<1> DEFINE s == [snd EXCEPT !.streams = @ \cup {m}]
<1>1. SenderTyped /\ CastTyped /\ snd \in SenderState /\ m \in MemberId \ {source} /\ snd.opened
  BY DEF Typed, SenderTyped, SenderState
<1>2. s \in SenderState /\ s.streams = snd.streams \cup {m} /\ s.targets = snd.targets
      /\ s.late = snd.late /\ s.opened = snd.opened /\ s.streams \subseteq MemberId \ {source}
  BY <1>1 DEF SenderState, SenderTyped
<1>3. CASE Started
  <2>1. cast' = [cast EXCEPT !.commands = Append(@, Command("add", m))] /\ snd' = snd
    BY <1>3 DEF Attaches
  <2>2. CastTyped' /\ (Started' <=> Started) /\ cast'.pos = cast.pos
    BY <1>1, <2>1, CommandTyped
  <2>3. SenderTyped'
    BY <1>1, <2>1, <2>2 DEF SenderTyped
  <2>4. QED  BY <1>3, <2>1, <2>2, <2>3
<1>4. CASE ~Started /\ Ready(s)
  <2>1. cast' = StartedWith(s) /\ snd' = [s EXCEPT !.streams = {}]
    BY <1>4 DEF Attaches
  <2> HIDE DEF s
  <2>2. /\ CastTyped' /\ Receivers' = s.streams /\ cast'.initial = s.streams
        /\ cast'.task = "running" /\ cast'.commands = cast.commands /\ cast'.pos = cast.pos
        /\ \A k \in s.streams : cast'.receivers[k] = NewReceiver
    BY <1>1, <1>2, <2>1, StartedTyped
  <2>3. /\ snd' \in SenderState /\ snd'.streams = {} /\ snd'.targets = snd.targets
        /\ snd'.late = snd.late /\ snd'.opened = snd.opened
    BY <1>2, <2>1 DEF SenderState
  <2>4. SenderTyped'
    BY <1>1, <2>3 DEF SenderTyped
  <2>5. QED  BY <1>2, <1>4, <2>2, <2>3, <2>4
<1>5. CASE ~Started /\ ~Ready(s)
  <2>1. cast' = cast /\ snd' = s
    BY <1>5 DEF Attaches
  <2> HIDE DEF s
  <2>2. SenderTyped' /\ CastTyped'
    BY <1>1, <1>2, <2>1 DEF SenderTyped, CastTyped, Receivers, Started
  <2>3. QED  BY <1>2, <1>5, <2>1, <2>2
<1>6. QED  BY <1>3, <1>4, <1>5

LEMMA SourceTakesStreamTyped ==
  ASSUME Typed, SourceTakesStream
  PROVE  Typed'
<1> DEFINE m == Head(gate.arrivals)
<1>1. /\ gate' = [gate EXCEPT !.arrivals = Tail(@)] /\ gate.arrivals # <<>>
      /\ UNCHANGED <<source, old, up, host, deaf, toHost, flow, faults>>
      /\ \/ proc' = [proc EXCEPT ![source] = "failed"] /\ UNCHANGED <<snd, cast>>
         \/ m \in snd.targets /\ Attaches(m) /\ UNCHANGED proc
  BY DEF SourceTakesStream, SourceEnds
<1>2. gate' \in GateState
  <2>1. gate \in GateState /\ gate.arrivals \in Seq(ChannelId)
    BY DEF Typed, GateState
  <2>2. Tail(gate.arrivals) \in Seq(ChannelId)
    BY <1>1, <2>1, HeadAndTail
  <2>3. QED  BY <1>1, <2>1, <2>2 DEF GateState
<1>3. proc' \in [MemberId -> Outcome]
  BY <1>1 DEF Typed, Outcome
<1> HIDE DEF m
<1>4. SenderTyped' /\ CastTyped'
  BY <1>1, CastAndSenderKept, AttachCases
<1>5. QED  BY <1>1, <1>2, <1>3, <1>4 DEF Typed

LEMMA SourceCompletesTyped ==
  ASSUME Typed, SourceCompletes
  PROVE  Typed'
<1>1. /\ UNCHANGED <<source, old, up, deaf, snd, gate, cast, flow, faults>>
      /\ proc' = [proc EXCEPT ![source] = "ok"] \/ proc' = [proc EXCEPT ![source] = "failed"]
  <2>1. \E how \in {"ok", "failed"} : SourceEnds(how)
    <3>1. CASE IsSender(Host)
      BY <3>1 DEF SourceCompletes
    <3>2. CASE ~IsSender(Host)
      BY <3>2 DEF SourceCompletes
    <3>3. QED  BY <3>1, <3>2
  <2>2. QED  BY <2>1 DEF SourceCompletes, SourceEnds
<1>2. /\ SenderTyped /\ HostTyped(host) /\ toHost \in [Joiner -> Seq(Said)] /\ source \in MemberId
      /\ OpenChannelIds(snd) \in SUBSET ChannelId /\ IsFiniteSet(OpenChannelIds(snd))
  BY OpenIdsTyped, FS_Subset, Numbers DEF Typed
<1>3. proc' \in [MemberId -> Outcome]
  BY <1>1 DEF Typed, Outcome
<1>4. CASE IsSender(Host)
  <2>1. host' = [AllClosed(host, OpenChannelIds(snd)) EXCEPT !.failed = FALSE]
        /\ UNCHANGED toHost
    BY <1>4 DEF SourceCompletes
  <2>2. HostTyped(host')
    BY <1>2, <2>1, AllClosedTyped
  <2>3. QED  BY <1>1, <1>2, <1>3, <2>1, <2>2, CastAndSenderKept DEF Typed
<1>5. CASE ~IsSender(Host)
  <2> DEFINE ids == SetToSeq(OpenChannelIds(snd))
             closes == [i \in DOMAIN ids |-> [type |-> "close", on |-> ids[i], to |-> ToAll]]
  <2>1. UNCHANGED host /\ toHost' = [toHost EXCEPT ![source] = @ \o closes]
    BY <1>5 DEF SourceCompletes
  <2>2. ids \in Seq(OpenChannelIds(snd))
    BY <1>2, SomeOrder
  <2> HIDE DEF ids
  <2>3. closes \in Seq(Said)
    <3>1. \A i \in DOMAIN ids : ids[i] \in ChannelId
      BY <1>2, <2>2
    <3>2. \A i \in DOMAIN ids : closes[i] \in Said
      BY <3>1, Numbers DEF Said, Asking
    <3>3. DOMAIN ids = 1 .. Len(ids) /\ Len(ids) \in Nat
      BY <2>2
    <3>4. closes \in [1 .. Len(ids) -> Said]
      BY <3>2, <3>3
    <3> HIDE DEF closes
    <3>5. QED  BY <3>3, <3>4
  <2> HIDE DEF closes
  <2>4. toHost' \in [Joiner -> Seq(Said)]
    <3>1. source \in Joiner
      BY <1>2, <1>5 DEF IsSender, Joiner
    <3>2. toHost[source] \o closes \in Seq(Said)
      BY <1>2, <2>3, <3>1
    <3>3. QED  BY <1>2, <2>1, <3>1, <3>2
  <2>5. QED  BY <1>1, <1>2, <1>3, <2>1, <2>4, CastAndSenderKept DEF Typed
<1>6. QED  BY <1>4, <1>5

\* What is left of the streams when their source goes.
LEMMA CutStreamsCases ==
  ASSUME Typed, CutStreams
  PROVE  /\ flow' \in [MemberId -> Flow]
         /\ \A m \in MemberId :
              /\ flow'[m].stage = flow[m].stage /\ flow'[m].out = flow[m].out
              /\ flow'[m].grants = flow[m].grants /\ flow'[m].pending = flow[m].pending
              /\ \/ flow'[m] = flow[m] /\ flow[m].fin # "open"
                 \/ flow'[m].wire = flow[m].wire /\ flow'[m].fin = "lost" /\ flow[m].fin = "open"
                 \/ flow'[m].wire = <<>> /\ flow'[m].fin = "lost" /\ Running(m)
<1>1. PICK cut \in SUBSET {m \in MemberId : Running(m)} :
        flow' = [m \in MemberId |->
               IF m \in cut \/ flow[m].fin = "open"
               THEN [flow[m] EXCEPT !.fin = "lost", !.wire = IF m \in cut THEN <<>> ELSE @]
               ELSE flow[m]]
  BY DEF CutStreams
<1>2. flow \in [MemberId -> Flow]
  BY DEF Typed
<1>3. ASSUME NEW m \in MemberId
      PROVE  /\ flow'[m] \in Flow
             /\ flow'[m].stage = flow[m].stage /\ flow'[m].out = flow[m].out
             /\ flow'[m].grants = flow[m].grants /\ flow'[m].pending = flow[m].pending
             /\ \/ flow'[m] = flow[m] /\ flow[m].fin # "open"
                \/ flow'[m].wire = flow[m].wire /\ flow'[m].fin = "lost" /\ flow[m].fin = "open"
                \/ flow'[m].wire = <<>> /\ flow'[m].fin = "lost" /\ Running(m)
  <2>1. CASE m \in cut
    <3>1. flow'[m] = [flow[m] EXCEPT !.fin = "lost", !.wire = <<>>] /\ Running(m)
      BY <1>1, <2>1
    <3>2. <<>> \in ByteSeq
      BY DEF ByteSeq
    <3>3. /\ flow'[m] \in Flow /\ flow'[m].wire = <<>> /\ flow'[m].fin = "lost"
          /\ flow'[m].stage = flow[m].stage /\ flow'[m].out = flow[m].out
          /\ flow'[m].grants = flow[m].grants /\ flow'[m].pending = flow[m].pending
      BY <1>2, <3>1, <3>2 DEF Flow
    <3>4. QED  BY <3>1, <3>3
  <2>2. CASE m \notin cut /\ flow[m].fin = "open"
    <3>1. flow'[m] = [flow[m] EXCEPT !.fin = "lost", !.wire = flow[m].wire]
      BY <1>1, <2>2
    <3>2. QED  BY <1>2, <2>2, <3>1 DEF Flow
  <2>3. CASE m \notin cut /\ flow[m].fin # "open"
    BY <1>1, <1>2, <2>3
  <2>4. QED  BY <2>1, <2>2, <2>3
<1>4. flow' = [m \in MemberId |-> flow'[m]]
  BY <1>1
<1>5. QED  BY <1>3, <1>4

Nobodys == [m \in {} |-> NewReceiver]

LEMMA SourceIsGoneTyped ==
  ASSUME Typed, SourceIsGone, UNCHANGED <<source, snd>>
  PROVE  /\ gate' \in GateState /\ gate'.arrivals = <<>> /\ gate'.accepting = Nobody
         /\ CastTyped' /\ Receivers' = {} /\ cast'.commands = <<>> /\ (Started' <=> Started)
         /\ cast'.pos = cast.pos /\ cast'.initial = cast.initial
         /\ cast'.task = (IF Started THEN "over" ELSE "idle")
         /\ flow' \in [MemberId -> Flow] /\ SenderTyped' /\ up' = FALSE
<1> DEFINE task == IF Started THEN "over" ELSE "idle"
<1>1. CastTyped /\ cast \in CastState /\ SenderTyped
  BY DEF Typed, CastTyped
<1>2. cast' = [cast EXCEPT !.task = task, !.receivers = Nobodys, !.commands = <<>>]
  <2>1. CASE Started
    BY <1>1, <2>1 DEF SourceIsGone, Started, Nobodys, CastState
  <2>2. CASE ~Started
    BY <1>1, <2>2 DEF SourceIsGone, Started, Nobodys, CastState
  <2>3. QED  BY <2>1, <2>2
<1>3. Nobodys \in ReceiverMap /\ DOMAIN Nobodys = {}
  BY ReceiverMaps DEF Nobodys
<1>4. task \in {"idle", "over"} /\ (task = "idle" <=> ~Started)
  OBVIOUS
<1> HIDE DEF task
<1>5. <<>> \in Seq(TaskCommand)
  OBVIOUS
<1>6. /\ cast' \in CastState /\ cast'.task = task /\ cast'.receivers = Nobodys /\ cast'.commands = <<>>
      /\ cast'.pos = cast.pos /\ cast'.initial = cast.initial
  BY <1>1, <1>2, <1>3, <1>4, <1>5 DEF CastState
<1>7. CastTyped' /\ Receivers' = {} /\ (Started' <=> Started)
  BY <1>3, <1>4, <1>6 DEF CastTyped, Receivers, Started
<1>8. SenderTyped'
  BY <1>1, <1>7 DEF SenderTyped
<1>9. gate' \in GateState /\ gate'.arrivals = <<>> /\ gate'.accepting = Nobody
  BY Numbers DEF SourceIsGone, GateState
<1>10. flow' \in [MemberId -> Flow] /\ up' = FALSE
  BY CutStreamsCases DEF SourceIsGone
<1>11. cast'.task = (IF Started THEN "over" ELSE "idle")
  BY <1>6 DEF task
<1>12. QED  BY <1>6, <1>7, <1>8, <1>9, <1>10, <1>11

LEMMA EndsTyped ==
  ASSUME Typed, SourceExits \/ (\E m \in MemberId : Crash(m)) \/ HelloFails
  PROVE  Typed'
<1>1. source \in MemberId
  BY Numbers DEF Typed
<1>2. CASE SourceExits
  <2>1. SourceIsGone /\ UNCHANGED <<source, old, proc, host, deaf, snd, faults>>
    BY <1>2 DEF SourceExits
  <2>2. toHost' \in [Joiner -> Seq(Said)]
    <3>1. CASE IsSender(Host)
      BY <1>2, <3>1 DEF SourceExits, Typed
    <3>2. CASE ~IsSender(Host)
      <4>1. source \in Joiner /\ <<>> \in Seq(Said)
        BY <3>2, Numbers DEF Typed, Joiner, IsSender
      <4>2. QED  BY <1>2, <3>2, <4>1, EndsLinkTyped DEF SourceExits
    <3>3. QED  BY <3>1, <3>2
  <2>3. QED  BY <2>1, <2>2, SourceIsGoneTyped DEF Typed
<1>3. ASSUME NEW m \in MemberId, Crash(m) PROVE Typed'
  <2>1. UNCHANGED <<source, old, host, deaf, snd>> /\ proc' = [proc EXCEPT ![m] = "crashed"]
    BY <1>3 DEF Crash
  <2>2. toHost' \in [Joiner -> Seq(Said)]
    <3>1. CASE m = Host
      BY <1>3, <3>1 DEF Crash, Typed
    <3>2. CASE m # Host
      <4>1. m \in Joiner /\ <<>> \in Seq(Said)
        BY <3>2 DEF Joiner
      <4>2. QED  BY <1>3, <3>2, <4>1, EndsLinkTyped DEF Crash
    <3>3. QED  BY <3>1, <3>2
  <2>3. proc' \in [MemberId -> Outcome]
    BY <2>1 DEF Typed, Outcome
  <2>4. CASE IsSender(m)
    BY <1>3, <2>1, <2>2, <2>3, <2>4, SourceIsGoneTyped DEF Crash, Typed
  <2>5. CASE ~IsSender(m)
    BY <1>3, <2>1, <2>2, <2>3, <2>5, CastAndSenderKept DEF Crash, Typed
  <2>6. QED  BY <2>4, <2>5
<1>4. CASE HelloFails
  BY <1>4, CastAndSenderKept DEF HelloFails, Typed, Outcome
<1>5. QED  BY <1>2, <1>3, <1>4

LEMMA StreamStepTyped ==
  ASSUME Typed, NEW m \in MemberId, StreamStep(m)
  PROVE  Typed'
<1>1. flow \in [MemberId -> Flow] /\ flow[m] \in Flow
  BY DEF Typed
<1>2. CASE OpensCredit(m)
  <2>1. <<Window>> \in Seq(Nat)
    BY Numbers
  <2>2. [flow EXCEPT ![m].stage = "open", ![m].grants = <<Window>>] \in [MemberId -> Flow]
    BY <1>1, <2>1 DEF Flow
  <2>3. QED  BY <1>2, <2>2, CastAndSenderKept DEF OpensCredit, Typed
<1>3. CASE WritesOut(m)
  <2> DEFINE pending == flow[m].pending + 1
             out == Append(flow[m].out, Head(flow[m].wire))
             wire == Tail(flow[m].wire)
             owed == IF pending >= Grant THEN 0 ELSE pending
             grants == IF pending >= Grant THEN Append(flow[m].grants, pending) ELSE flow[m].grants
             f == [flow[m] EXCEPT !.out = out, !.wire = wire, !.pending = owed, !.grants = grants]
  <2>1. flow' = [flow EXCEPT ![m] = f]
    <3>1. flow' = [flow EXCEPT ![m].out = out, ![m].wire = Tail(@), ![m].pending = owed,
                               ![m].grants = IF pending >= Grant THEN Append(@, pending) ELSE @]
      BY <1>3 DEF WritesOut
    <3>2. QED  BY <1>1, <3>1 DEF Flow
  <2>2. flow[m].wire \in ByteSeq /\ flow[m].out \in ByteSeq /\ flow[m].pending \in Nat
        /\ flow[m].grants \in Seq(Nat) /\ flow[m].wire # <<>>
    BY <1>1, <1>3 DEF Flow, WritesOut
  <2>3. out \in ByteSeq /\ wire \in ByteSeq
    <3>1. flow[m].wire \in Seq(Byte) /\ flow[m].out \in Seq(Byte)
      BY <2>2 DEF ByteSeq, Byte
    <3>2. out \in Seq(Byte) /\ wire \in Seq(Byte)
      BY <2>2, <3>1, HeadAndTail, OneMore
    <3>3. QED  BY <3>2 DEF ByteSeq, Byte
  <2>4. owed \in Nat /\ grants \in Seq(Nat)
    BY <2>2, Numbers
  <2> HIDE DEF out, wire, owed, grants
  <2>5. f \in Flow
    BY <1>1, <2>3, <2>4 DEF Flow
  <2> HIDE DEF f
  <2>6. flow' \in [MemberId -> Flow]
    BY <1>1, <2>1, <2>5
  <2>7. QED  BY <1>3, <2>6, CastAndSenderKept DEF WritesOut, Typed
<1>4. CASE StreamIsOver(m)
  <2>1. \E how \in {"ok", "failed"} : StreamEnds(m, how)
    BY <1>4 DEF StreamIsOver
  <2>2. PICK how \in {"ok", "failed"} : StreamEnds(m, how)
    BY <2>1
  <2>3. proc' \in [MemberId -> Outcome]
    BY <2>2 DEF StreamEnds, Typed, Outcome
  <2>4. toHost' \in [Joiner -> Seq(Said)]
    <3>1. CASE m = Host
      BY <2>2, <3>1 DEF StreamEnds, Typed
    <3>2. CASE m # Host
      <4> DEFINE said == IF how = "ok" THEN <<[type |-> "leave"]>> ELSE <<>>
      <4>1. m \in Joiner /\ said \in Seq(Said)
        <5>1. [type |-> "leave"] \in Said
          BY DEF Said, Parting
        <5>2. <<[type |-> "leave"]>> \in Seq(Said) /\ <<>> \in Seq(Said)
          BY <5>1
        <5>3. QED  BY <3>2, <5>2 DEF Joiner
      <4>2. EndsLink(m, said)
        BY <2>2, <3>2 DEF StreamEnds
      <4>3. QED  BY <4>1, <4>2, EndsLinkTyped
    <3>3. QED  BY <3>1, <3>2
  <2>5. QED  BY <1>4, <2>3, <2>4, CastAndSenderKept DEF StreamIsOver, Typed
<1>5. QED  BY <1>2, <1>3, <1>4 DEF StreamStep

\* Another map of receivers for the task.
LEMMA ReceiversChange ==
  ASSUME CastTyped, NEW rs \in ReceiverMap, source \notin DOMAIN rs, NEW p \in 0 .. SourceLength,
         NEW cs \in Seq(TaskCommand), \A i \in DOMAIN cs : cs[i].of # source,
         cast' = [cast EXCEPT !.receivers = rs, !.pos = p, !.commands = cs], UNCHANGED source
  PROVE  /\ CastTyped' /\ Receivers' = DOMAIN rs /\ cast'.receivers = rs /\ cast'.pos = p
         /\ cast'.commands = cs /\ cast'.initial = cast.initial /\ cast'.task = cast.task
<1>1. /\ cast' \in CastState /\ cast'.receivers = rs /\ cast'.pos = p /\ cast'.commands = cs
      /\ cast'.initial = cast.initial /\ cast'.task = cast.task
  BY DEF CastTyped, CastState
<1>2. QED  BY <1>1 DEF CastTyped, Receivers

\* The receivers and what is written about them when a command is obeyed.
Obeyed(rs, c) == IF c.type = "add"
                 THEN [m \in DOMAIN rs \cup {c.of} |-> IF m = c.of THEN NewReceiver ELSE rs[m]]
                 ELSE Without(rs, {c.of})

LEMMA TaskObeysCases ==
  ASSUME Typed, TaskObeys
  PROVE  LET c == Head(cast.commands) IN
         /\ CastTyped' /\ c \in TaskCommand /\ c.of # source /\ cast.commands # <<>>
         /\ cast'.commands = Tail(cast.commands)
         /\ cast'.pos = cast.pos /\ cast'.initial = cast.initial /\ cast'.task = cast.task
         /\ cast.task = "running"
         /\ Receivers' = IF c.type = "add" THEN Receivers \cup {c.of} ELSE Receivers \ {c.of}
         /\ \A m \in Receivers' : IF c.type = "add" /\ m = c.of THEN cast'.receivers[m] = NewReceiver
                                  ELSE cast'.receivers[m] = cast.receivers[m]
<1> DEFINE c == Head(cast.commands)
           cs == Tail(cast.commands)
           rs == Obeyed(cast.receivers, c)
<1>1. /\ CastTyped /\ cast \in CastState /\ cast.commands \in Seq(TaskCommand) /\ cast.commands # <<>>
      /\ cast.receivers \in ReceiverMap /\ Receivers \subseteq MemberId /\ source \notin Receivers
      /\ \A m \in Receivers : cast.receivers[m] \in Receiver
      /\ cast.pos \in 0 .. SourceLength /\ cast.task = "running"
      /\ \A i \in DOMAIN cast.commands : cast.commands[i].of # source
  BY ReceiverMaps DEF Typed, CastTyped, CastState, TaskObeys, Receivers
<1>2. /\ c \in TaskCommand /\ c.of # source /\ cs \in Seq(TaskCommand)
      /\ \A i \in DOMAIN cs : cs[i].of # source
  BY <1>1, HeadAndTail
<1>3. /\ rs = [m \in DOMAIN rs |-> rs[m]]
      /\ DOMAIN rs = IF c.type = "add" THEN Receivers \cup {c.of} ELSE Receivers \ {c.of}
      /\ \A m \in DOMAIN rs : IF c.type = "add" /\ m = c.of THEN rs[m] = NewReceiver
                              ELSE m \in Receivers /\ rs[m] = cast.receivers[m]
  <2> HIDE DEF c
  <2>1. CASE c.type = "add"
    BY <2>1 DEF Obeyed, Receivers
  <2>2. CASE c.type # "add"
    BY <2>2 DEF Obeyed, Without, Receivers
  <2>3. QED  BY <2>1, <2>2
<1>4. cast' = [cast EXCEPT !.receivers = rs, !.pos = cast.pos, !.commands = cs]
  BY <1>1 DEF TaskObeys, Obeyed, CastState
<1> HIDE DEF cs, rs, c
<1>5. c.of \in MemberId /\ NewReceiver \in Receiver
  BY <1>2 DEF TaskCommand, NewReceiver, Receiver
<1>6. /\ DOMAIN rs \subseteq MemberId /\ source \notin DOMAIN rs
      /\ \A m \in DOMAIN rs : rs[m] \in Receiver
  BY <1>1, <1>2, <1>3, <1>5
<1>7. rs \in ReceiverMap
  BY <1>3, <1>6, ReceiverMaps
<1>8. UNCHANGED source
  BY DEF TaskObeys, TaskUnchanged
<1>9. /\ CastTyped' /\ Receivers' = DOMAIN rs /\ cast'.receivers = rs /\ cast'.pos = cast.pos
      /\ cast'.commands = cs /\ cast'.initial = cast.initial /\ cast'.task = cast.task
  BY <1>1, <1>2, <1>4, <1>6, <1>7, <1>8, ReceiversChange
<1>10. QED  BY <1>1, <1>2, <1>3, <1>9 DEF c, cs

\* The receiver the task waits for has granted, or is dropped.
LEMMA TaskGetsCreditCases ==
  ASSUME Typed, TaskGetsCredit
  PROVE  LET m == Awaited IN
         /\ CastTyped' /\ m \in Receivers /\ m \in MemberId
         /\ cast'.commands = cast.commands
         /\ cast'.pos = cast.pos /\ cast'.initial = cast.initial /\ cast'.task = cast.task
         /\ cast.task = "running"
         /\ \/ /\ flow[m].grants # <<>>
               /\ Receivers' = Receivers
               /\ cast'.receivers[m].credit = cast.receivers[m].credit + Head(flow[m].grants)
               /\ \A k \in Receivers \ {m} : cast'.receivers[k] = cast.receivers[k]
               /\ flow' = [flow EXCEPT ![m].grants = Tail(@)]
            \/ /\ Receivers' = Receivers \ {m} /\ UNCHANGED flow
               /\ \A k \in Receivers' : cast'.receivers[k] = cast.receivers[k]
<1> DEFINE m == Awaited
<1>1. /\ CastTyped /\ cast \in CastState /\ cast.commands \in Seq(TaskCommand)
      /\ cast.receivers \in ReceiverMap /\ Receivers \subseteq MemberId /\ source \notin Receivers
      /\ cast.receivers = [k \in Receivers |-> cast.receivers[k]]
      /\ \A k \in Receivers : cast.receivers[k] \in Receiver
      /\ cast.pos \in 0 .. SourceLength /\ cast.task = "running"
      /\ \A i \in DOMAIN cast.commands : cast.commands[i].of # source
      /\ flow \in [MemberId -> Flow]
  BY ReceiverMaps DEF Typed, CastTyped, CastState, TaskGetsCredit, Receivers
<1>2. m \in Receivers
  <2>1. Pending \subseteq Receivers /\ Blocked \subseteq Receivers /\ Pending \cup Blocked # {}
    BY DEF TaskGetsCredit, Pending, Blocked
  <2>2. Pending \subseteq Nat /\ Blocked \subseteq Nat
    BY <1>1, <2>1, Numbers
  <2>3. CASE Pending # {}
    BY <2>1, <2>2, <2>3, LeastOfNats DEF Awaited
  <2>4. CASE Pending = {}
    BY <2>1, <2>2, <2>4, LeastOfNats DEF Awaited
  <2>5. QED  BY <2>3, <2>4
<1>3. UNCHANGED source
  BY DEF TaskGetsCredit, TaskUnchanged
<1>4. CASE /\ flow[m].grants # <<>>
           /\ cast' = [cast EXCEPT !.receivers[m] =
                         [credit |-> @.credit + Head(flow[m].grants), active |-> TRUE]]
           /\ flow' = [flow EXCEPT ![m].grants = Tail(@)]
  <2> DEFINE r == [credit |-> cast.receivers[m].credit + Head(flow[m].grants), active |-> TRUE]
             rs == [cast.receivers EXCEPT ![m] = r]
  <2> HIDE DEF m
  <2>1. Head(flow[m].grants) \in Nat
    <3>1. flow[m].grants \in Seq(Nat)
      BY <1>1, <1>2 DEF Flow
    <3>2. QED  BY <1>4, <3>1, HeadAndTail
  <2>2. r \in Receiver
    BY <1>1, <1>2, <2>1 DEF Receiver
  <2>3. cast' = [cast EXCEPT !.receivers = rs, !.pos = cast.pos, !.commands = cast.commands]
    BY <1>1, <1>4 DEF CastState
  <2>4. r.credit = cast.receivers[m].credit + Head(flow[m].grants)
    OBVIOUS
  <2> HIDE DEF r
  <2>5. /\ DOMAIN rs = Receivers /\ rs[m] = r /\ rs = [k \in DOMAIN rs |-> rs[k]]
        /\ \A k \in Receivers \ {m} : rs[k] = cast.receivers[k]
    BY <1>1, <1>2 DEF Receivers
  <2> HIDE DEF rs
  <2>6. \A k \in DOMAIN rs : rs[k] \in Receiver
    BY <1>1, <2>2, <2>5
  <2>7. rs \in ReceiverMap
    BY <1>1, <2>5, <2>6, ReceiverMaps
  <2>8. /\ CastTyped' /\ Receivers' = DOMAIN rs /\ cast'.receivers = rs /\ cast'.pos = cast.pos
        /\ cast'.commands = cast.commands /\ cast'.initial = cast.initial /\ cast'.task = cast.task
    BY <1>1, <1>3, <2>3, <2>5, <2>7, ReceiversChange
  <2>9. QED  BY <1>1, <1>2, <1>4, <2>4, <2>5, <2>8 DEF m
<1>5. CASE /\ cast' = [cast EXCEPT !.receivers = Without(@, {m})]
           /\ UNCHANGED flow
  <2> DEFINE rs == Without(cast.receivers, {m})
  <2> HIDE DEF m
  <2>1. /\ DOMAIN rs = Receivers \ {m} /\ rs = [k \in DOMAIN rs |-> rs[k]]
        /\ \A k \in DOMAIN rs : rs[k] = cast.receivers[k]
    BY DEF Without, Receivers
  <2>2. cast' = [cast EXCEPT !.receivers = rs, !.pos = cast.pos, !.commands = cast.commands]
    BY <1>1, <1>5 DEF CastState
  <2> HIDE DEF rs
  <2>3. rs \in ReceiverMap
    BY <1>1, <2>1, ReceiverMaps
  <2>4. /\ CastTyped' /\ Receivers' = DOMAIN rs /\ cast'.receivers = rs /\ cast'.pos = cast.pos
        /\ cast'.commands = cast.commands /\ cast'.initial = cast.initial /\ cast'.task = cast.task
    BY <1>1, <1>3, <2>1, <2>2, <2>3, ReceiversChange
  <2>5. QED  BY <1>1, <1>2, <1>5, <2>1, <2>4 DEF m
<1>6. QED  BY <1>4, <1>5 DEF TaskGetsCredit

\* The receivers after a round in which n bytes were sent and some were lost.
Served(rs, lost, n) ==
  [m \in DOMAIN rs \ lost |-> [credit |-> rs[m].credit - n, active |-> rs[m].active]]

LEMMA SeqOfFunction ==
  ASSUME NEW S, NEW n \in Nat, NEW f \in [1 .. n -> S]
  PROVE  f \in Seq(S) /\ Len(f) = n
OBVIOUS

LEMMA BytesTyped ==
  ASSUME NEW p \in 0 .. SourceLength, NEW n \in Nat \ {0}, p + n <= SourceLength
  PROVE  /\ Bytes(p, n) \in ByteSeq /\ Len(Bytes(p, n)) = n /\ DOMAIN Bytes(p, n) = 1 .. n
         /\ \A i \in 1 .. n : Bytes(p, n)[i] = p + i
<1>1. SourceLength \in Nat /\ p \in Nat
  BY Numbers
<1>2. \A i \in 1 .. n : p + i \in 1 .. SourceLength
  BY <1>1
<1>3. Bytes(p, n) \in [1 .. n -> Byte]
  BY <1>2 DEF Bytes, Byte
<1>4. Bytes(p, n) \in ByteSeq
  BY <1>3, SeqOfFunction DEF ByteSeq, Byte
<1>5. DOMAIN Bytes(p, n) = 1 .. n
  BY DEF Bytes
<1>6. QED  BY <1>3, <1>4, <1>5 DEF Bytes

LEMMA Concatenated ==
  ASSUME NEW S, NEW s \in Seq(S), NEW t \in Seq(S), NEW u, u = s \o t
  PROVE  /\ u \in Seq(S) /\ Len(u) = Len(s) + Len(t) /\ Len(s) \in Nat /\ Len(t) \in Nat
         /\ DOMAIN s = 1 .. Len(s) /\ DOMAIN t = 1 .. Len(t) /\ DOMAIN u = 1 .. Len(u)
         /\ \A i \in 1 .. Len(s) : u[i] = s[i]
         /\ \A i \in 1 .. Len(t) : u[Len(s) + i] = t[i]
OBVIOUS

\* One round of the broadcast.
LEMMA TaskCopiesCases ==
  ASSUME Typed, TaskCopies
  PROVE  \E n \in Nat \ {0} :
           /\ CastTyped' /\ flow' \in [MemberId -> Flow]
           /\ cast'.commands = cast.commands
           /\ cast'.initial = cast.initial /\ cast'.task = cast.task
           /\ cast.task = "running"
           /\ cast'.pos = cast.pos + n /\ cast.pos + n <= SourceLength
           /\ Receivers' \subseteq Receivers
           /\ \A m \in Receivers : Running(m) => m \in Receivers'
           /\ \A m \in Receivers : n <= cast.receivers[m].credit
           /\ \A m \in Receivers' : cast'.receivers[m].credit = cast.receivers[m].credit - n
           /\ \A m \in MemberId :
                /\ flow'[m].stage = flow[m].stage /\ flow'[m].out = flow[m].out
                /\ flow'[m].grants = flow[m].grants /\ flow'[m].pending = flow[m].pending
                /\ flow'[m].fin = flow[m].fin
                /\ flow'[m].wire = IF m \in Receivers' /\ Running(m)
                                   THEN flow[m].wire \o Bytes(cast.pos, n) ELSE flow[m].wire
<1>1. /\ CastTyped /\ cast \in CastState /\ cast.commands \in Seq(TaskCommand)
      /\ cast.receivers \in ReceiverMap /\ Receivers \subseteq MemberId /\ source \notin Receivers
      /\ cast.receivers = [k \in Receivers |-> cast.receivers[k]]
      /\ \A k \in Receivers : cast.receivers[k] \in Receiver
      /\ cast.pos \in 0 .. SourceLength /\ cast.task = "running"
      /\ \A i \in DOMAIN cast.commands : cast.commands[i].of # source
      /\ flow \in [MemberId -> Flow] /\ UNCHANGED source
  BY ReceiverMaps DEF Typed, CastTyped, CastState, TaskCopies, TaskUnchanged, Receivers
<1>2. PICK n \in 1 .. Chunk, lost \in SUBSET {m \in Receivers : Gone(m)} :
        /\ n <= ChunkLimit /\ cast.pos + n <= SourceLength
        /\ cast' = [cast EXCEPT
            !.pos = @ + n,
            !.receivers = [m \in DOMAIN @ \ lost |->
                             [credit |-> @[m].credit - n, active |-> @[m].active]]]
        /\ flow' = [m \in MemberId |->
            IF m \in Receivers \ lost /\ Running(m)
            THEN [flow[m] EXCEPT !.wire = @ \o Bytes(cast.pos, n)] ELSE flow[m]]
  BY DEF TaskCopies
<1>3. n \in Nat \ {0}
  BY Numbers
<1>4. \A m \in Receivers : n <= cast.receivers[m].credit
  <2> DEFINE S == {cast.receivers[m].credit : m \in Receivers} \cup {Chunk}
  <2>1. \A m \in Receivers : cast.receivers[m].credit \in Nat
    BY <1>1 DEF Receiver
  <2>2. S \subseteq Nat /\ S # {}
    BY <2>1, Numbers
  <2>3. ChunkLimit = Min(S)
    BY DEF ChunkLimit
  <2>4. \A m \in Receivers : cast.receivers[m].credit \in S
    OBVIOUS
  <2> HIDE DEF S
  <2>5. ChunkLimit \in Nat /\ \A x \in S : ChunkLimit <= x
    BY <2>2, <2>3, LeastOfNats
  <2>6. QED  BY <1>2, <1>3, <2>1, <2>4, <2>5
<1> DEFINE rs == Served(cast.receivers, lost, n)
           p == cast.pos + n
<1>5. /\ DOMAIN rs = Receivers \ lost /\ rs = [m \in DOMAIN rs |-> rs[m]]
      /\ \A m \in DOMAIN rs : rs[m] = [credit |-> cast.receivers[m].credit - n,
                                       active |-> cast.receivers[m].active]
  BY DEF Served, Receivers
<1>6. cast' = [cast EXCEPT !.receivers = rs, !.pos = p, !.commands = cast.commands]
  BY <1>1, <1>2 DEF Served, CastState
<1> HIDE DEF rs
<1>7. p \in 0 .. SourceLength
  BY <1>1, <1>2, <1>3, Numbers
<1> HIDE DEF p
<1>8. \A m \in DOMAIN rs : rs[m] \in Receiver
  <2> SUFFICES ASSUME NEW m \in DOMAIN rs PROVE rs[m] \in Receiver
    OBVIOUS
  <2>1. cast.receivers[m] \in Receiver /\ n <= cast.receivers[m].credit
    BY <1>1, <1>4, <1>5
  <2>2. cast.receivers[m].credit - n \in Nat
    BY <1>3, <2>1 DEF Receiver
  <2>3. cast.receivers[m].active \in BOOLEAN
    BY <2>1 DEF Receiver
  <2>4. QED  BY <1>5, <2>2, <2>3 DEF Receiver
<1>9. rs \in ReceiverMap /\ source \notin DOMAIN rs
  BY <1>1, <1>5, <1>8, ReceiverMaps
<1>10. /\ CastTyped' /\ Receivers' = DOMAIN rs /\ cast'.receivers = rs /\ cast'.pos = p
       /\ cast'.commands = cast.commands /\ cast'.initial = cast.initial /\ cast'.task = cast.task
  BY <1>1, <1>6, <1>7, <1>9, ReceiversChange
<1>11. ASSUME NEW m \in MemberId
       PROVE  /\ flow'[m] \in Flow
              /\ flow'[m].stage = flow[m].stage /\ flow'[m].out = flow[m].out
              /\ flow'[m].grants = flow[m].grants /\ flow'[m].pending = flow[m].pending
              /\ flow'[m].fin = flow[m].fin
              /\ flow'[m].wire = IF m \in Receivers' /\ Running(m)
                                 THEN flow[m].wire \o Bytes(cast.pos, n) ELSE flow[m].wire
  <2>1. flow[m] \in Flow
    BY <1>1
  <2>2. CASE m \in Receivers' /\ Running(m)
    <3> DEFINE w == flow[m].wire \o Bytes(cast.pos, n)
    <3>1. flow'[m] = [flow[m] EXCEPT !.wire = w]
      BY <1>2, <1>5, <1>10, <2>2
    <3>2. w \in ByteSeq
      <4>1. flow[m].wire \in Seq(Byte) /\ Bytes(cast.pos, n) \in Seq(Byte)
        BY <1>1, <1>2, <1>3, <2>1, BytesTyped DEF Flow, ByteSeq, Byte
      <4>2. w \in Seq(Byte)
        BY <4>1, Concatenated
      <4>3. QED  BY <4>2 DEF ByteSeq, Byte
    <3>3. w = flow[m].wire \o Bytes(cast.pos, n)
      OBVIOUS
    <3> HIDE DEF w
    <3>4. /\ flow'[m] \in Flow /\ flow'[m].wire = w
          /\ flow'[m].stage = flow[m].stage /\ flow'[m].out = flow[m].out
          /\ flow'[m].grants = flow[m].grants /\ flow'[m].pending = flow[m].pending
          /\ flow'[m].fin = flow[m].fin
      BY <2>1, <3>1, <3>2 DEF Flow
    <3>5. QED  BY <2>2, <3>3, <3>4
  <2>3. CASE ~ (m \in Receivers' /\ Running(m))
    <3>1. flow'[m] = flow[m]
      BY <1>2, <1>5, <1>10, <2>3
    <3>2. QED  BY <2>1, <2>3, <3>1
  <2>4. QED  BY <2>2, <2>3
<1>12. flow' \in [MemberId -> Flow]
  <2>1. flow' = [m \in MemberId |-> flow'[m]]
    BY <1>2
  <2>2. QED  BY <1>11, <2>1
<1>13. \A m \in Receivers : Running(m) => m \in Receivers'
  BY <1>2, <1>5, <1>10 DEF Running, Gone
<1>14. \A m \in Receivers' : cast'.receivers[m].credit = cast.receivers[m].credit - n
  BY <1>5, <1>10
<1>15. Receivers' \subseteq Receivers
  BY <1>5, <1>10
<1>16. QED
  BY <1>1, <1>2, <1>3, <1>4, <1>10, <1>11, <1>12, <1>13, <1>14, <1>15 DEF p

\* The task comes to its end.
LEMMA TaskEndsCases ==
  ASSUME Typed, TaskIsLeft \/ TaskReadsEnd \/ TaskFinishes
  PROVE  /\ CastTyped' /\ flow' \in [MemberId -> Flow]
         /\ cast'.commands = cast.commands /\ cast'.pos = cast.pos /\ Receivers' = Receivers
         /\ cast'.initial = cast.initial /\ cast'.receivers = cast.receivers
         /\ \/ /\ cast'.task = "finishing" /\ cast.task = "running" /\ UNCHANGED flow
               /\ ~Running(source) \/ cast.pos = SourceLength
            \/ cast'.task = "over" /\ cast.task = "finishing" /\ UNCHANGED flow
            \/ /\ UNCHANGED cast /\ cast.task = "finishing"
               /\ \E m \in Receivers : flow' = [flow EXCEPT ![m].fin = "finished"] /\ flow[m].fin = "open"
<1>1. CastTyped /\ cast \in CastState /\ flow \in [MemberId -> Flow] /\ UNCHANGED source
      /\ Receivers \subseteq MemberId
  BY ReceiverMaps DEF Typed, CastTyped, CastState, TaskIsLeft, TaskReadsEnd, TaskFinishes, TaskUnchanged, Receivers
<1>2. ASSUME NEW t \in {"finishing", "over"}, cast' = [cast EXCEPT !.task = t]
      PROVE  /\ CastTyped' /\ cast'.task = t /\ cast'.receivers = cast.receivers
             /\ cast'.commands = cast.commands /\ cast'.pos = cast.pos /\ Receivers' = Receivers
             /\ cast'.initial = cast.initial
  <2>1. /\ cast' \in CastState /\ cast'.task = t /\ cast'.receivers = cast.receivers
        /\ cast'.commands = cast.commands /\ cast'.pos = cast.pos
        /\ cast'.initial = cast.initial
    BY <1>1, <1>2 DEF CastState
  <2>2. QED  BY <1>1, <2>1 DEF CastTyped, Receivers
<1>3. CASE TaskIsLeft
  BY <1>1, <1>2, <1>3 DEF TaskIsLeft
<1>4. CASE TaskReadsEnd
  BY <1>1, <1>2, <1>4 DEF TaskReadsEnd
<1>5. CASE TaskFinishes /\ Unfinished = {}
  BY <1>1, <1>2, <1>5 DEF TaskFinishes
<1>6. CASE TaskFinishes /\ Unfinished # {}
  <2> DEFINE m == Min(Unfinished)
  <2>1. m \in Receivers /\ flow[m].fin = "open"
    <3>1. Unfinished \subseteq Nat
      BY <1>1, Numbers DEF Unfinished
    <3>2. m \in Unfinished
      BY <1>6, <3>1, LeastOfNats
    <3> HIDE DEF m
    <3>3. QED  BY <3>2 DEF Unfinished
  <2>2. flow' = [flow EXCEPT ![m].fin = "finished"] /\ UNCHANGED cast /\ cast.task = "finishing"
    BY <1>6 DEF TaskFinishes
  <2> HIDE DEF m
  <2>3. flow' \in [MemberId -> Flow]
    BY <1>1, <2>1, <2>2 DEF Flow
  <2>4. CastTyped' /\ Receivers' = Receivers
    BY <1>1, <2>2 DEF CastTyped, Receivers
  <2>5. QED  BY <2>1, <2>2, <2>3, <2>4
<1>7. QED  BY <1>3, <1>4, <1>5, <1>6

LEMMA TaskStepTyped ==
  ASSUME Typed, TaskStep
  PROVE  Typed'
<1>1. TaskUnchanged
  BY DEF TaskStep, TaskObeys, TaskIsLeft, TaskGetsCredit, TaskCopies, TaskReadsEnd, TaskFinishes
<1>2. CastTyped' /\ flow' \in [MemberId -> Flow] /\ cast'.task # "idle"
  <2>1. CASE TaskObeys
    <3>1. UNCHANGED flow
      BY <2>1 DEF TaskObeys
    <3>2. QED  BY <2>1, <3>1, TaskObeysCases DEF Typed
  <2>2. CASE TaskGetsCredit
    <3>1. Awaited \in MemberId /\ CastTyped' /\ cast'.task = "running"
      BY <2>2, TaskGetsCreditCases
    <3>2. flow' \in [MemberId -> Flow]
      <4> DEFINE m == Awaited
      <4>1. UNCHANGED flow \/ (flow[m].grants # <<>> /\ flow' = [flow EXCEPT ![m].grants = Tail(@)])
        BY <2>2, TaskGetsCreditCases
      <4> HIDE DEF m
      <4>2. m \in MemberId /\ flow \in [MemberId -> Flow] /\ flow[m].grants \in Seq(Nat)
        BY <3>1 DEF m, Typed, Flow
      <4>3. flow[m].grants # <<>> => Tail(flow[m].grants) \in Seq(Nat)
        BY <4>2, HeadAndTail
      <4>4. QED  BY <4>1, <4>2, <4>3 DEF Flow
    <3>3. QED  BY <3>1, <3>2
  <2>3. CASE TaskCopies
    BY <2>3, TaskCopiesCases
  <2>4. CASE TaskIsLeft \/ TaskReadsEnd \/ TaskFinishes
    BY <2>4, TaskEndsCases
  <2>5. QED  BY <2>1, <2>2, <2>3, <2>4 DEF TaskStep
<1>3. cast.task # "idle"
  BY DEF TaskStep, TaskObeys, TaskIsLeft, TaskGetsCredit, TaskCopies, TaskReadsEnd, TaskFinishes
<1>4. SenderTyped'
  BY <1>1, <1>2, <1>3 DEF Typed, SenderTyped, Started, TaskUnchanged
<1>5. QED  BY <1>1, <1>2, <1>4 DEF Typed, TaskUnchanged

LEMMA StepTyped ==
  ASSUME Typed, [PipeNext]_pipeVars
  PROVE  Typed'
<1>1. CASE UNCHANGED pipeVars
  BY <1>1, CastAndSenderKept DEF pipeVars, Typed
<1>2. CASE HostAccepts \/ HostStep
  BY <1>2, HostAcceptsTyped, HostHandlesCommandTyped DEF HostStep
<1>3. ASSUME NEW j \in Joiner, JoinerStep(j) \/ WriterFails(j) PROVE Typed'
  BY <1>3, ReceiverReadsTyped, SenderReadsTyped, JoinerSeesHostEndTyped, WriterFailsTyped DEF JoinerStep
<1>4. CASE GateStep
  BY <1>4, GateTyped DEF GateStep
<1>5. CASE SourceStep
  BY <1>5, SourceTakesStreamTyped, SourceCompletesTyped, EndsTyped DEF SourceStep
<1>6. CASE TaskStep
  BY <1>6, TaskStepTyped
<1>7. ASSUME NEW m \in MemberId, StreamStep(m) \/ Crash(m) PROVE Typed'
  BY <1>7, StreamStepTyped, EndsTyped
<1>8. CASE HelloFails
  BY <1>8, EndsTyped
<1>9. QED  BY <1>1, <1>2, <1>3, <1>4, <1>5, <1>6, <1>7, <1>8 DEF PipeNext

LEMMA AlwaysTyped == PipeSpec => []Typed
BY InitTyped, StepTyped, PTL DEF PipeSpec

\* A stream of which one part changes.
LEMMA StageSet ==
  ASSUME flow \in [MemberId -> Flow], NEW m \in MemberId, NEW x,
         flow' = [flow EXCEPT ![m].stage = x]
  PROVE  /\ \A k \in MemberId \ {m} : flow'[k] = flow[k]
         /\ flow'[m].stage = x /\ flow'[m].out = flow[m].out /\ flow'[m].wire = flow[m].wire
         /\ flow'[m].fin = flow[m].fin /\ flow'[m].grants = flow[m].grants
         /\ flow'[m].pending = flow[m].pending
<1>1. flow'[m] = [flow[m] EXCEPT !.stage = x] /\ flow[m] \in Flow
  OBVIOUS
<1>2. \A k \in MemberId \ {m} : flow'[k] = flow[k]
  OBVIOUS
<1>3. QED  BY <1>1, <1>2 DEF Flow

LEMMA FinSet ==
  ASSUME flow \in [MemberId -> Flow], NEW m \in MemberId, NEW x,
         flow' = [flow EXCEPT ![m].fin = x]
  PROVE  /\ \A k \in MemberId \ {m} : flow'[k] = flow[k]
         /\ flow'[m].stage = flow[m].stage /\ flow'[m].out = flow[m].out
         /\ flow'[m].wire = flow[m].wire /\ flow'[m].fin = x
         /\ flow'[m].grants = flow[m].grants /\ flow'[m].pending = flow[m].pending
<1>1. flow'[m] = [flow[m] EXCEPT !.fin = x] /\ flow[m] \in Flow
  OBVIOUS
<1>2. \A k \in MemberId \ {m} : flow'[k] = flow[k]
  OBVIOUS
<1>3. QED  BY <1>1, <1>2 DEF Flow

LEMMA GrantTaken ==
  ASSUME flow \in [MemberId -> Flow], NEW m \in MemberId,
         flow' = [flow EXCEPT ![m].grants = Tail(@)]
  PROVE  /\ \A k \in MemberId \ {m} : flow'[k] = flow[k]
         /\ flow'[m].stage = flow[m].stage /\ flow'[m].out = flow[m].out
         /\ flow'[m].wire = flow[m].wire /\ flow'[m].fin = flow[m].fin
         /\ flow'[m].grants = Tail(flow[m].grants) /\ flow'[m].pending = flow[m].pending
<1> DEFINE g == Tail(flow[m].grants)
<1>1. flow'[m] = [flow[m] EXCEPT !.grants = g] /\ flow[m] \in Flow
  OBVIOUS
<1>2. \A k \in MemberId \ {m} : flow'[k] = flow[k]
  OBVIOUS
<1> HIDE DEF g
<1>3. /\ flow'[m].stage = flow[m].stage /\ flow'[m].out = flow[m].out
      /\ flow'[m].wire = flow[m].wire /\ flow'[m].fin = flow[m].fin
      /\ flow'[m].grants = g /\ flow'[m].pending = flow[m].pending
  BY <1>1 DEF Flow
<1>4. QED  BY <1>2, <1>3 DEF g

LEMMA CreditOpened ==
  ASSUME flow \in [MemberId -> Flow], NEW m \in MemberId, OpensCredit(m)
  PROVE  /\ flow[m].stage = "answered"
         /\ \A k \in MemberId \ {m} : flow'[k] = flow[k]
         /\ flow'[m].stage = "open" /\ flow'[m].out = flow[m].out
         /\ flow'[m].wire = flow[m].wire /\ flow'[m].fin = flow[m].fin
         /\ flow'[m].grants = <<Window>> /\ flow'[m].pending = flow[m].pending
<1>1. flow[m].stage = "answered"
      /\ flow' = [flow EXCEPT ![m].stage = "open", ![m].grants = <<Window>>]
  BY DEF OpensCredit
<1> DEFINE g == <<Window>>
<1>2. flow'[m] = [flow[m] EXCEPT !.stage = "open", !.grants = g] /\ flow[m] \in Flow
  BY <1>1
<1>3. \A k \in MemberId \ {m} : flow'[k] = flow[k]
  BY <1>1
<1> HIDE DEF g
<1>4. /\ flow'[m].stage = "open" /\ flow'[m].out = flow[m].out
      /\ flow'[m].wire = flow[m].wire /\ flow'[m].fin = flow[m].fin
      /\ flow'[m].grants = g /\ flow'[m].pending = flow[m].pending
  BY <1>2 DEF Flow
<1>5. QED  BY <1>1, <1>3, <1>4 DEF g

LEMMA WritesOutCases ==
  ASSUME flow \in [MemberId -> Flow], NEW m \in MemberId, WritesOut(m)
  PROVE  /\ flow[m].stage = "open" /\ flow[m].wire # <<>> /\ Running(m)
         /\ \A k \in MemberId \ {m} : flow'[k] = flow[k]
         /\ flow'[m].stage = "open" /\ flow'[m].fin = flow[m].fin
         /\ flow'[m].out = Append(flow[m].out, Head(flow[m].wire))
         /\ flow'[m].wire = Tail(flow[m].wire)
         /\ \/ /\ flow[m].pending + 1 >= Grant /\ flow'[m].pending = 0
               /\ flow'[m].grants = Append(flow[m].grants, flow[m].pending + 1)
            \/ /\ ~(flow[m].pending + 1 >= Grant) /\ flow'[m].pending = flow[m].pending + 1
               /\ flow'[m].grants = flow[m].grants
<1> DEFINE pending == flow[m].pending + 1
           out == Append(flow[m].out, Head(flow[m].wire))
           wire == Tail(flow[m].wire)
           owed == IF pending >= Grant THEN 0 ELSE pending
           grants == IF pending >= Grant THEN Append(flow[m].grants, pending) ELSE flow[m].grants
<1>1. flow[m].stage = "open" /\ flow[m].wire # <<>> /\ Running(m) /\ flow[m] \in Flow
  BY DEF WritesOut
<1>2. /\ flow'[m] = [flow[m] EXCEPT !.out = out, !.wire = wire, !.pending = owed, !.grants = grants]
      /\ \A k \in MemberId \ {m} : flow'[k] = flow[k]
  BY DEF WritesOut
<1>3. \/ pending >= Grant /\ owed = 0 /\ grants = Append(flow[m].grants, pending)
      \/ ~(pending >= Grant) /\ owed = pending /\ grants = flow[m].grants
  OBVIOUS
<1> HIDE DEF out, wire, owed, grants, pending
<1>4. /\ flow'[m].stage = flow[m].stage /\ flow'[m].fin = flow[m].fin
      /\ flow'[m].out = out /\ flow'[m].wire = wire
      /\ flow'[m].pending = owed /\ flow'[m].grants = grants
  BY <1>1, <1>2 DEF Flow
<1>5. QED  BY <1>1, <1>2, <1>3, <1>4 DEF out, wire, pending

-----------------------------------------------------------------------------
(* The host is offered the pipe once.                                      *)

LEMMA OffersOfTail ==
  ASSUME NEW q \in Seq(Said), q # <<>>, NEW t, t = Tail(q)
  PROVE  /\ OneOfferAtMost(q) => OneOfferAtMost(t)
         /\ NoOffer(q) => NoOffer(t)
         /\ OneOfferAtMost(q) /\ OffersHost(Head(q)) => NoOffer(t)
<1>1. /\ Head(q) = q[1] /\ 1 \in DOMAIN q /\ t \in Seq(Said)
      /\ \A i \in DOMAIN t : t[i] = q[i + 1] /\ i + 1 \in DOMAIN q
  BY HeadAndTail
<1>2. \A i \in DOMAIN t : i \in Nat \ {0}
  BY <1>1
<1>3. \A i, k \in DOMAIN t : i + 1 = k + 1 => i = k
  BY <1>2
<1>4. \A i \in DOMAIN t : i + 1 # 1
  BY <1>2
<1>5. QED  BY <1>1, <1>3, <1>4 DEF OneOfferAtMost, NoOffer

LEMMA OffersOfAppend ==
  ASSUME NEW q \in Seq(Said), NEW e \in Said, NEW t, t = Append(q, e)
  PROVE  /\ OneOfferAtMost(q) /\ ~OffersHost(e) => OneOfferAtMost(t)
         /\ NoOffer(q) /\ ~OffersHost(e) => NoOffer(t)
         /\ NoOffer(q) => OneOfferAtMost(t)
<1>1. \A i \in DOMAIN t : (i = Len(q) + 1 /\ t[i] = e) \/ (i \in DOMAIN q /\ t[i] = q[i])
  BY OneMore
<1>2. QED  BY <1>1 DEF OneOfferAtMost, NoOffer

LEMMA OffersOfConcat ==
  ASSUME NEW q \in Seq(Said), NEW p \in Seq(Said), NoOffer(p), NEW t, t = q \o p
  PROVE  /\ OneOfferAtMost(q) => OneOfferAtMost(t)
         /\ NoOffer(q) => NoOffer(t)
<1>1. /\ DOMAIN q = 1 .. Len(q) /\ DOMAIN p = 1 .. Len(p) /\ DOMAIN t = 1 .. Len(q) + Len(p)
      /\ \A i \in 1 .. Len(q) : t[i] = q[i]
      /\ \A i \in 1 .. Len(p) : t[Len(q) + i] = p[i]
      /\ Len(q) \in Nat /\ Len(p) \in Nat
  BY Concatenated
<1>2. ASSUME NEW i \in DOMAIN t
      PROVE  (i \in DOMAIN q /\ t[i] = q[i]) \/ ~OffersHost(t[i])
  <2>1. CASE i \in 1 .. Len(q)
    BY <1>1, <2>1
  <2>2. CASE i \notin 1 .. Len(q)
    <3>1. i - Len(q) \in 1 .. Len(p) /\ Len(q) + (i - Len(q)) = i
      BY <1>1, <1>2, <2>2
    <3>2. t[i] = p[i - Len(q)]
      BY <1>1, <3>1
    <3>3. QED  BY <1>1, <3>1, <3>2 DEF NoOffer
  <2>3. QED  BY <2>1, <2>2
<1>3. QED  BY <1>2 DEF OneOfferAtMost, NoOffer

NoNewOffer(before, after) ==
  \A j \in Joiner : /\ OneOfferAtMost(before[j]) => OneOfferAtMost(after[j])
                    /\ NoOffer(before[j]) => NoOffer(after[j])

LEMMA EndsLinkOffers ==
  ASSUME Typed, NEW j \in Joiner, NEW said \in Seq(Said), NoOffer(said), EndsLink(j, said)
  PROVE  NoNewOffer(toHost, toHost')
<1> DEFINE all == toHost[j] \o said
           end == <<[type |-> "end"]>>
<1>1. toHost \in [Joiner -> Seq(Said)] /\ toHost[j] \in Seq(Said)
  BY DEF Typed
<1>2. CASE ~Running(Host)
  BY <1>2 DEF EndsLink, NoNewOffer
<1>3. CASE Running(Host)
  <2>1. [type |-> "end"] \in Said /\ ~OffersHost([type |-> "end"])
    BY DEF Said, Parting, OffersHost
  <2>2. end \in Seq(Said) /\ NoOffer(end) /\ <<>> \in Seq(Said) /\ NoOffer(<<>>)
    BY <2>1 DEF NoOffer
  <2>3. PICK kept \in {<<>>, all} : toHost' = [toHost EXCEPT ![j] = kept \o end]
    BY <1>3 DEF EndsLink
  <2>4. /\ all \in Seq(Said)
        /\ OneOfferAtMost(toHost[j]) => OneOfferAtMost(all)
        /\ NoOffer(toHost[j]) => NoOffer(all)
    BY <1>1, Concatenated, OffersOfConcat
  <2> HIDE DEF all, end
  <2>5. /\ kept \in Seq(Said)
        /\ OneOfferAtMost(toHost[j]) => OneOfferAtMost(kept)
        /\ NoOffer(toHost[j]) => NoOffer(kept)
    BY <2>2, <2>4 DEF NoOffer, OneOfferAtMost
  <2>6. /\ OneOfferAtMost(kept) => OneOfferAtMost(kept \o end)
        /\ NoOffer(kept) => NoOffer(kept \o end)
    BY <2>2, <2>5, OffersOfConcat
  <2>7. QED  BY <1>1, <2>3, <2>5, <2>6 DEF NoNewOffer
<1>4. QED  BY <1>2, <1>3

\* Steps that offer nothing, and in which neither host nor source dials.
LEMMA OneOfferKept ==
  ASSUME OneOffer, UNCHANGED source, snd.opened => snd'.opened,
         flow'[Host].stage = "none" <=> flow[Host].stage = "none",
         flow'[source].stage = "none",
         NoNewOffer(toHost, toHost')
  PROVE  OneOffer'
BY DEF OneOffer, NoNewOffer

LEMMA SameLinks == UNCHANGED toHost => NoNewOffer(toHost, toHost')
BY DEF NoNewOffer

LEMMA InitOneOffer ==
  ASSUME PipeInit
  PROVE  OneOffer
<1>1. source \in MemberId /\ Host \in MemberId
  BY Numbers DEF PipeInit
<1>2. \A j \in Joiner : toHost[j] = <<>>
  BY DEF PipeInit
<1>3. OneOfferAtMost(<<>>) /\ NoOffer(<<>>)
  BY DEF OneOfferAtMost, NoOffer
<1>4. flow[Host].stage = "none" /\ flow[source].stage = "none"
  BY <1>1 DEF PipeInit, NoFlow
<1>5. QED  BY <1>2, <1>3, <1>4 DEF OneOffer

LEMMA HostHandlesCommandOffers ==
  ASSUME Typed, OneOffer, NEW j \in Joiner, HostHandlesCommand(j)
  PROVE  OneOffer'
<1> DEFINE e == Head(toHost[j])
           t == Tail(toHost[j])
<1>1. /\ toHost \in [Joiner -> Seq(Said)] /\ toHost[j] \in Seq(Said) /\ toHost[j] # <<>>
      /\ toHost' = [toHost EXCEPT ![j] = t]
      /\ UNCHANGED <<source, old, up, deaf, gate, faults>>
      /\ HostTyped(host) /\ Host \in MemberId /\ source \in MemberId /\ flow \in [MemberId -> Flow]
      /\ j \in MemberId
  BY Numbers DEF Typed, HostHandlesCommand
<1>2. /\ OneOfferAtMost(toHost[j]) => OneOfferAtMost(t)
      /\ NoOffer(toHost[j]) => NoOffer(t)
      /\ OneOfferAtMost(toHost[j]) /\ OffersHost(e) => NoOffer(t)
  BY <1>1, OffersOfTail
<1>3. e \in Said
  BY <1>1, HeadAndTail
<1>4. NoOffer(toHost[j]) => ~OffersHost(e)
  BY <1>1, HeadAndTail DEF NoOffer
<1> HIDE DEF e, t
<1>5. NoNewOffer(toHost, toHost')
  BY <1>1, <1>2 DEF NoNewOffer
<1>6. snd'.opened = snd.opened
  <2>1. UNCHANGED snd \/ ForgetReceiver(j)
    BY DEF HostHandlesCommand, HostDropsPeer
  <2>2. snd \in SenderState
    BY DEF Typed, SenderTyped
  <2>3. QED  BY <2>1, <2>2 DEF ForgetReceiver, WithoutTarget, SenderState
<1>7. CASE UNCHANGED flow
  BY <1>1, <1>5, <1>6, <1>7, OneOfferKept DEF OneOffer
<1>8. CASE ~UNCHANGED flow
  <2>1. e.type = "open" /\ HostOpens(j, e.on, e.to)
    BY <1>8 DEF HostHandlesCommand, HostDropsPeer, e
  <2> DEFINE h == Opened(host, j, e.on, e.to)
  <2>2. HostIsOffered(h, e.on) /\ flow' = [flow EXCEPT ![Host].stage = "dialed"]
        /\ (e.to = ToAll \/ e.to = Host \/ e.to \in host.peers)
    BY <1>8, <2>1 DEF HostOpens, HostTakesOffer, Refuses
  <2>3. e.on \in ChannelId /\ e.to \in ChannelId
    BY <1>3, <2>1 DEF Said, Asking, Parting
  <2>4. e.to = ToAll \/ e.to \in host.members
    BY <1>1, <2>2 DEF HostTyped
  <2>5. Host = j \/ e.to \in {ToAll, Host}
    BY <1>1, <2>2, <2>3, <2>4, OpenedTyped
  <2>6. OffersHost(e)
    BY <2>1, <2>5 DEF OffersHost, Joiner
  <2>7. /\ j = source /\ snd.opened /\ flow[Host].stage = "none" /\ NoOffer(t)
        /\ \A k \in Joiner \ {j} : NoOffer(toHost[k])
    BY <1>2, <1>4, <2>6 DEF OneOffer
  <2>8. \A k \in Joiner : NoOffer(toHost'[k])
    BY <1>1, <2>7
  <2>9. source # Host
    BY <2>7 DEF Joiner
  <2>10. flow'[source].stage = "none"
    BY <1>1, <2>2, <2>9 DEF OneOffer
  <2>11. \A k \in Joiner : OneOfferAtMost(toHost'[k])
    BY <2>8 DEF NoOffer, OneOfferAtMost
  <2>12. QED  BY <1>1, <1>6, <2>7, <2>8, <2>9, <2>10, <2>11 DEF OneOffer
<1>9. QED  BY <1>7, <1>8

\* A step of a receiver, of the gate or of a task: nothing is offered.
LEMMA StagesOffer ==
  ASSUME Typed, OneOffer, UNCHANGED <<source, toHost>>, snd.opened => snd'.opened,
         \A m \in MemberId : flow'[m].stage = "none" <=> flow[m].stage = "none"
  PROVE  OneOffer'
<1>1. Host \in MemberId /\ source \in MemberId
  BY Numbers DEF Typed
<1>2. flow'[source].stage = "none"
  BY <1>1 DEF OneOffer
<1>3. flow'[Host].stage = "none" <=> flow[Host].stage = "none"
  BY <1>1
<1>4. NoNewOffer(toHost, toHost')
  BY SameLinks
<1>5. QED  BY <1>2, <1>3, <1>4, OneOfferKept

LEMMA ReceiverReadsOffers ==
  ASSUME Typed, OneOffer, NEW j \in Joiner, ReceiverReads(j)
  PROVE  OneOffer'
<1>1. /\ j # source /\ j # Host /\ j \in MemberId /\ UNCHANGED <<source, snd>>
      /\ toHost \in [Joiner -> Seq(Said)] /\ flow \in [MemberId -> Flow]
      /\ source \in MemberId /\ Host \in MemberId
  BY Numbers DEF Typed, ReceiverReads, IsSender, Joiner
<1>2. \/ UNCHANGED <<toHost, flow>>
      \/ /\ \E x : toHost' = [toHost EXCEPT ![j] = Says(j, "accept", x, ToAll)]
         /\ flow' = [flow EXCEPT ![j].stage = "dialed"]
  BY DEF ReceiverReads
<1>3. CASE UNCHANGED <<toHost, flow>>
  BY <1>1, <1>3, StagesOffer
<1>4. CASE /\ \E x : toHost' = [toHost EXCEPT ![j] = Says(j, "accept", x, ToAll)]
           /\ flow' = [flow EXCEPT ![j].stage = "dialed"]
  <2>1. PICK x : toHost' = [toHost EXCEPT ![j] = Says(j, "accept", x, ToAll)]
    BY <1>4
  <2> DEFINE e == [type |-> "accept", on |-> x, to |-> ToAll]
  <2>2. Typed'
    BY ReceiverReadsTyped
  <2>3. ~OffersHost(e)
    BY DEF OffersHost
  <2>4. toHost' = [toHost EXCEPT ![j] = Append(@, e)]
    BY <1>1, <2>1 DEF Says
  <2> HIDE DEF e
  <2>5. toHost'[j] \in Seq(Said) /\ toHost'[j] = Append(toHost[j], e) /\ toHost[j] \in Seq(Said)
    BY <1>1, <2>2, <2>4 DEF Typed
  <2>6. e \in Said
    <3>1. toHost'[j][Len(toHost'[j])] = e /\ Len(toHost'[j]) \in DOMAIN toHost'[j]
      BY <2>5
    <3>2. QED  BY <2>5, <3>1
  <2>7. NoNewOffer(toHost, toHost')
    BY <1>1, <2>3, <2>4, <2>5, <2>6, OffersOfAppend DEF NoNewOffer
  <2>8. /\ flow'[source].stage = "none"
        /\ flow'[Host].stage = "none" <=> flow[Host].stage = "none"
    BY <1>1, <1>4 DEF OneOffer
  <2>9. QED  BY <1>1, <2>7, <2>8, OneOfferKept
<1>5. QED  BY <1>2, <1>3, <1>4

LEMMA SenderReadsOffers ==
  ASSUME Typed, OneOffer, NEW j \in Joiner, SenderReads(j)
  PROVE  OneOffer'
<1> DEFINE q == host.authority[j]
           e == Head(q)
           s == CASE e.type = "welcome"  -> [snd EXCEPT !.welcomed = TRUE]
                  [] e.type = "snapshot" -> [snd EXCEPT !.known = e.ms]
                  [] e.type = "joined"   -> [snd EXCEPT !.known = @ \cup e.ms]
                  [] OTHER -> snd
           opens == e.type \in {"welcome", "snapshot", "joined"} /\ MayOpen(s, j)
           late == {m \in e.ms : e.type = "joined" /\ ~opens /\ MayOpenLate(s, m)}
<1>1. /\ q \in Seq(Msg) /\ NewsOfOthers(j, q) /\ j \in MemberId
      /\ toHost \in [Joiner -> Seq(Said)] /\ q # <<>> /\ j = source
      /\ SenderTyped /\ snd \in SenderState /\ toHost[j] \in Seq(Said)
  BY Numbers DEF Typed, HostTyped, HostState, SenderReads, HasNext, IsSender, SenderTyped
<1>2. /\ \/ opens /\ OpensToAll(s, j)
         \/ ~opens /\ late # {} /\ OpensToLate(s, j, Min(late))
         \/ ~opens /\ late = {} /\ snd' = s /\ UNCHANGED toHost
      /\ UNCHANGED <<source, flow>>
  BY <1>1 DEF SenderReads
<1>3. e \in Msg /\ (e.type = "joined" => Host \notin e.ms)
  <2>1. e \in Msg /\ e = q[1] /\ 1 \in DOMAIN q
    BY <1>1
  <2>2. QED  BY <1>1, <2>1 DEF NewsOfOthers
<1> HIDE DEF e, q
<1>4. s \in SenderState /\ s.opened = snd.opened
  <2>1. e.ms \subseteq MemberId
    BY <1>3 DEF Msg
  <2>2. QED  BY <1>1, <2>1 DEF SenderState
<1> HIDE DEF s
<1>5. flow'[source].stage = "none" /\ flow'[Host].stage = flow[Host].stage
  BY <1>2 DEF OneOffer
<1>6. CASE opens /\ OpensToAll(s, j)
  <2>1. snd'.opened /\ ~snd.opened
    BY <1>4, <1>6 DEF MayOpen, OpensToAll, WithTargets, SenderState
  <2> DEFINE x == [type |-> "open", on |-> PipeId, to |-> ToAll]
  <2>2. toHost' = [toHost EXCEPT ![j] = Append(@, x)] /\ x \in Said
    BY <1>1, <1>6, Numbers DEF OpensToAll, Says, Said, Asking
  <2> HIDE DEF x
  <2>3. \A k \in Joiner : NoOffer(toHost[k])
    BY <2>1 DEF OneOffer
  <2>4. OneOfferAtMost(toHost'[j])
    BY <1>1, <2>2, <2>3, OffersOfAppend
  <2>5. flow[Host].stage = "none"
    BY <2>1 DEF OneOffer
  <2>6. \A k \in Joiner : k # j => toHost'[k] = toHost[k]
    BY <1>1, <2>2
  <2>7. \A k \in Joiner : OneOfferAtMost(toHost'[k])
    BY <2>4, <2>6 DEF OneOffer
  <2>8. \A k \in Joiner : k # source => NoOffer(toHost'[k])
    BY <1>1, <2>3, <2>6
  <2>9. QED  BY <1>2, <1>5, <2>1, <2>5, <2>7, <2>8 DEF OneOffer
<1>7. CASE ~opens /\ late # {} /\ OpensToLate(s, j, Min(late))
  <2> DEFINE m == Min(late)
             x == [type |-> "open", on |-> LateId(m), to |-> m]
  <2>1. m \in MemberId /\ m # Host
    <3>1. late \subseteq Nat /\ late # {}
      BY <1>3, <1>7, Numbers DEF Msg
    <3>2. m \in late
      BY <3>1, LeastOfNats
    <3>3. m \in e.ms /\ e.type = "joined"
      BY <3>2
    <3> HIDE DEF m
    <3>4. QED  BY <1>3, <3>3 DEF Msg
  <2>2. snd' = WithLate(s, m) /\ toHost' = [toHost EXCEPT ![j] = Append(@, x)]
    BY <1>1, <1>7 DEF OpensToLate, Says
  <2> HIDE DEF m
  <2>3. x \in Said /\ ~OffersHost(x)
    BY <2>1, Numbers DEF Said, Asking, LateId, OffersHost
  <2> HIDE DEF x
  <2>4. snd'.opened = snd.opened
    BY <1>4, <2>2 DEF WithLate, SenderState
  <2>5. NoNewOffer(toHost, toHost')
    BY <1>1, <2>2, <2>3, OffersOfAppend DEF NoNewOffer
  <2>6. QED  BY <1>2, <1>5, <2>4, <2>5, OneOfferKept
<1>8. CASE ~opens /\ late = {} /\ snd' = s /\ UNCHANGED toHost
  <2>1. NoNewOffer(toHost, toHost')
    BY <1>8, SameLinks
  <2>2. QED  BY <1>2, <1>4, <1>5, <1>8, <2>1, OneOfferKept
<1>9. QED  BY <1>2, <1>6, <1>7, <1>8

LEMMA HostAcceptsOffers ==
  ASSUME Typed, OneOffer, HostAccepts
  PROVE  OneOffer'
<1>1. \/ ~snd.opened /\ snd' = WithTargets(snd, Admitted(host).peers)
      \/ snd' = WithLate(snd, Min(Admitted(host).peers \ snd.targets))
      \/ snd' = snd
  BY DEF HostAccepts
<1>2. snd \in SenderState /\ UNCHANGED <<source, toHost, flow>>
  BY DEF Typed, SenderTyped, HostAccepts
<1>3. snd.opened => snd'.opened
  BY <1>1, <1>2 DEF WithLate, SenderState
<1>4. QED  BY <1>2, <1>3, StagesOffer

LEMMA GateOffers ==
  ASSUME Typed, OneOffer, NEW m \in MemberId, BeginAccept(m) \/ EndAccept(m) \/ AcceptFails(m)
  PROVE  OneOffer'
<1>1. UNCHANGED <<source, toHost, snd>> /\ flow \in [MemberId -> Flow]
  BY DEF BeginAccept, EndAccept, AcceptFails, Typed
<1>2. \A k \in MemberId : flow'[k].stage = "none" <=> flow[k].stage = "none"
  BY <1>1 DEF BeginAccept, EndAccept, AcceptFails, Flow
<1>3. QED  BY <1>1, <1>2, StagesOffer

LEMMA SourceCompletesOffers ==
  ASSUME Typed, OneOffer, SourceCompletes
  PROVE  OneOffer'
<1>1. UNCHANGED <<source, snd, flow>>
  BY DEF SourceCompletes
<1>2. CASE IsSender(Host)
  <2>1. UNCHANGED toHost
    BY <1>2 DEF SourceCompletes
  <2>2. QED  BY <1>1, <2>1, StagesOffer
<1>3. CASE ~IsSender(Host)
  <2> DEFINE ids == SetToSeq(OpenChannelIds(snd))
             closes == [i \in DOMAIN ids |-> [type |-> "close", on |-> ids[i], to |-> ToAll]]
  <2>1. toHost' = [toHost EXCEPT ![source] = @ \o closes]
    BY <1>3 DEF SourceCompletes
  <2>2. ids \in Seq(ChannelId)
    <3>1. OpenChannelIds(snd) \subseteq ChannelId /\ IsFiniteSet(OpenChannelIds(snd))
      BY OpenIdsTyped, FS_Subset DEF Typed
    <3>2. ids \in Seq(OpenChannelIds(snd))
      BY <3>1, SomeOrder
    <3> HIDE DEF ids
    <3>3. QED  BY <3>1, <3>2
  <2> HIDE DEF ids
  <2>3. closes \in Seq(Said) /\ NoOffer(closes)
    <3>1. \A i \in DOMAIN ids : closes[i] \in Said /\ ~OffersHost(closes[i])
      BY <2>2, Numbers DEF Said, Asking, OffersHost
    <3>2. DOMAIN ids = 1 .. Len(ids) /\ Len(ids) \in Nat
      BY <2>2
    <3>3. closes \in [1 .. Len(ids) -> Said] /\ DOMAIN closes = DOMAIN ids
      BY <3>1, <3>2
    <3> HIDE DEF closes
    <3>4. QED  BY <3>1, <3>2, <3>3 DEF NoOffer
  <2> HIDE DEF closes
  <2>4. source \in Joiner /\ toHost \in [Joiner -> Seq(Said)]
    BY <1>3, Numbers DEF IsSender, Joiner, Typed
  <2>5. NoNewOffer(toHost, toHost')
    BY <2>1, <2>3, <2>4, OffersOfConcat DEF NoNewOffer
  <2>6. QED  BY <1>1, <2>5, OneOfferKept DEF OneOffer
<1>4. QED  BY <1>2, <1>3

\* The end of a process or of a stream: only leave and end are said.
LEMMA LinkEndOffers ==
  ASSUME Typed, OneOffer, NEW j \in Joiner, NEW said \in Seq(Said), NoOffer(said),
         EndsLink(j, said), UNCHANGED <<source, snd>>,
         \A m \in MemberId : flow'[m].stage = flow[m].stage
  PROVE  OneOffer'
<1>1. Host \in MemberId /\ source \in MemberId
  BY Numbers DEF Typed
<1>2. NoNewOffer(toHost, toHost')
  BY EndsLinkOffers
<1>3. flow'[source].stage = "none" /\ (flow'[Host].stage = "none" <=> flow[Host].stage = "none")
  BY <1>1 DEF OneOffer
<1>4. QED  BY <1>2, <1>3, OneOfferKept

LEMMA LastWords ==
  /\ <<>> \in Seq(Said) /\ NoOffer(<<>>)
  /\ <<[type |-> "leave"]>> \in Seq(Said) /\ NoOffer(<<[type |-> "leave"]>>)
<1>1. [type |-> "leave"] \in Said /\ ~OffersHost([type |-> "leave"])
  BY DEF Said, Parting, OffersHost
<1>2. QED  BY <1>1 DEF NoOffer

LEMMA EndsOffer ==
  ASSUME Typed, OneOffer,
         \/ SourceExits \/ (\E m \in MemberId : Crash(m) \/ StreamIsOver(m)) \/ HelloFails
         \/ \E j \in Joiner : JoinerSeesHostEnd(j) \/ WriterFails(j)
  PROVE  OneOffer'
<1>1. UNCHANGED <<source, snd>>
  BY DEF SourceExits, Crash, StreamIsOver, HelloFails, JoinerSeesHostEnd, WriterFails
<1>2. \A m \in MemberId : flow'[m].stage = flow[m].stage
  <2>1. UNCHANGED flow \/ CutStreams
    BY DEF SourceExits, Crash, StreamIsOver, HelloFails, JoinerSeesHostEnd, WriterFails, SourceIsGone
  <2>2. QED  BY <2>1, CutStreamsCases
<1>3. \/ UNCHANGED toHost
      \/ \E j \in Joiner : EndsLink(j, <<>>) \/ EndsLink(j, <<[type |-> "leave"]>>)
  <2>1. CASE SourceExits
    BY <2>1, Numbers DEF SourceExits, IsSender, Typed, Joiner
  <2>2. ASSUME NEW m \in MemberId, Crash(m) \/ StreamIsOver(m)
        PROVE  UNCHANGED toHost \/ \E j \in Joiner : EndsLink(j, <<>>) \/ EndsLink(j, <<[type |-> "leave"]>>)
    <3>1. CASE Crash(m)
      BY <3>1 DEF Crash, Joiner
    <3>2. CASE StreamIsOver(m) /\ StreamEnds(m, "ok")
      BY <3>2 DEF StreamEnds, Joiner
    <3>3. CASE StreamIsOver(m) /\ StreamEnds(m, "failed")
      BY <3>3 DEF StreamEnds, Joiner
    <3>4. QED  BY <2>2, <3>1, <3>2, <3>3 DEF StreamIsOver
  <2>3. CASE HelloFails
    BY <2>3 DEF HelloFails
  <2>4. CASE \E j \in Joiner : JoinerSeesHostEnd(j) \/ WriterFails(j)
    BY <2>4 DEF JoinerSeesHostEnd, WriterFails
  <2>5. QED  BY <2>1, <2>2, <2>3, <2>4
<1>4. CASE UNCHANGED toHost
  BY <1>1, <1>2, <1>4, StagesOffer
<1>5. ASSUME NEW j \in Joiner, EndsLink(j, <<>>) \/ EndsLink(j, <<[type |-> "leave"]>>)
      PROVE  OneOffer'
  BY <1>1, <1>2, <1>5, LastWords, LinkEndOffers
<1>6. QED  BY <1>3, <1>4, <1>5

LEMMA TaskOffers ==
  ASSUME Typed, OneOffer, TaskStep
  PROVE  OneOffer'
<1>1. UNCHANGED <<source, toHost, snd>> /\ flow \in [MemberId -> Flow]
  BY DEF TaskStep, TaskObeys, TaskIsLeft, TaskGetsCredit, TaskCopies, TaskReadsEnd, TaskFinishes,
         TaskUnchanged, Typed
<1>2. \A k \in MemberId : flow'[k].stage = "none" <=> flow[k].stage = "none"
  <2>1. CASE TaskObeys \/ TaskIsLeft \/ TaskReadsEnd
    BY <2>1 DEF TaskObeys, TaskIsLeft, TaskReadsEnd
  <2>2. CASE TaskGetsCredit
    <3> DEFINE m == Awaited
    <3>1. UNCHANGED flow \/ flow' = [flow EXCEPT ![m].grants = Tail(@)]
      BY <2>2, TaskGetsCreditCases
    <3>2. m \in MemberId
      BY <2>2, TaskGetsCreditCases
    <3> HIDE DEF m
    <3>3. CASE UNCHANGED flow
      BY <3>3
    <3>4. CASE flow' = [flow EXCEPT ![m].grants = Tail(@)]
      <4>1. (\A k \in MemberId \ {m} : flow'[k] = flow[k]) /\ flow'[m].stage = flow[m].stage
        BY <1>1, <3>2, <3>4, GrantTaken
      <4>2. QED  BY <4>1
    <3>5. QED  BY <3>1, <3>3, <3>4
  <2>3. CASE TaskCopies
    BY <2>3, TaskCopiesCases
  <2>4. CASE TaskFinishes
    <3>1. UNCHANGED flow \/ \E m \in Receivers : flow' = [flow EXCEPT ![m].fin = "finished"]
      BY <2>4, TaskEndsCases
    <3>2. ASSUME NEW m \in Receivers, flow' = [flow EXCEPT ![m].fin = "finished"]
          PROVE  \A k \in MemberId : flow'[k].stage = flow[k].stage
      <4>1. m \in MemberId
        BY ReceiverMaps DEF Typed, CastTyped, CastState, Receivers
      <4>2. (\A k \in MemberId \ {m} : flow'[k] = flow[k]) /\ flow'[m].stage = flow[m].stage
        BY <1>1, <3>2, <4>1, FinSet
      <4>3. QED  BY <4>2
    <3>3. QED  BY <3>1, <3>2
  <2>5. QED  BY <2>1, <2>2, <2>3, <2>4 DEF TaskStep
<1>3. QED  BY <1>1, <1>2, StagesOffer

LEMMA StepOffers ==
  ASSUME Typed, OneOffer, [PipeNext]_pipeVars
  PROVE  OneOffer'
<1>1. CASE UNCHANGED pipeVars
  BY <1>1, StagesOffer DEF pipeVars
<1>2. CASE HostAccepts \/ HostStep
  BY <1>2, HostAcceptsOffers, HostHandlesCommandOffers DEF HostStep
<1>3. ASSUME NEW j \in Joiner, JoinerStep(j) \/ WriterFails(j) PROVE OneOffer'
  BY <1>3, ReceiverReadsOffers, SenderReadsOffers, EndsOffer DEF JoinerStep
<1>4. CASE GateStep
  BY <1>4, GateOffers DEF GateStep
<1>5. CASE SourceStep
  <2>1. CASE SourceTakesStream
    <3>1. UNCHANGED <<source, toHost, flow>>
      BY <2>1 DEF SourceTakesStream
    <3>2. UNCHANGED snd \/ (Head(gate.arrivals) \in snd.targets /\ Attaches(Head(gate.arrivals)))
      BY <2>1 DEF SourceTakesStream
    <3>3. snd'.opened = snd.opened
      BY <3>1, <3>2, AttachCases
    <3>4. QED  BY <3>1, <3>3, StagesOffer
  <2>2. QED  BY <1>5, <2>1, SourceCompletesOffers, EndsOffer DEF SourceStep
<1>6. CASE TaskStep
  BY <1>6, TaskOffers
<1>7. ASSUME NEW m \in MemberId, StreamStep(m) \/ Crash(m) PROVE OneOffer'
  <2>1. CASE OpensCredit(m) \/ WritesOut(m)
    <3>1. UNCHANGED <<source, toHost, snd>> /\ flow \in [MemberId -> Flow]
      BY <2>1 DEF OpensCredit, WritesOut, Typed
    <3>2. \A k \in MemberId : flow'[k].stage = "none" <=> flow[k].stage = "none"
      <4>1. (\A k \in MemberId \ {m} : flow'[k] = flow[k])
            /\ flow[m].stage # "none" /\ flow'[m].stage # "none"
        BY <2>1, <3>1, CreditOpened, WritesOutCases
      <4>2. QED  BY <4>1
    <3>3. QED  BY <3>1, <3>2, StagesOffer
  <2>2. QED  BY <1>7, <2>1, EndsOffer DEF StreamStep
<1>8. CASE HelloFails
  BY <1>8, EndsOffer
<1>9. QED  BY <1>1, <1>2, <1>3, <1>4, <1>5, <1>6, <1>7, <1>8 DEF PipeNext

LEMMA AlwaysOneOffer == PipeSpec => []OneOffer
BY AlwaysTyped, InitOneOffer, StepOffers, PTL DEF PipeSpec

-----------------------------------------------------------------------------
(* What a step may do to processes, and its kinds as the streams see them. *)

\* Members join one after the other; nobody dials who has not joined.
Absentees ==
  \A m \in MemberId : /\ m >= host.next => proc[m] = "absent"
                      /\ proc[m] = "absent" => flow[m].stage = "none"

ProcStep ==
  \A m \in MemberId :
    \/ proc'[m] = proc[m]
    \/ /\ proc[m] = "absent" /\ proc'[m] = "running"
       /\ m = host.next /\ host'.next = host.next + 1
    \/ proc[m] = "running" /\ proc'[m] = "failed"
    \/ /\ proc[m] = "running" /\ proc'[m] = "crashed"
       /\ m = source => cast'.task \in {"idle", "over"}
    \/ /\ proc[m] = "running" /\ proc'[m] = "ok" /\ UNCHANGED <<cast, flow>>
       /\ IF m = source THEN cast.task = "over"
          ELSE flow[m].fin = "finished" /\ flow[m].wire = <<>>
NextStep == host'.next \in {host.next, host.next + 1}

Aside == UNCHANGED <<source, flow, cast, gate>> /\ snd'.streams = snd.streams
Dials(m) ==
  /\ m # source /\ flow[m].stage = "none" /\ Running(m)
  /\ flow' = [flow EXCEPT ![m].stage = "dialed"]
  /\ UNCHANGED <<source, cast, gate, snd>>
Forgets(m) ==
  /\ m # source /\ UNCHANGED <<source, flow, gate>>
  /\ snd'.streams = snd.streams \ {m}
  /\ \/ ~Started /\ UNCHANGED cast
     \/ Started /\ cast' = [cast EXCEPT !.commands = Append(@, Command("remove", m))]
Refused ==
  /\ gate.arrivals # <<>> /\ gate' = [gate EXCEPT !.arrivals = Tail(@)]
  /\ UNCHANGED <<source, flow, cast, snd>>
Taken ==
  /\ gate.arrivals # <<>> /\ gate' = [gate EXCEPT !.arrivals = Tail(@)]
  /\ Head(gate.arrivals) \in snd.targets /\ Attaches(Head(gate.arrivals))
  /\ Running(source) /\ UNCHANGED <<source, flow, proc>>
Ceased == SourceIsGone /\ UNCHANGED <<source, snd>>
Gates(m) == BeginAccept(m) \/ EndAccept(m) \/ AcceptFails(m)
Kinds ==
  \/ Aside \/ Refused \/ Taken \/ Ceased \/ TaskStep
  \/ \E m \in MemberId : \/ Dials(m) \/ Forgets(m) \/ Gates(m)
                         \/ OpensCredit(m) \/ WritesOut(m)

Counts(h) == "next" \in DOMAIN h

LEMMA TellCounts ==
  ASSUME NEW h, Counts(h), NEW to, NEW msg
  PROVE  Counts(Tell(h, to, msg)) /\ Tell(h, to, msg).next = h.next
BY DEF Counts, Tell

LEMMA OpenedCounts ==
  ASSUME NEW h, Counts(h), NEW from, NEW c, NEW to
  PROVE  Counts(Opened(h, from, c, to)) /\ Opened(h, from, c, to).next = h.next
<1> DEFINE ms == {from} \cup (IF to = ToAll THEN h.members ELSE {to})
           ch == [d \in DOMAIN h.channels \cup {c} |-> IF d = c THEN ms ELSE h.channels[d]]
           k == [h EXCEPT !.channels = ch]
           f == [h EXCEPT !.failed = TRUE]
           rest == ms \ {from}
           msg == Message("opened", c, {from})
           g == Opened(h, from, c, to)
<1>1. g = f \/ g = Tell(k, rest, msg)
  BY DEF Opened
<1> HIDE DEF ch, ms
<1>2. Counts(k) /\ k.next = h.next /\ Counts(f) /\ f.next = h.next
  BY DEF Counts
<1> HIDE DEF k, f, msg, rest, g
<1>3. Counts(g) /\ g.next = h.next
  BY <1>1, <1>2, TellCounts
<1>4. QED  BY <1>3 DEF g

LEMMA AcceptedCounts ==
  ASSUME NEW h, Counts(h), NEW m, NEW c
  PROVE  Counts(Accepted(h, m, c)) /\ Accepted(h, m, c).next = h.next
<1>1. Counts([h EXCEPT !.failed = TRUE]) /\ [h EXCEPT !.failed = TRUE].next = h.next
  BY DEF Counts
<1>2. QED  BY <1>1, TellCounts DEF Accepted

LEMMA ClosedCounts ==
  ASSUME NEW h, Counts(h), NEW m, NEW c
  PROVE  Closed(h, m, c).next = h.next
<1> DEFINE rest == h.channels[c] \ {m}
           ch == IF Cardinality(rest) > 1 THEN [h.channels EXCEPT ![c] = rest]
                 ELSE [d \in DOMAIN h.channels \ {c} |-> h.channels[d]]
           k == [h EXCEPT !.channels = ch]
           f == [h EXCEPT !.failed = TRUE]
           msg == Message("closed", c, {m})
           g == Closed(h, m, c)
<1>1. g = f \/ g = Tell(k, rest, msg)
  BY DEF Closed
<1> HIDE DEF ch, rest
<1>2. Counts(k) /\ k.next = h.next /\ Counts(f) /\ f.next = h.next
  BY DEF Counts
<1> HIDE DEF k, f, msg, g
<1>3. Counts(g) /\ g.next = h.next
  BY <1>1, <1>2, TellCounts
<1>4. QED  BY <1>3 DEF g

LEMMA LeftCounts ==
  ASSUME NEW h, Counts(h), NEW m
  PROVE  [Left(h, m) EXCEPT !.peers = @ \ {m}].next = h.next
<1>1. \A ms, ch : LET g == [h EXCEPT !.members = ms, !.channels = ch]
                  IN  Counts(g) /\ g.next = h.next
  BY DEF Counts
<1>2. \A g : Counts(g) => \A p : [g EXCEPT !.peers = p].next = g.next
  BY DEF Counts
<1>3. Counts(Left(h, m)) /\ Left(h, m).next = h.next
  BY <1>1 DEF Left
<1>4. QED  BY <1>2, <1>3

LEMMA HostCommandCounts ==
  ASSUME Typed, NEW j \in Joiner, HostHandlesCommand(j)
  PROVE  host'.next = host.next
<1> DEFINE e == Head(toHost[j])
<1>1. Counts(host)
  BY DEF Typed, HostTyped, HostState, Counts
<1>2. ASSUME NEW h, Counts(h), HostBecomes(h) PROVE host'.next = h.next
  BY <1>2 DEF HostBecomes
<1>3. CASE e.type = "open" /\ HostOpens(j, e.on, e.to)
  <2>1. CASE Refuses(j, e.on)
    BY <1>1, <2>1, TellCounts DEF Refuses, HostBecomes
  <2>2. CASE HostTakesOffer(Opened(host, j, e.on, e.to), e.on)
    <3> DEFINE h == Opened(host, j, e.on, e.to)
    <3>1. HostBecomes(Accepted(h, Host, e.on)) \/ HostBecomes(h)
      BY <2>2 DEF HostTakesOffer
    <3>2. Counts(h) /\ h.next = host.next
      BY <1>1, OpenedCounts
    <3> HIDE DEF h, e
    <3>3. QED  BY <3>1, <3>2, AcceptedCounts DEF HostBecomes
  <2>3. QED  BY <1>3, <2>1, <2>2 DEF HostOpens
<1>4. CASE HostBecomes(Accepted(host, j, e.on))
  BY <1>1, <1>4, AcceptedCounts DEF HostBecomes
<1>5. CASE HostBecomes(Closed(host, j, e.on))
  BY <1>1, <1>5, ClosedCounts DEF HostBecomes
<1>6. CASE HostBecomes([Left(host, j) EXCEPT !.peers = @ \ {j}])
  BY <1>1, <1>6, LeftCounts DEF HostBecomes
<1>7. QED  BY <1>3, <1>4, <1>5, <1>6 DEF HostHandlesCommand, HostDropsPeer

LEMMA HostAcceptsCounts ==
  ASSUME Typed, HostAccepts
  PROVE  host'.next = host.next + 1 /\ host.next \in Joiner
<1> DEFINE h == Admitted(host)
           missing == h.peers \ snd.targets
<1>1. Counts(host) /\ HostTyped(host) /\ host.next <= MaxMemberIndex
  BY DEF Typed, HostTyped, HostState, Counts, HostAccepts
<1>2. Counts(h) /\ h.next = host.next + 1
  <2> DEFINE told == Tell(host, host.peers, Message("joined", PipeId, {host.next}))
  <2>1. Counts(told)
    BY <1>1, TellCounts
  <2> HIDE DEF told
  <2>2. \E k, ms, ps, a : h = [told EXCEPT !.next = host.next + 1, !.members = ms, !.peers = ps,
                                           !.authority[k] = a]
    BY DEF Admitted, told
  <2> HIDE DEF h
  <2>3. QED  BY <2>1, <2>2 DEF Counts
<1>3. host' = FirstOpening(h) \/ host' = LateOpening(h, Min(missing)) \/ host' = h
  BY DEF HostAccepts
<1> HIDE DEF h, missing
<1>4. Counts([h EXCEPT !.failed = TRUE]) /\ [h EXCEPT !.failed = TRUE].next = h.next
  BY <1>2 DEF Counts
<1>5. FirstOpening(h).next = h.next /\ LateOpening(h, Min(missing)).next = h.next
  BY <1>2, <1>4, OpenedCounts DEF FirstOpening, LateOpening
<1>6. host.next \in Joiner
  BY <1>1, AdmittedTyped
<1>7. QED  BY <1>2, <1>3, <1>5, <1>6

\* Steps in which no process changes, or one that runs fails.
OneFails(m) == Running(m) /\ proc' = [proc EXCEPT ![m] = "failed"]

LEMMA ProcKept == UNCHANGED proc => ProcStep
BY DEF ProcStep

LEMMA ProcFails ==
  ASSUME Typed, NEW m \in MemberId, OneFails(m)
  PROVE  ProcStep
BY DEF ProcStep, OneFails, Running, Typed

LEMMA HostAcceptsKind ==
  ASSUME Typed, Absentees, HostAccepts
  PROVE  ProcStep /\ NextStep /\ Aside
<1>1. host'.next = host.next + 1 /\ host.next \in Joiner /\ host.next \in MemberId /\ Host \in MemberId
  BY HostAcceptsCounts, Numbers
<1>2. /\ UNCHANGED <<source, gate, cast, flow>> /\ Running(Host)
      /\ \E out \in {"failed", proc[Host]} :
           proc' = [proc EXCEPT ![host.next] = "running", ![Host] = out]
  <2> DEFINE h == Admitted(host)
             missing == h.peers \ snd.targets
             first == IsSender(Host) /\ ~snd.opened /\ ~h.failed
             later == IsSender(Host) /\ cast.task \in {"running", "finishing", "over"} /\ ~h.failed /\ missing # {}
             g == IF first THEN FirstOpening(h)
                  ELSE IF later THEN LateOpening(h, Min(missing)) ELSE h
  <2>1. /\ UNCHANGED <<source, gate, cast, flow>> /\ Running(Host)
        /\ proc' = [proc EXCEPT ![host.next] = "running", ![Host] = IF g.failed THEN "failed" ELSE @]
    BY DEF HostAccepts
  <2> HIDE DEF g
  <2>2. host.next # Host
    BY <1>1 DEF Joiner
  <2>3. QED  BY <2>1, <2>2
<1>3. proc[host.next] = "absent" /\ host.next # Host /\ host.next >= host.next
  BY <1>1, Numbers DEF Absentees, Joiner
<1>4. ProcStep
  BY <1>1, <1>2, <1>3 DEF ProcStep, Typed, Running
<1>5. snd'.streams = snd.streams
  <2>1. \/ snd' = WithTargets(snd, Admitted(host).peers)
        \/ snd' = WithLate(snd, Min(Admitted(host).peers \ snd.targets))
        \/ snd' = snd
    BY DEF HostAccepts
  <2>2. snd \in SenderState
    BY DEF Typed, SenderTyped
  <2>3. QED  BY <2>1, <2>2 DEF WithTargets, WithLate, SenderState
<1>6. QED  BY <1>1, <1>2, <1>4, <1>5 DEF NextStep, Aside

LEMMA HostBecomesProc ==
  ASSUME Typed, Running(Host), NEW h, HostBecomes(h)
  PROVE  ProcStep
<1>1. UNCHANGED proc \/ OneFails(Host)
  BY DEF HostBecomes, OneFails
<1>2. QED  BY <1>1, ProcKept, ProcFails, Numbers

LEMMA HostCommandKind ==
  ASSUME Typed, OneOffer, NEW j \in Joiner, HostHandlesCommand(j)
  PROVE  ProcStep /\ NextStep /\ (Aside \/ Dials(Host) \/ Forgets(j))
<1> DEFINE e == Head(toHost[j])
<1>1. /\ Running(Host) /\ UNCHANGED <<source, gate>> /\ toHost[j] # <<>>
      /\ toHost[j] \in Seq(Said)
  BY DEF HostHandlesCommand, Typed
<1>2. NextStep
  BY HostCommandCounts DEF NextStep
<1>3. ProcStep
  <2>1. \E h : HostBecomes(h)
    <3>1. CASE e.type = "open" /\ HostOpens(j, e.on, e.to)
      BY <3>1 DEF HostOpens, Refuses, HostTakesOffer
    <3>2. CASE e.type # "open"
      BY <3>2 DEF HostHandlesCommand, HostDropsPeer
    <3>3. QED  BY <3>1, <3>2 DEF HostHandlesCommand
  <2>2. QED  BY <1>1, <2>1, HostBecomesProc
<1>4. CASE e.type = "open" /\ HostOpens(j, e.on, e.to) /\ UNCHANGED <<snd, cast>>
  <2>1. CASE UNCHANGED flow
    BY <1>1, <1>2, <1>3, <1>4, <2>1 DEF Aside
  <2>2. CASE ~UNCHANGED flow
    <3>1. flow' = [flow EXCEPT ![Host].stage = "dialed"]
          /\ HostIsOffered(Opened(host, j, e.on, e.to), e.on)
          /\ (e.to = ToAll \/ e.to = Host \/ e.to \in host.peers)
      BY <1>4, <2>2 DEF HostOpens, HostTakesOffer, Refuses
    <3>2. e \in Said /\ e = toHost[j][1] /\ 1 \in DOMAIN toHost[j]
      BY <1>1, HeadAndTail
    <3> HIDE DEF e
    <3>3. e.on \in ChannelId /\ e.to \in ChannelId /\ j \in MemberId /\ j # Host
      BY <1>4, <3>2, Numbers DEF Said, Asking, Parting, Joiner
    <3>4. HostTyped(host) /\ (e.to = ToAll \/ e.to \in host.members)
      BY <3>1 DEF Typed, HostTyped
    <3>5. Host = j \/ e.to \in {ToAll, Host}
      BY <3>1, <3>3, <3>4, OpenedTyped
    <3>6. OffersHost(e)
      BY <1>4, <3>3, <3>5 DEF OffersHost
    <3>7. ~NoOffer(toHost[j])
      BY <3>2, <3>6 DEF NoOffer
    <3>8. j = source /\ flow[Host].stage = "none"
      BY <3>7 DEF OneOffer
    <3>9. QED  BY <1>1, <1>2, <1>3, <1>4, <3>1, <3>3, <3>8 DEF Dials
  <2>3. QED  BY <2>1, <2>2
<1>5. CASE UNCHANGED <<snd, cast, flow>>
  BY <1>1, <1>2, <1>3, <1>5 DEF Aside
<1>6. CASE HostDropsPeer(j)
  <2>1. UNCHANGED flow /\ (UNCHANGED <<snd, cast>> \/ (IsSender(Host) /\ ForgetReceiver(j)))
    BY <1>6 DEF HostDropsPeer
  <2>2. CASE UNCHANGED <<snd, cast>>
    BY <1>1, <1>2, <1>3, <2>1, <2>2 DEF Aside
  <2>3. CASE IsSender(Host) /\ ForgetReceiver(j)
    <3>1. j # source
      BY <2>3 DEF IsSender, Joiner
    <3>2. snd'.streams = snd.streams \ {j}
      BY <2>3 DEF ForgetReceiver, WithoutTarget, Typed, SenderTyped, SenderState
    <3>3. \/ ~Started /\ UNCHANGED cast
          \/ Started /\ cast' = [cast EXCEPT !.commands = Append(@, Command("remove", j))]
      BY <2>3 DEF ForgetReceiver
    <3>4. Forgets(j)
      BY <1>1, <2>1, <3>1, <3>2, <3>3 DEF Forgets
    <3>5. QED  BY <1>2, <1>3, <3>4
  <2>4. QED  BY <2>1, <2>2, <2>3
<1>7. QED  BY <1>4, <1>5, <1>6 DEF HostHandlesCommand

\* A joiner that reads on: the host's state changes in its link only.
LEMMA LinkRead ==
  ASSUME Typed, NEW j \in Joiner, NEW q, host' = [host EXCEPT !.authority[j] = q]
  PROVE  NextStep
BY DEF Typed, HostTyped, HostState, NextStep

LEMMA ReceiverReadsKind ==
  ASSUME Typed, NEW j \in Joiner, ReceiverReads(j)
  PROVE  ProcStep /\ NextStep /\ (Aside \/ Dials(j))
<1>1. /\ Running(j) /\ j # source /\ flow[j].stage = "none"
      /\ UNCHANGED <<source, proc, snd, gate, cast>>
      /\ UNCHANGED flow \/ flow' = [flow EXCEPT ![j].stage = "dialed"]
      /\ \E q : host' = [host EXCEPT !.authority[j] = q]
  BY DEF ReceiverReads, HasNext, IsSender
<1>2. QED  BY <1>1, LinkRead, ProcKept DEF Aside, Dials

LEMMA SenderReadsKind ==
  ASSUME Typed, NEW j \in Joiner, SenderReads(j)
  PROVE  ProcStep /\ NextStep /\ Aside
<1> DEFINE q == host.authority[j]
           e == Head(q)
           s == CASE e.type = "welcome"  -> [snd EXCEPT !.welcomed = TRUE]
                  [] e.type = "snapshot" -> [snd EXCEPT !.known = e.ms]
                  [] e.type = "joined"   -> [snd EXCEPT !.known = @ \cup e.ms]
                  [] OTHER -> snd
           opens == e.type \in {"welcome", "snapshot", "joined"} /\ MayOpen(s, j)
           late == {m \in e.ms : e.type = "joined" /\ ~opens /\ MayOpenLate(s, m)}
<1>1. /\ Running(j) /\ UNCHANGED <<source, gate, cast, flow>>
      /\ \E r : host' = [host EXCEPT !.authority[j] = r]
      /\ UNCHANGED proc \/ OneFails(j)
      /\ OpensToAll(s, j) \/ OpensToLate(s, j, Min(late)) \/ snd' = s
      /\ j \in MemberId /\ snd \in SenderState
  BY Numbers DEF SenderReads, HasNext, OneFails, Typed, SenderTyped
<1>2. s.streams = snd.streams /\ DOMAIN s = DOMAIN snd
  BY <1>1 DEF SenderState
<1> HIDE DEF s, late
<1>3. snd'.streams = snd.streams
  BY <1>1, <1>2 DEF OpensToAll, OpensToLate, WithTargets, WithLate, SenderState
<1>4. QED  BY <1>1, <1>3, LinkRead, ProcKept, ProcFails DEF Aside

LEMMA EndKinds ==
  ASSUME Typed, OneOffer,
         \/ SourceExits \/ HelloFails \/ (\E m \in MemberId : Crash(m) \/ StreamIsOver(m))
         \/ \E j \in Joiner : JoinerSeesHostEnd(j) \/ WriterFails(j)
  PROVE  ProcStep /\ NextStep /\ (Aside \/ Ceased)
<1>1. NextStep /\ UNCHANGED <<source, snd>>
  BY DEF SourceExits, HelloFails, Crash, StreamIsOver, JoinerSeesHostEnd, WriterFails, NextStep
<1>2. CASE SourceExits
  BY <1>1, <1>2, ProcKept DEF SourceExits, Ceased
<1>3. CASE HelloFails
  BY <1>1, <1>3, ProcFails, Numbers DEF HelloFails, OneFails, Aside
<1>4. ASSUME NEW j \in Joiner, JoinerSeesHostEnd(j) \/ WriterFails(j)
      PROVE  ProcStep /\ NextStep /\ (Aside \/ Ceased)
  BY <1>1, <1>4, ProcFails, ProcKept, Numbers DEF JoinerSeesHostEnd, WriterFails, OneFails, Aside
<1>5. ASSUME NEW m \in MemberId, Crash(m) PROVE ProcStep /\ NextStep /\ (Aside \/ Ceased)
  <2>1. Running(m) /\ proc' = [proc EXCEPT ![m] = "crashed"]
    BY <1>5 DEF Crash
  <2>2. CASE IsSender(m)
    <3>1. Ceased
      BY <1>1, <1>5, <2>2 DEF Crash, Ceased
    <3>2. cast'.task \in {"idle", "over"}
      BY <3>1, SourceIsGoneTyped DEF Ceased
    <3>3. ProcStep
      BY <2>1, <3>2 DEF ProcStep, Running, Typed
    <3>4. QED  BY <1>1, <3>1, <3>3
  <2>3. CASE ~IsSender(m)
    <3>1. Aside
      BY <1>1, <1>5, <2>3 DEF Crash, Aside
    <3>2. ProcStep
      BY <2>1, <2>3 DEF ProcStep, Running, Typed, IsSender
    <3>3. QED  BY <1>1, <3>1, <3>2
  <2>4. QED  BY <2>2, <2>3
<1>6. ASSUME NEW m \in MemberId, StreamIsOver(m) PROVE ProcStep /\ NextStep /\ (Aside \/ Ceased)
  <2>1. /\ Running(m) /\ flow[m].stage # "none" /\ flow[m].wire = <<>>
        /\ UNCHANGED <<gate, cast, flow>>
        /\ \/ flow[m].fin = "finished" /\ StreamEnds(m, "ok")
           \/ StreamEnds(m, "failed")
    BY <1>6 DEF StreamIsOver
  <2>2. m # source
    BY <2>1 DEF OneOffer
  <2>3. \/ flow[m].fin = "finished" /\ proc' = [proc EXCEPT ![m] = "ok"]
        \/ proc' = [proc EXCEPT ![m] = "failed"]
    BY <2>1 DEF StreamEnds
  <2>4. ProcStep
    BY <2>1, <2>2, <2>3 DEF ProcStep, Running, Typed
  <2>5. QED  BY <1>1, <2>1, <2>4 DEF Aside
<1>7. QED  BY <1>2, <1>3, <1>4, <1>5, <1>6

LEMMA SourceCompletesKind ==
  ASSUME Typed, SourceCompletes
  PROVE  ProcStep /\ NextStep /\ Aside
<1>1. UNCHANGED <<source, snd, gate, cast, flow>> /\ Running(source) /\ cast.task = "over"
      /\ source \in MemberId
  BY Numbers DEF SourceCompletes, Typed
<1>2. proc' = [proc EXCEPT ![source] = "ok"] \/ proc' = [proc EXCEPT ![source] = "failed"]
  <2>1. \E how \in {"ok", "failed"} : SourceEnds(how)
    <3>1. CASE IsSender(Host)
      BY <3>1 DEF SourceCompletes
    <3>2. CASE ~IsSender(Host)
      BY <3>2 DEF SourceCompletes
    <3>3. QED  BY <3>1, <3>2
  <2>2. QED  BY <2>1 DEF SourceEnds
<1>3. ProcStep
  BY <1>1, <1>2 DEF ProcStep, Running, Typed
<1>4. NextStep
  <2>1. CASE IsSender(Host)
    <3> DEFINE h == AllClosed(host, OpenChannelIds(snd))
    <3>1. Counts(host)
      BY DEF Typed, HostTyped, HostState, Counts
    <3>2. \E ch, a, f : h = [host EXCEPT !.channels = ch, !.authority = a, !.failed = f]
      BY DEF AllClosed
    <3>3. host' = [h EXCEPT !.failed = FALSE]
      BY <2>1 DEF SourceCompletes
    <3> HIDE DEF h
    <3>4. QED  BY <3>1, <3>2, <3>3 DEF Counts, NextStep
  <2>2. CASE ~IsSender(Host)
    BY <2>2 DEF SourceCompletes, NextStep
  <2>3. QED  BY <2>1, <2>2
<1>5. QED  BY <1>1, <1>3, <1>4 DEF Aside

LEMMA SourceTakesStreamKind ==
  ASSUME Typed, SourceTakesStream
  PROVE  ProcStep /\ NextStep /\ (Refused \/ Taken)
<1> DEFINE m == Head(gate.arrivals)
<1>1. /\ Running(source) /\ gate.arrivals # <<>> /\ gate' = [gate EXCEPT !.arrivals = Tail(@)]
      /\ UNCHANGED <<source, host, flow>> /\ source \in MemberId
      /\ \/ OneFails(source) /\ UNCHANGED <<snd, cast>>
         \/ m \in snd.targets /\ Attaches(m) /\ UNCHANGED proc
  BY Numbers DEF SourceTakesStream, SourceEnds, OneFails, Typed
<1>2. NextStep
  BY <1>1 DEF NextStep
<1>3. QED  BY <1>1, <1>2, ProcKept, ProcFails DEF Refused, Taken

LEMMA StepKinds ==
  ASSUME Typed, OneOffer, Absentees, [PipeNext]_pipeVars
  PROVE  ProcStep /\ NextStep /\ Kinds
<1>1. CASE UNCHANGED pipeVars
  BY <1>1, ProcKept DEF pipeVars, NextStep, Aside, Kinds
<1>2. CASE HostAccepts \/ HostStep
  <2>1. Joiner \subseteq MemberId /\ Host \in MemberId
    BY Numbers
  <2>2. QED  BY <1>2, <2>1, HostAcceptsKind, HostCommandKind DEF HostStep, Kinds
<1>3. ASSUME NEW j \in Joiner, JoinerStep(j) \/ WriterFails(j)
      PROVE  ProcStep /\ NextStep /\ Kinds
  <2>1. j \in MemberId
    BY Numbers
  <2>2. QED  BY <1>3, <2>1, ReceiverReadsKind, SenderReadsKind, EndKinds DEF JoinerStep, Kinds
<1>4. CASE GateStep
  <2>1. UNCHANGED <<proc, host>>
    BY <1>4 DEF GateStep, BeginAccept, EndAccept, AcceptFails
  <2>2. QED  BY <1>4, <2>1, ProcKept DEF GateStep, Gates, NextStep, Kinds
<1>5. CASE SourceStep
  BY <1>5, SourceTakesStreamKind, SourceCompletesKind, EndKinds DEF SourceStep, Kinds
<1>6. CASE TaskStep
  <2>1. UNCHANGED <<proc, host>>
    BY <1>6 DEF TaskStep, TaskObeys, TaskIsLeft, TaskGetsCredit, TaskCopies, TaskReadsEnd,
                TaskFinishes, TaskUnchanged
  <2>2. QED  BY <1>6, <2>1, ProcKept DEF NextStep, Kinds
<1>7. ASSUME NEW m \in MemberId, StreamStep(m) \/ Crash(m)
      PROVE  ProcStep /\ NextStep /\ Kinds
  <2>1. CASE OpensCredit(m) \/ WritesOut(m)
    <3>1. UNCHANGED <<proc, host>>
      BY <2>1 DEF OpensCredit, WritesOut
    <3>2. QED  BY <2>1, <3>1, ProcKept DEF NextStep, Kinds
  <2>2. QED  BY <1>7, <2>1, EndKinds DEF StreamStep, Kinds
<1>8. CASE HelloFails
  BY <1>8, EndKinds DEF Kinds
<1>9. QED  BY <1>1, <1>2, <1>3, <1>4, <1>5, <1>6, <1>7, <1>8 DEF PipeNext

-----------------------------------------------------------------------------
(* A stream goes from hand to hand once.                                   *)

LEMMA TaskStages ==
  ASSUME Typed, TaskStep
  PROVE  \A k \in MemberId : flow'[k].stage = flow[k].stage /\ flow'[k].out = flow[k].out
<1>1. flow \in [MemberId -> Flow] /\ Receivers \subseteq MemberId
  BY ReceiverMaps DEF Typed, CastTyped, CastState, Receivers
<1>2. CASE TaskObeys \/ TaskIsLeft \/ TaskReadsEnd
  BY <1>2 DEF TaskObeys, TaskIsLeft, TaskReadsEnd
<1>3. CASE TaskGetsCredit
  <2> DEFINE m == Awaited
  <2>1. m \in MemberId /\ (UNCHANGED flow \/ flow' = [flow EXCEPT ![m].grants = Tail(@)])
    BY <1>3, TaskGetsCreditCases
  <2> HIDE DEF m
  <2>2. CASE flow' = [flow EXCEPT ![m].grants = Tail(@)]
    <3>1. /\ \A k \in MemberId \ {m} : flow'[k] = flow[k]
          /\ flow'[m].stage = flow[m].stage /\ flow'[m].out = flow[m].out
      BY <1>1, <2>1, <2>2, GrantTaken
    <3>2. QED  BY <3>1
  <2>3. QED  BY <2>1, <2>2
<1>4. CASE TaskCopies
  BY <1>4, TaskCopiesCases
<1>5. CASE TaskFinishes
  <2>1. UNCHANGED flow \/ \E m \in Receivers : flow' = [flow EXCEPT ![m].fin = "finished"]
    BY <1>5, TaskEndsCases
  <2>2. ASSUME NEW m \in Receivers, flow' = [flow EXCEPT ![m].fin = "finished"]
        PROVE  \A k \in MemberId : flow'[k].stage = flow[k].stage /\ flow'[k].out = flow[k].out
    <3>1. /\ \A k \in MemberId \ {m} : flow'[k] = flow[k]
          /\ flow'[m].stage = flow[m].stage /\ flow'[m].out = flow[m].out
      BY <1>1, <2>2, FinSet
    <3>2. QED  BY <3>1
  <2>3. QED  BY <2>1, <2>2
<1>6. QED  BY <1>2, <1>3, <1>4, <1>5 DEF TaskStep

\* A stream starts when its receiver dials, and has come through the gate for good.
StagesGrow ==
  \A m \in MemberId : /\ flow'[m].stage = "none" \/ flow[m].stage # "none" \/ Running(m)
                      /\ Early(m)' => Early(m)

LEMMA KindStages ==
  ASSUME Typed, Kinds
  PROVE  StagesGrow
<1>1. flow \in [MemberId -> Flow]
  BY DEF Typed
<1>2. CASE \A k \in MemberId : flow'[k].stage = flow[k].stage
  BY <1>2 DEF StagesGrow, Early
<1>3. CASE Aside \/ Refused \/ Taken \/ \E m \in MemberId : Forgets(m)
  BY <1>2, <1>3 DEF Aside, Refused, Taken, Forgets
<1>4. CASE Ceased
  BY <1>2, <1>4, CutStreamsCases DEF Ceased, SourceIsGone
<1>5. CASE TaskStep
  BY <1>2, <1>5, TaskStages
<1>6. ASSUME NEW m \in MemberId, NEW x, flow' = [flow EXCEPT ![m].stage = x],
             Early(m), flow[m].stage # "none" \/ Running(m)
      PROVE  StagesGrow
  <2>1. (\A k \in MemberId \ {m} : flow'[k] = flow[k]) /\ flow'[m].stage = x
    BY <1>1, <1>6, StageSet
  <2>2. QED  BY <1>6, <2>1 DEF StagesGrow, Early
<1>7. ASSUME NEW m \in MemberId, Dials(m) PROVE StagesGrow
  BY <1>6, <1>7 DEF Dials, Early
<1>8. ASSUME NEW m \in MemberId, Gates(m) PROVE StagesGrow
  <2>1. CASE BeginAccept(m) \/ AcceptFails(m)
    BY <1>6, <2>1 DEF BeginAccept, AcceptFails, Early
  <2>2. CASE EndAccept(m)
    BY <1>2, <2>2 DEF EndAccept
  <2>3. QED  BY <1>8, <2>1, <2>2 DEF Gates
<1>9. ASSUME NEW m \in MemberId, OpensCredit(m) \/ WritesOut(m) PROVE StagesGrow
  <2>1. /\ \A k \in MemberId \ {m} : flow'[k] = flow[k]
        /\ flow[m].stage # "none" /\ flow'[m].stage = "open"
    BY <1>1, <1>9, CreditOpened, WritesOutCases
  <2>2. QED  BY <2>1 DEF StagesGrow, Early
<1>10. QED  BY <1>3, <1>4, <1>5, <1>7, <1>8, <1>9 DEF Kinds

LEMMA StepAbsentees ==
  ASSUME Typed, Absentees, ProcStep, NextStep, StagesGrow
  PROVE  Absentees'
<1>1. host.next \in Nat /\ MemberId \subseteq Nat
  BY Numbers DEF Typed, HostTyped, HostState
<1>2. ASSUME NEW m \in MemberId, m >= host'.next
      PROVE  proc'[m] = "absent"
  <2>1. m >= host.next /\ (m = host.next => host'.next # host.next + 1)
    BY <1>1, <1>2 DEF NextStep
  <2>2. proc[m] = "absent"
    BY <2>1 DEF Absentees
  <2>3. QED  BY <2>1, <2>2 DEF ProcStep
<1>3. ASSUME NEW m \in MemberId, proc'[m] = "absent"
      PROVE  flow'[m].stage = "none"
  <2>1. proc[m] = "absent"
    BY <1>3 DEF ProcStep
  <2>2. flow[m].stage = "none" /\ ~Running(m)
    BY <2>1 DEF Absentees, Running
  <2>3. QED  BY <2>2 DEF StagesGrow
<1>4. QED  BY <1>2, <1>3 DEF Absentees

LEMMA InitAbsentees ==
  ASSUME PipeInit
  PROVE  Absentees
BY Numbers DEF PipeInit, NoFlow, Absentees

LEMMA AlwaysAbsentees == PipeSpec => []Absentees
BY AlwaysTyped, AlwaysOneOffer, InitAbsentees, StepKinds, KindStages, StepAbsentees, PTL DEF PipeSpec

\* Who has not been served is the same for all that handing over is about.
HandsOff ==
  /\ UNCHANGED gate /\ cast'.commands = cast.commands /\ snd'.streams = snd.streams
  /\ \A m \in MemberId : Unserved(m) => Unserved(m)'
  /\ Started' <=> Started
  /\ ~Started => /\ Receivers' = Receivers /\ cast'.initial = cast.initial /\ cast'.pos = cast.pos
                 /\ \A m \in MemberId : Silent(m) => Silent(m)'

LEMMA TakenInType ==
  ASSUME Typed
  PROVE  /\ cast.commands \in Seq(TaskCommand) /\ gate.arrivals \in Seq(ChannelId)
         /\ \A i \in DOMAIN cast.commands :
              /\ cast.commands[i].of \in MemberId /\ cast.commands[i].of # source
              /\ cast.commands[i].type = "add" <=> cast.commands[i] = Command("add", cast.commands[i].of)
         /\ \A i \in DOMAIN gate.arrivals : gate.arrivals[i] = Nobody \/ gate.arrivals[i] \in MemberId
         /\ flow \in [MemberId -> Flow] /\ Receivers \subseteq MemberId
<1>1. /\ cast.commands \in Seq(TaskCommand) /\ gate.arrivals \in Seq(ChannelId)
      /\ \A i \in DOMAIN cast.commands : cast.commands[i].of # source
      /\ flow \in [MemberId -> Flow] /\ Receivers \subseteq MemberId
  BY ReceiverMaps DEF Typed, CastTyped, CastState, GateState, Receivers
<1>2. \A i \in DOMAIN cast.commands : cast.commands[i] \in TaskCommand
  BY <1>1
<1>3. \A c \in TaskCommand : c.of \in MemberId /\ (c.type = "add" <=> c = Command("add", c.of))
  BY DEF TaskCommand, Command
<1>4. \A i \in DOMAIN gate.arrivals : gate.arrivals[i] \in ChannelId
  BY <1>1
<1>5. \A c \in ChannelId : c = Nobody \/ c \in MemberId
  BY Numbers DEF ChannelId, MemberId, Nobody
<1>6. QED  BY <1>1, <1>2, <1>3, <1>4, <1>5

LEMMA HandedOverKept ==
  ASSUME Typed, HandedOver, StagesGrow, HandsOff
  PROVE  HandedOver'
<1>1. ASSUME NEW m \in MemberId
      PROVE  /\ NotAdded(m)' <=> NotAdded(m)
             /\ NotArrived(m)' <=> NotArrived(m)
             /\ OnceIn(gate.arrivals, m)' <=> OnceIn(gate.arrivals, m)
             /\ OnceIn(cast.commands, Command("add", m))' <=> OnceIn(cast.commands, Command("add", m))
             /\ Coming(m)' => Coming(m)
             /\ Unserved(m) => Unserved(m)'
             /\ Early(m)' => Early(m)
  BY DEF HandsOff, NotAdded, NotArrived, NotIn, OnceIn, Coming, StagesGrow, Command
<1>2. gate'.accepting = gate.accepting /\ snd'.streams = snd.streams
  BY DEF HandsOff
<1>3. (Started => snd.streams = {})' /\ (~Started => cast.commands = <<>>)'
  BY DEF HandsOff, HandedOver
<1>4. ASSUME ~Started'
      PROVE  Receivers' = {} /\ cast'.initial = {} /\ cast'.pos = 0 /\ \A m \in MemberId : Silent(m)'
  BY <1>4 DEF HandsOff, HandedOver
<1>5. QED  BY <1>1, <1>2, <1>3, <1>4 DEF HandedOver

\* The same for all streams but one, and for the task.
StreamsKept == \A m \in MemberId : flow'[m].out = flow[m].out /\ flow'[m].wire = flow[m].wire

LEMMA UnservedKept ==
  ASSUME StreamsKept, Receivers' \subseteq Receivers, cast'.initial = cast.initial
  PROVE  \A m \in MemberId : /\ Unserved(m) => Unserved(m)'
                             /\ Silent(m) => Silent(m)'
BY DEF StreamsKept, Unserved, Silent

LEMMA HandsOffKinds ==
  ASSUME Typed, HandedOver,
         \/ Aside \/ TaskIsLeft \/ TaskGetsCredit \/ TaskCopies \/ TaskReadsEnd \/ TaskFinishes
         \/ \E m \in MemberId : Dials(m) \/ OpensCredit(m) \/ WritesOut(m)
  PROVE  HandsOff
<1>1. flow \in [MemberId -> Flow] /\ Receivers \subseteq MemberId
  BY TakenInType
<1>2. CASE /\ UNCHANGED gate /\ cast' = cast /\ snd'.streams = snd.streams
           /\ StreamsKept
  <2>1. Receivers' = Receivers /\ (Started' <=> Started)
    BY <1>2 DEF Receivers, Started
  <2>2. QED  BY <1>2, <2>1, UnservedKept DEF HandsOff
<1>3. CASE Aside
  BY <1>2, <1>3 DEF Aside, StreamsKept
<1>4. ASSUME NEW m \in MemberId, Dials(m) PROVE HandsOff
  <2>1. StreamsKept
    <3>1. flow' = [flow EXCEPT ![m].stage = "dialed"]
      BY <1>4 DEF Dials
    <3>2. /\ \A k \in MemberId \ {m} : flow'[k] = flow[k]
          /\ flow'[m].out = flow[m].out /\ flow'[m].wire = flow[m].wire
      BY <1>1, <3>1, StageSet
    <3>3. QED  BY <3>2 DEF StreamsKept
  <2>2. QED  BY <1>2, <1>4, <2>1 DEF Dials
<1>5. ASSUME NEW m \in MemberId, OpensCredit(m) PROVE HandsOff
  <2>1. StreamsKept
    <3>1. /\ \A k \in MemberId \ {m} : flow'[k] = flow[k]
          /\ flow'[m].out = flow[m].out /\ flow'[m].wire = flow[m].wire
      BY <1>1, <1>5, CreditOpened
    <3>2. QED  BY <3>1 DEF StreamsKept
  <2>2. QED  BY <1>2, <1>5, <2>1 DEF OpensCredit
<1>6. ASSUME NEW m \in MemberId, WritesOut(m) PROVE HandsOff
  <2>1. (\A k \in MemberId \ {m} : flow'[k] = flow[k]) /\ flow[m].wire # <<>>
    BY <1>1, <1>6, WritesOutCases
  <2>2. UNCHANGED <<gate, cast, snd>>
    BY <1>6 DEF WritesOut
  <2>3. Started
    BY <2>1 DEF HandedOver, Silent
  <2>4. \A k \in MemberId : Unserved(k) => Unserved(k)'
    BY <2>1, <2>2 DEF Unserved, Silent, Receivers
  <2>5. QED  BY <2>2, <2>3, <2>4 DEF HandsOff, Started
<1>7. CASE TaskCopies
  <2>1. /\ cast'.commands = cast.commands /\ cast'.initial = cast.initial /\ cast'.task = cast.task
        /\ cast.task = "running" /\ Receivers' \subseteq Receivers
        /\ \A m \in MemberId : /\ flow'[m].out = flow[m].out
                               /\ m \in Receivers' \/ flow'[m].wire = flow[m].wire
    BY <1>7, TaskCopiesCases
  <2>2. UNCHANGED <<gate, snd>>
    BY <1>7 DEF TaskCopies, TaskUnchanged
  <2>3. \A k \in MemberId : Unserved(k) => Unserved(k)'
    BY <2>1 DEF Unserved, Silent
  <2>4. QED  BY <2>1, <2>2, <2>3 DEF HandsOff, Started
<1>8. CASE TaskGetsCredit
  <2> DEFINE m == Awaited
  <2>1. /\ cast'.commands = cast.commands /\ cast'.initial = cast.initial /\ cast'.task = cast.task
        /\ cast.task = "running" /\ Receivers' \subseteq Receivers
        /\ m \in MemberId /\ (UNCHANGED flow \/ flow' = [flow EXCEPT ![m].grants = Tail(@)])
    BY <1>8, TaskGetsCreditCases
  <2>2. UNCHANGED <<gate, snd>>
    BY <1>8 DEF TaskGetsCredit, TaskUnchanged
  <2> HIDE DEF m
  <2>3. StreamsKept
    <3>1. CASE flow' = [flow EXCEPT ![m].grants = Tail(@)]
      <4>1. /\ \A k \in MemberId \ {m} : flow'[k] = flow[k]
            /\ flow'[m].out = flow[m].out /\ flow'[m].wire = flow[m].wire
        BY <1>1, <2>1, <3>1, GrantTaken
      <4>2. QED  BY <4>1 DEF StreamsKept
    <3>2. CASE UNCHANGED flow
      BY <3>2 DEF StreamsKept
    <3>3. QED  BY <2>1, <3>1, <3>2
  <2>4. \A k \in MemberId : Unserved(k) => Unserved(k)'
    BY <2>1, <2>3, UnservedKept
  <2>5. QED  BY <2>1, <2>2, <2>4 DEF HandsOff, Started
<1>9. CASE TaskIsLeft \/ TaskReadsEnd \/ TaskFinishes
  <2>1. /\ cast'.commands = cast.commands /\ cast'.initial = cast.initial /\ Receivers' = Receivers
        /\ Started /\ Started'
        /\ UNCHANGED flow \/ \E m \in Receivers : flow' = [flow EXCEPT ![m].fin = "finished"]
    BY <1>9, TaskEndsCases DEF Started
  <2>2. UNCHANGED <<gate, snd>>
    BY <1>9 DEF TaskIsLeft, TaskReadsEnd, TaskFinishes, TaskUnchanged
  <2>3. StreamsKept
    <3>1. ASSUME NEW m \in Receivers, flow' = [flow EXCEPT ![m].fin = "finished"] PROVE StreamsKept
      <4>1. /\ \A k \in MemberId \ {m} : flow'[k] = flow[k]
            /\ flow'[m].out = flow[m].out /\ flow'[m].wire = flow[m].wire
        BY <1>1, <3>1, FinSet
      <4>2. QED  BY <4>1 DEF StreamsKept
    <3>2. CASE UNCHANGED flow
      BY <3>2 DEF StreamsKept
    <3>3. QED  BY <2>1, <3>1, <3>2
  <2>4. \A k \in MemberId : Unserved(k) => Unserved(k)'
    BY <2>1, <2>3, UnservedKept
  <2>5. QED  BY <2>1, <2>2, <2>4 DEF HandsOff, Started
<1>10. QED  BY <1>3, <1>4, <1>5, <1>6, <1>7, <1>8, <1>9

LEMMA InTail ==
  ASSUME NEW S, NEW s \in Seq(S), s # <<>>, NEW t, t = Tail(s), NEW e \in S
  PROVE  /\ NotIn(s, e) => NotIn(t, e) /\ Head(s) # e
         /\ OnceIn(s, e) => OnceIn(t, e)
         /\ OnceIn(s, e) /\ Head(s) = e => NotIn(t, e)
         /\ ~NotIn(t, e) => ~NotIn(s, e)
         /\ Head(s) = e => ~NotIn(s, e)
<1>1. /\ Head(s) = s[1] /\ 1 \in DOMAIN s /\ t \in Seq(S)
      /\ \A i \in DOMAIN t : t[i] = s[i + 1] /\ i + 1 \in DOMAIN s
  BY HeadAndTail
<1>2. \A i \in DOMAIN t : i \in Nat \ {0}
  BY <1>1
<1>3. \A i, k \in DOMAIN t : i + 1 = k + 1 => i = k
  BY <1>2
<1>4. \A i \in DOMAIN t : i + 1 # 1
  BY <1>2
<1>5. QED  BY <1>1, <1>3, <1>4 DEF OnceIn, NotIn

LEMMA InAppend ==
  ASSUME NEW S, NEW s \in Seq(S), NEW x \in S, NEW t, t = Append(s, x), NEW e \in S
  PROVE  /\ NotIn(s, e) /\ x # e => NotIn(t, e)
         /\ OnceIn(s, e) /\ x # e => OnceIn(t, e)
         /\ NotIn(s, e) => OnceIn(t, e)
         /\ ~NotIn(t, e) => x = e \/ ~NotIn(s, e)
<1>1. \A i \in DOMAIN t : (i = Len(s) + 1 /\ t[i] = x) \/ (i \in DOMAIN s /\ t[i] = s[i])
  BY OneMore
<1>2. QED  BY <1>1 DEF OnceIn, NotIn

\* A change of the gate or the commands alone.
LEMMA ForgetsKept ==
  ASSUME Typed, HandedOver, NEW m \in MemberId, Forgets(m)
  PROVE  HandedOver'
<1>1. /\ UNCHANGED <<flow, gate>> /\ snd'.streams = snd.streams \ {m}
      /\ \/ ~Started /\ UNCHANGED cast
         \/ Started /\ cast' = [cast EXCEPT !.commands = Append(@, Command("remove", m))]
      /\ CastTyped /\ m # source /\ UNCHANGED source
  BY DEF Forgets, Typed
<1>2. CASE UNCHANGED cast /\ ~Started
  BY <1>1, <1>2 DEF HandedOver, Coming, Early, NotArrived, Unserved, Silent, NotAdded, Receivers, Started
<1>3. CASE Started /\ cast' = [cast EXCEPT !.commands = Append(@, Command("remove", m))]
  <2>1. /\ Started' /\ Receivers' = Receivers /\ cast'.initial = cast.initial
        /\ cast'.commands = Append(cast.commands, Command("remove", m))
    BY <1>1, <1>3, CommandTyped
  <2>2. \A k \in MemberId : Command("remove", m) # Command("add", k)
    BY DEF Command
  <2>3. cast.commands \in Seq(TaskCommand) /\ Command("remove", m) \in TaskCommand
    BY TakenInType DEF TaskCommand, Command
  <2>4. ASSUME NEW k \in MemberId
        PROVE  /\ NotAdded(k)' <=> NotAdded(k)
               /\ OnceIn(cast.commands, Command("add", k)) => OnceIn(cast'.commands, Command("add", k))
    <3> DEFINE e == Command("add", k)
               x == Command("remove", m)
    <3>1. e # x
      BY <2>2
    <3>2. /\ NotIn(cast.commands, e) => NotIn(cast'.commands, e)
          /\ ~NotIn(cast'.commands, e) => ~NotIn(cast.commands, e)
          /\ OnceIn(cast.commands, e) => OnceIn(cast'.commands, e)
      <4>1. x \in TaskCommand /\ cast'.commands = Append(cast.commands, x) /\ e \in TaskCommand
        BY <2>1, <2>3 DEF TaskCommand, Command
      <4> HIDE DEF e, x
      <4>2. QED  BY <2>3, <3>1, <4>1, InAppend
    <3>3. cast'.commands = Append(cast.commands, x)
      BY <2>1
    <3>4. ~NotIn(cast.commands, e) => ~NotIn(cast'.commands, e)
      <4>1. x \in TaskCommand
        BY <2>3
      <4> HIDE DEF e, x
      <4>2. \A i \in DOMAIN cast.commands : i \in DOMAIN cast'.commands /\ cast'.commands[i] = cast.commands[i]
        BY <2>3, <3>3, <4>1, OneMore
      <4>3. QED  BY <4>2 DEF NotIn
    <3>5. QED  BY <3>2, <3>4 DEF NotAdded, Command
  <2>5. \A k \in MemberId : (Unserved(k)' <=> Unserved(k)) /\ (Coming(k)' <=> Coming(k))
    BY <1>1, <2>1 DEF Unserved, Silent, Coming, Early, NotArrived
  <2>6. QED
    BY <1>1, <1>3, <2>1, <2>4, <2>5 DEF HandedOver, Early, NotArrived, Command
<1>4. QED  BY <1>1, <1>2, <1>3

LEMMA GatesKept ==
  ASSUME Typed, HandedOver, NEW m \in MemberId, Gates(m)
  PROVE  HandedOver'
<1>1. /\ UNCHANGED <<snd, cast>> /\ flow \in [MemberId -> Flow] /\ gate.arrivals \in Seq(ChannelId)
      /\ gate \in GateState /\ MemberId \subseteq ChannelId /\ Nobody \in ChannelId /\ Nobody \notin MemberId
  BY TakenInType, Numbers DEF Gates, BeginAccept, EndAccept, AcceptFails, Typed
<1>2. /\ \A k \in MemberId \ {m} : Early(k)' <=> Early(k)
      /\ StreamsKept
  <2>1. CASE UNCHANGED flow
    BY <2>1 DEF StreamsKept, Early
  <2>2. ASSUME NEW x, flow' = [flow EXCEPT ![m].stage = x]
        PROVE  (\A k \in MemberId \ {m} : Early(k)' <=> Early(k)) /\ StreamsKept
    <3>1. /\ \A k \in MemberId \ {m} : flow'[k] = flow[k]
          /\ flow'[m].out = flow[m].out /\ flow'[m].wire = flow[m].wire
      BY <1>1, <2>2, StageSet
    <3>2. QED  BY <3>1 DEF StreamsKept, Early
  <2>3. QED  BY <2>1, <2>2 DEF Gates, BeginAccept, EndAccept, AcceptFails
<1>3. \A k \in MemberId : /\ Unserved(k) => Unserved(k)'
                          /\ Silent(k) => Silent(k)'
                          /\ NotAdded(k)' <=> NotAdded(k)
  <2>1. Receivers' = Receivers /\ cast'.initial = cast.initial
    BY <1>1 DEF Receivers
  <2>2. QED  BY <1>1, <1>2, <2>1, UnservedKept DEF NotAdded, Command
<1>4. ASSUME NEW k \in MemberId
      PROVE  /\ OnceIn(gate'.arrivals, k)
             /\ Early(k)' \/ gate'.accepting = k => NotArrived(k)'
             /\ Coming(k)' => Coming(k)
  <2>1. /\ OnceIn(gate.arrivals, k) /\ (Early(k) \/ gate.accepting = k => NotArrived(k))
        /\ k \in ChannelId /\ k # Nobody
    BY <1>1 DEF HandedOver
  <2>2. CASE BeginAccept(m)
    <3>1. gate'.accepting = m /\ gate'.arrivals = gate.arrivals /\ Early(m)
      BY <1>1, <2>2 DEF BeginAccept, GateState, Early
    <3>2. Early(k)' => Early(k)
      BY <1>2, <3>1
    <3>3. NotArrived(k)' <=> NotArrived(k)
      BY <3>1 DEF NotArrived
    <3>4. QED  BY <2>1, <3>1, <3>2, <3>3 DEF Coming
  <2>3. CASE EndAccept(m)
    <3>1. /\ gate'.accepting = Nobody /\ gate'.arrivals = Append(gate.arrivals, m)
          /\ gate.accepting = m /\ ~Early(m) /\ ~Early(m)'
      BY <1>1, <2>3 DEF EndAccept, Early
    <3>2. CASE k = m
      <4>1. NotArrived(k)
        BY <2>1, <3>1, <3>2
      <4>2. OnceIn(gate'.arrivals, k)
        BY <1>1, <2>1, <3>1, <4>1, InAppend DEF NotArrived
      <4>3. QED  BY <2>1, <3>1, <3>2, <4>2 DEF Coming
    <3>3. CASE k # m
      <4>1. /\ NotIn(gate.arrivals, k) => NotIn(gate'.arrivals, k)
            /\ OnceIn(gate.arrivals, k) => OnceIn(gate'.arrivals, k)
            /\ ~NotIn(gate'.arrivals, k) => ~NotIn(gate.arrivals, k)
        BY <1>1, <2>1, <3>1, <3>3, InAppend
      <4>2. Early(k)' <=> Early(k)
        BY <1>2, <3>3
      <4>3. QED  BY <2>1, <3>1, <4>1, <4>2 DEF Coming, NotArrived
    <3>4. QED  BY <3>2, <3>3
  <2>4. CASE AcceptFails(m)
    <3>1. /\ gate'.accepting = Nobody /\ gate'.arrivals = Append(gate.arrivals, Nobody)
          /\ flow' = [flow EXCEPT ![m].stage = "ended"]
      BY <2>4 DEF AcceptFails
    <3>2. /\ NotIn(gate.arrivals, k) => NotIn(gate'.arrivals, k)
          /\ OnceIn(gate.arrivals, k) => OnceIn(gate'.arrivals, k)
          /\ ~NotIn(gate'.arrivals, k) => ~NotIn(gate.arrivals, k)
      BY <1>1, <2>1, <3>1, InAppend
    <3>3. ~Early(m)'
      <4>1. flow'[m].stage = "ended"
        BY <1>1, <3>1, StageSet
      <4>2. QED  BY <4>1 DEF Early
    <3>4. Early(k)' => Early(k)
      BY <1>2, <3>3
    <3>5. QED  BY <2>1, <3>1, <3>2, <3>4 DEF Coming, NotArrived
  <2>5. QED  BY <2>2, <2>3, <2>4 DEF Gates
<1>5. (Started' <=> Started) /\ Receivers' = Receivers /\ cast' = cast /\ snd' = snd
  BY <1>1 DEF Started, Receivers
<1>6. QED  BY <1>3, <1>4, <1>5 DEF HandedOver, Command

\* The first arrival is dropped.
LEMMA NextArrival ==
  ASSUME Typed, HandedOver, UNCHANGED flow, gate.arrivals # <<>>,
         gate' = [gate EXCEPT !.arrivals = Tail(@)]
  PROVE  /\ \A k \in MemberId :
              /\ OnceIn(gate'.arrivals, k)
              /\ Early(k)' \/ gate'.accepting = k => NotArrived(k)'
              /\ Coming(k)' => Coming(k) /\ k # Head(gate.arrivals)
         /\ Head(gate.arrivals) \in MemberId => Coming(Head(gate.arrivals))
<1>1. /\ gate'.accepting = gate.accepting /\ gate'.arrivals = Tail(gate.arrivals)
      /\ gate.arrivals \in Seq(ChannelId) /\ MemberId \subseteq ChannelId
  BY TakenInType, Numbers DEF Typed, GateState
<1>2. ASSUME NEW k \in MemberId
      PROVE  /\ OnceIn(gate'.arrivals, k)
             /\ Early(k)' \/ gate'.accepting = k => NotArrived(k)'
             /\ Coming(k)' => Coming(k) /\ k # Head(gate.arrivals)
             /\ k = Head(gate.arrivals) => Coming(k)
  <2>1. /\ OnceIn(gate.arrivals, k) /\ (Early(k) \/ gate.accepting = k => NotArrived(k))
        /\ k \in ChannelId
    BY <1>1 DEF HandedOver
  <2>2. /\ NotIn(gate.arrivals, k) => NotIn(gate'.arrivals, k) /\ Head(gate.arrivals) # k
        /\ OnceIn(gate.arrivals, k) => OnceIn(gate'.arrivals, k)
        /\ OnceIn(gate.arrivals, k) /\ Head(gate.arrivals) = k => NotIn(gate'.arrivals, k)
        /\ ~NotIn(gate'.arrivals, k) => ~NotIn(gate.arrivals, k)
        /\ Head(gate.arrivals) = k => ~NotIn(gate.arrivals, k)
    BY <1>1, <2>1, InTail
  <2>3. Early(k)' <=> Early(k)
    BY DEF Early
  <2>4. QED  BY <1>1, <2>1, <2>2, <2>3 DEF Coming, NotArrived
<1>3. QED  BY <1>2

LEMMA RefusedKept ==
  ASSUME Typed, HandedOver, Refused
  PROVE  HandedOver'
<1>1. /\ UNCHANGED <<flow, cast, snd, source>> /\ gate.arrivals # <<>>
      /\ gate' = [gate EXCEPT !.arrivals = Tail(@)]
  BY DEF Refused
<1>2. \A k \in MemberId : (Unserved(k)' <=> Unserved(k)) /\ (NotAdded(k)' <=> NotAdded(k))
                          /\ (Silent(k)' <=> Silent(k))
  BY <1>1 DEF Unserved, Silent, Receivers, NotAdded, Command
<1>3. (Started' <=> Started) /\ Receivers' = Receivers
  BY <1>1 DEF Started, Receivers
<1>4. QED  BY <1>1, <1>2, <1>3, NextArrival DEF HandedOver, Command

LEMMA TakenKept ==
  ASSUME Typed, HandedOver, Taken
  PROVE  HandedOver'
<1> DEFINE m == Head(gate.arrivals)
<1>1. /\ UNCHANGED <<flow, source>> /\ gate.arrivals # <<>>
      /\ gate' = [gate EXCEPT !.arrivals = Tail(@)]
      /\ m \in snd.targets /\ Attaches(m)
      /\ m \in MemberId /\ m # source /\ CastTyped /\ cast.commands \in Seq(TaskCommand)
  BY TakenInType DEF Taken, Typed, SenderTyped, SenderState
<1>2. /\ \A k \in MemberId :
           /\ OnceIn(gate'.arrivals, k)
           /\ Early(k)' \/ gate'.accepting = k => NotArrived(k)'
           /\ Coming(k)' => Coming(k) /\ k # m
      /\ Coming(m)
  BY <1>1, NextArrival
<1>3. Unserved(m) /\ m \notin snd.streams /\ NotAdded(m)
  BY <1>1, <1>2 DEF HandedOver
<1>4. /\ cast'.pos = cast.pos
      /\ \/ /\ Started /\ snd' = snd
            /\ cast' = [cast EXCEPT !.commands = Append(@, Command("add", m))]
         \/ /\ ~Started /\ cast' = cast /\ snd'.streams = snd.streams \cup {m}
         \/ /\ ~Started /\ snd'.streams = {}
            /\ Receivers' = snd.streams \cup {m} /\ cast'.initial = snd.streams \cup {m}
            /\ cast'.task = "running" /\ cast'.commands = cast.commands
  BY <1>1, AttachCases
<1> HIDE DEF m
<1>5. \A k \in MemberId : Silent(k)' <=> Silent(k)
  BY <1>1 DEF Silent
<1>6. CASE Started /\ snd' = snd /\ cast' = [cast EXCEPT !.commands = Append(@, Command("add", m))]
  <2> DEFINE x == Command("add", m)
  <2>1. /\ Started' /\ Receivers' = Receivers /\ cast'.initial = cast.initial
        /\ cast'.commands = Append(cast.commands, x)
    BY <1>1, <1>6, CommandTyped
  <2>2. x \in TaskCommand
    BY <1>1 DEF TaskCommand, Command
  <2>3. ASSUME NEW k \in MemberId
        PROVE  /\ OnceIn(cast'.commands, Command("add", k))
               /\ ~NotIn(cast'.commands, Command("add", k)) => k = m \/ ~NotAdded(k)
               /\ Unserved(k)' <=> Unserved(k)
    <3> DEFINE e == Command("add", k)
    <3>1. e \in TaskCommand /\ (e = x => k = m) /\ (k = m => e = x)
      BY DEF TaskCommand, Command
    <3>2. OnceIn(cast.commands, e) /\ (NotIn(cast.commands, e) <=> NotAdded(k))
      BY DEF HandedOver, NotAdded
    <3>3. Unserved(k)' <=> Unserved(k)
      BY <1>5, <2>1 DEF Unserved
    <3>9. cast.commands \in Seq(TaskCommand) /\ cast'.commands = Append(cast.commands, x)
      BY <1>1, <2>1
    <3> HIDE DEF e, x
    <3>4. /\ OnceIn(cast.commands, e) /\ x # e => OnceIn(cast'.commands, e)
          /\ NotIn(cast.commands, e) => OnceIn(cast'.commands, e)
          /\ ~NotIn(cast'.commands, e) => x = e \/ ~NotIn(cast.commands, e)
      BY <2>2, <3>1, <3>9, InAppend
    <3>5. OnceIn(cast'.commands, e) /\ (~NotIn(cast'.commands, e) => k = m \/ ~NotAdded(k))
      BY <1>3, <3>1, <3>2, <3>4
    <3>6. QED  BY <3>3, <3>5 DEF e
  <2>4. ASSUME NEW k \in MemberId
        PROVE  /\ OnceIn(cast.commands, Command("add", k))'
               /\ Coming(k)' => Unserved(k)' /\ k \notin snd'.streams /\ NotAdded(k)'
               /\ ~NotAdded(k)' => Unserved(k)'
    <3>1. NotAdded(k)' <=> NotIn(cast'.commands, Command("add", k))
      BY DEF NotAdded, Command
    <3>2. /\ Coming(k) => Unserved(k) /\ k \notin snd.streams /\ NotAdded(k)
          /\ ~NotAdded(k) => Unserved(k)
      BY DEF HandedOver
    <3>3. OnceIn(cast.commands, Command("add", k))'
      BY <2>3 DEF Command
    <3>4. QED  BY <1>2, <1>3, <1>6, <2>3, <3>1, <3>2, <3>3
  <2>5. QED  BY <1>2, <1>6, <2>1, <2>4 DEF HandedOver
<1>7. CASE ~Started /\ cast' = cast /\ snd'.streams = snd.streams \cup {m}
  <2>1. ~Started' /\ Receivers' = Receivers /\ cast'.initial = cast.initial
    BY <1>7 DEF Started, Receivers
  <2>2. \A k \in MemberId : (Unserved(k)' <=> Unserved(k)) /\ (NotAdded(k)' <=> NotAdded(k))
    BY <1>5, <1>7, <2>1 DEF Unserved, NotAdded, Command
  <2>3. QED  BY <1>2, <1>5, <1>7, <2>1, <2>2 DEF HandedOver, Command
<1>8. CASE /\ ~Started /\ snd'.streams = {}
           /\ Receivers' = snd.streams \cup {m} /\ cast'.initial = snd.streams \cup {m}
           /\ cast'.task = "running" /\ cast'.commands = cast.commands
  <2>1. Started' /\ cast'.commands = <<>>
    BY <1>8 DEF HandedOver, Started
  <2>2. \A k \in MemberId : NotAdded(k)' /\ OnceIn(cast'.commands, Command("add", k))
    BY <2>1 DEF NotAdded, OnceIn, NotIn
  <2>3. \A k \in MemberId : Coming(k)' => Unserved(k)'
    BY <1>2, <1>5, <1>8 DEF HandedOver, Unserved
  <2>4. QED  BY <1>2, <1>8, <2>1, <2>2, <2>3 DEF HandedOver, Command
<1>9. QED  BY <1>4, <1>6, <1>7, <1>8

LEMMA CeasedKept ==
  ASSUME Typed, HandedOver, Ceased
  PROVE  HandedOver'
<1>1. /\ gate'.arrivals = <<>> /\ gate'.accepting = Nobody /\ snd' = snd
      /\ Receivers' = {} /\ cast'.commands = <<>> /\ (Started' <=> Started)
      /\ cast'.pos = cast.pos /\ cast'.initial = cast.initial
  BY SourceIsGoneTyped DEF Ceased
<1>2. \A k \in MemberId : /\ flow'[k].stage = flow[k].stage /\ flow'[k].out = flow[k].out
                          /\ flow'[k].wire = flow[k].wire \/ flow'[k].wire = <<>>
  BY CutStreamsCases DEF Ceased, SourceIsGone
<1>3. \A k \in MemberId : (Early(k)' <=> Early(k)) /\ (Silent(k) => Silent(k)')
  BY <1>2 DEF Early, Silent
<1>4. \A k \in MemberId : Unserved(k) => Unserved(k)'
  BY <1>1, <1>3 DEF Unserved
<1>5. \A e : OnceIn(<<>>, e) /\ NotIn(<<>>, e)
  BY DEF OnceIn, NotIn
<1>6. \A k \in MemberId : k # Nobody
  BY Numbers
<1>7. \A k \in MemberId : NotAdded(k)' /\ NotArrived(k)' /\ (Coming(k)' => Coming(k))
  BY <1>1, <1>3, <1>5, <1>6 DEF NotAdded, NotArrived, Coming
<1>8. QED  BY <1>1, <1>3, <1>4, <1>5, <1>7 DEF HandedOver

LEMMA TaskObeysKept ==
  ASSUME Typed, HandedOver, TaskObeys
  PROVE  HandedOver'
<1> DEFINE c == Head(cast.commands)
<1>1. /\ c \in TaskCommand /\ cast.commands # <<>> /\ cast.commands \in Seq(TaskCommand)
      /\ cast'.commands = Tail(cast.commands) /\ cast'.initial = cast.initial
      /\ Started /\ Started'
      /\ Receivers' = IF c.type = "add" THEN Receivers \cup {c.of} ELSE Receivers \ {c.of}
  BY TaskObeysCases, TakenInType DEF Started
<1>2. UNCHANGED <<flow, gate, snd>>
  BY DEF TaskObeys, TaskUnchanged
<1> HIDE DEF c
<1>3. c.type = "add" => c = Command("add", c.of) /\ c.of \in MemberId
  BY <1>1 DEF TaskCommand, Command
<1>4. ASSUME NEW k \in MemberId
      PROVE  /\ OnceIn(cast'.commands, Command("add", k))
             /\ NotAdded(k) => NotAdded(k)'
             /\ c = Command("add", k) => ~NotAdded(k) /\ NotAdded(k)'
             /\ ~NotAdded(k)' => ~NotAdded(k)
  <2> DEFINE e == Command("add", k)
  <2>1. e \in TaskCommand
    BY DEF TaskCommand, Command
  <2>2. /\ OnceIn(cast.commands, e) /\ (NotIn(cast.commands, e) <=> NotAdded(k))
        /\ NotIn(cast'.commands, e) <=> NotAdded(k)'
    BY DEF HandedOver, NotAdded, Command
  <2>3. c = Head(cast.commands)
    BY DEF c
  <2>4. QED
    <3> HIDE DEF e
    <3>1. /\ NotIn(cast.commands, e) => NotIn(cast'.commands, e) /\ Head(cast.commands) # e
          /\ OnceIn(cast.commands, e) => OnceIn(cast'.commands, e)
          /\ OnceIn(cast.commands, e) /\ Head(cast.commands) = e => NotIn(cast'.commands, e)
      BY <1>1, <2>1, InTail
    <3>2. /\ OnceIn(cast'.commands, e) /\ (NotAdded(k) => NotAdded(k)')
          /\ c = e => ~NotAdded(k) /\ NotAdded(k)'
      BY <2>2, <2>3, <3>1
    <3>3. QED  BY <3>2 DEF e
<1>5. ASSUME NEW k \in MemberId, Unserved(k), c # Command("add", k)
      PROVE  Unserved(k)'
  BY <1>1, <1>2, <1>3, <1>5 DEF Unserved, Silent
<1>6. \A k \in MemberId : Coming(k)' <=> Coming(k)
  BY <1>2 DEF Coming, Early, NotArrived
<1>7. ASSUME NEW k \in MemberId, Coming(k)
      PROVE  Unserved(k)' /\ k \notin snd.streams /\ NotAdded(k)'
  <2>1. Unserved(k) /\ k \notin snd.streams /\ NotAdded(k)
    BY <1>7 DEF HandedOver
  <2>2. QED  BY <1>4, <1>5, <2>1
<1>8. ASSUME NEW k \in MemberId, ~NotAdded(k)'
      PROVE  Unserved(k)'
  <2>1. ~NotAdded(k) /\ c # Command("add", k)
    BY <1>4, <1>8
  <2>2. QED  BY <1>5, <2>1 DEF HandedOver
<1>9. QED
  BY <1>1, <1>2, <1>4, <1>6, <1>7, <1>8 DEF HandedOver, Early, NotArrived, Command

LEMMA StepHandedOver ==
  ASSUME Typed, HandedOver, StagesGrow, Kinds
  PROVE  HandedOver'
<1>1. CASE \/ Aside \/ TaskIsLeft \/ TaskGetsCredit \/ TaskCopies \/ TaskReadsEnd \/ TaskFinishes
           \/ \E m \in MemberId : Dials(m) \/ OpensCredit(m) \/ WritesOut(m)
  BY <1>1, HandsOffKinds, HandedOverKept
<1>2. QED
  BY <1>1, RefusedKept, TakenKept, CeasedKept, TaskObeysKept, ForgetsKept, GatesKept DEF Kinds, TaskStep

LEMMA InitHandedOver ==
  ASSUME PipeInit
  PROVE  HandedOver
<1>1. /\ gate.accepting = Nobody /\ gate.arrivals = <<>> /\ cast.commands = <<>>
      /\ snd.streams = {} /\ Receivers = {} /\ cast.initial = {} /\ cast.pos = 0 /\ ~Started
      /\ \A m \in MemberId : Silent(m)
  BY DEF PipeInit, Receivers, Started, Silent, NoFlow
<1>2. \A e : OnceIn(<<>>, e) /\ NotIn(<<>>, e)
  BY DEF OnceIn, NotIn
<1>3. QED  BY <1>1, <1>2 DEF HandedOver, Unserved, NotAdded, NotArrived

LEMMA AlwaysHandedOver == PipeSpec => []HandedOver
BY AlwaysTyped, AlwaysOneOffer, AlwaysAbsentees, InitHandedOver, StepKinds, KindStages,
   StepHandedOver, PTL DEF PipeSpec

-----------------------------------------------------------------------------
(* Nobody has more under way than it has granted.                          *)

LEMMA OwedMore ==
  ASSUME NEW n \in Nat
  PROVE  Owed(n) \in Nat /\ Owed(n + 1) = Owed(n) + Grant /\ Owed(0) = 0
BY Numbers DEF Owed

LEMMA CreditTyped ==
  ASSUME Typed
  PROVE  /\ \A m \in Receivers : cast.receivers[m].credit \in Nat
         /\ \A m \in MemberId :
              /\ Credit(m) \in Nat
              /\ flow[m].pending \in Nat /\ flow[m].grants \in Seq(Nat) /\ flow[m].wire \in Seq(Byte)
              /\ Len(flow[m].grants) \in Nat /\ Len(flow[m].wire) \in Nat
<1>1. /\ cast.receivers \in ReceiverMap /\ flow \in [MemberId -> Flow]
  BY DEF Typed, CastTyped, CastState
<1>2. \A m \in Receivers : cast.receivers[m] \in Receiver
  BY <1>1, ReceiverMaps DEF Receivers
<1>3. \A m \in Receivers : cast.receivers[m].credit \in Nat
  BY <1>2 DEF Receiver
<1>4. \A m \in MemberId : Credit(m) \in Nat
  BY <1>3 DEF Credit
<1>5. ASSUME NEW m \in MemberId
      PROVE  flow[m].pending \in Nat /\ flow[m].grants \in Seq(Nat) /\ flow[m].wire \in Seq(Byte)
  BY <1>1 DEF Flow, ByteSeq, Byte
<1>6. \A m \in MemberId : Len(flow[m].grants) \in Nat /\ Len(flow[m].wire) \in Nat
  BY <1>5
<1>7. QED  BY <1>3, <1>4, <1>5, <1>6

LEMMA CreditTypedNext ==
  ASSUME Typed'
  PROVE  \A m \in MemberId : Credit(m)' \in Nat /\ flow'[m].wire \in Seq(Byte)
<1>1. /\ cast'.receivers \in ReceiverMap /\ flow' \in [MemberId -> Flow]
  BY DEF Typed, CastTyped, CastState
<1>2. \A m \in Receivers' : cast'.receivers[m] \in Receiver
  BY <1>1, ReceiverMaps DEF Receivers
<1>3. \A m \in Receivers' : cast'.receivers[m].credit \in Nat
  BY <1>2 DEF Receiver
<1>4. \A m \in MemberId : Credit(m)' \in Nat
  BY <1>3 DEF Credit
<1>5. \A m \in MemberId : flow'[m].wire \in Seq(Byte)
  BY <1>1 DEF Flow, ByteSeq, Byte
<1>6. QED  BY <1>4, <1>5

\* Nothing is granted or written out, and what is under way does not grow.
Spares(m) ==
  /\ flow'[m].grants = flow[m].grants /\ flow'[m].pending = flow[m].pending
  /\ flow'[m].wire = flow[m].wire \/ flow'[m].wire = <<>>
  /\ Credit(m)' <= Credit(m)

LEMMA LessUnderWay ==
  ASSUME NEW grants \in Seq(Nat), NEW wire \in Seq(Byte), NEW w \in Seq(Byte), NEW pending \in Nat,
         NEW credit \in Nat, NEW c \in Nat, Balanced(grants, wire, pending, credit),
         w = wire \/ w = <<>>, c <= credit
  PROVE  Balanced(grants, w, pending, c)
<1>1. /\ Len(grants) \in Nat /\ Len(wire) \in Nat /\ Len(w) \in Nat /\ Len(w) <= Len(wire)
      /\ Owed(Len(grants)) \in Nat
  <2>1. Len(grants) \in Nat /\ Len(wire) \in Nat
    OBVIOUS
  <2>2. Len(w) \in Nat /\ Len(w) <= Len(wire)
    <3>1. CASE w = <<>>
      BY <2>1, <3>1
    <3>2. CASE w = wire
      BY <2>1, <3>2
    <3>3. QED  BY <3>1, <3>2
  <2>3. QED  BY <2>1, <2>2, OwedMore
<1>2. CASE grants = <<Window>> /\ wire = <<>> /\ pending = 0 /\ credit = 0
  <2>1. w = <<>> /\ c = 0
    BY <1>2
  <2>2. QED  BY <1>2, <2>1, Zenon DEF Balanced
<1>3. CASE /\ \A i \in DOMAIN grants : grants[i] = Grant
           /\ credit + Owed(Len(grants)) + Len(wire) + pending <= Window
  <2>1. c + Owed(Len(grants)) + Len(w) + pending <= Window
    BY <1>1, <1>3, Numbers
  <2>2. QED  BY <1>3, <2>1 DEF Balanced
<1>4. QED  BY <1>2, <1>3 DEF Balanced

LEMMA SparesAccount ==
  ASSUME Typed, Typed', NEW m \in MemberId, Account(m), Spares(m), Early(m)' => Early(m)
  PROVE  Account(m)'
<1>1. /\ Credit(m) \in Nat /\ flow[m].pending \in Nat
      /\ flow[m].grants \in Seq(Nat) /\ flow[m].wire \in Seq(Byte)
  BY CreditTyped
<1>2. Credit(m)' \in Nat /\ flow'[m].wire \in Seq(Byte)
  BY CreditTypedNext
<1>3. /\ flow'[m].grants = flow[m].grants /\ flow'[m].pending = flow[m].pending
      /\ flow'[m].wire = flow[m].wire \/ flow'[m].wire = <<>>
      /\ Credit(m)' <= Credit(m)
  BY DEF Spares
<1>4. /\ Balanced(flow[m].grants, flow[m].wire, flow[m].pending, Credit(m))
      /\ flow[m].pending < Grant
      /\ Early(m) => flow[m].grants = <<>> /\ flow[m].pending = 0
  BY DEF Account
<1>5. Balanced(flow[m].grants, flow'[m].wire, flow[m].pending, Credit(m)')
  BY <1>1, <1>2, <1>3, <1>4, LessUnderWay
<1>6. Balanced(flow'[m].grants, flow'[m].wire, flow'[m].pending, Credit(m)')
  BY <1>3, <1>5
<1>7. QED  BY <1>3, <1>4, <1>6 DEF Account, Balanced, Owed

\* No receiver's credit grows, and no stream's share of the account does.
CreditsKept ==
  \A m \in Receivers' : IF m \in Receivers THEN cast'.receivers[m].credit <= cast.receivers[m].credit
                        ELSE cast'.receivers[m].credit = 0
GrantsKept ==
  \A m \in MemberId : /\ flow'[m].grants = flow[m].grants /\ flow'[m].pending = flow[m].pending
                      /\ flow'[m].wire = flow[m].wire \/ flow'[m].wire = <<>>

LEMMA CreditsShrink ==
  ASSUME Typed, CreditsKept
  PROVE  \A m \in MemberId : Credit(m)' <= Credit(m)
<1> SUFFICES ASSUME NEW m \in MemberId PROVE Credit(m)' <= Credit(m)
  OBVIOUS
<1>1. Credit(m) \in Nat
  BY CreditTyped
<1>2. CASE m \in Receivers'
  BY <1>1, <1>2 DEF CreditsKept, Credit
<1>3. CASE m \notin Receivers'
  <2>1. Credit(m)' = 0
    BY <1>3 DEF Credit
  <2>2. QED  BY <1>1, <2>1
<1>4. QED  BY <1>2, <1>3

LEMMA AccountedKept ==
  ASSUME Typed, Typed', Accounted, StagesGrow, CreditsKept, GrantsKept
  PROVE  Accounted'
<1>1. ASSUME NEW m \in MemberId PROVE Account(m)'
  <2>1. Account(m) /\ (Early(m)' => Early(m))
    BY DEF Accounted, StagesGrow
  <2>2. Spares(m)
    BY CreditsShrink DEF Spares, GrantsKept
  <2>3. QED  BY <2>1, <2>2, SparesAccount
<1>2. QED  BY <1>1 DEF Accounted

LEMMA SameReceivers ==
  ASSUME Typed, cast'.receivers = cast.receivers
  PROVE  CreditsKept
<1>1. \A m \in Receivers : cast.receivers[m].credit \in Nat
  BY CreditTyped
<1>2. QED  BY <1>1 DEF CreditsKept, Receivers

LEMMA CommandsCredit ==
  ASSUME Typed, TaskObeys
  PROVE  CreditsKept
<1> DEFINE c == Head(cast.commands)
<1>1. /\ Receivers' = IF c.type = "add" THEN Receivers \cup {c.of} ELSE Receivers \ {c.of}
      /\ \A m \in Receivers' : IF c.type = "add" /\ m = c.of THEN cast'.receivers[m] = NewReceiver
                               ELSE cast'.receivers[m] = cast.receivers[m]
  BY TaskObeysCases
<1> HIDE DEF c
<1>2. \A m \in Receivers : cast.receivers[m].credit \in Nat
  BY CreditTyped
<1>3. NewReceiver.credit = 0
  BY DEF NewReceiver
<1>4. ASSUME NEW m \in Receivers'
      PROVE  IF m \in Receivers THEN cast'.receivers[m].credit <= cast.receivers[m].credit
             ELSE cast'.receivers[m].credit = 0
  <2>1. CASE c.type = "add" /\ m = c.of
    BY <1>1, <1>2, <1>3, <2>1
  <2>2. CASE ~ (c.type = "add" /\ m = c.of)
    BY <1>1, <1>2, <2>2
  <2>3. QED  BY <2>1, <2>2
<1>5. QED  BY <1>4 DEF CreditsKept

LEMMA TakenCredit ==
  ASSUME Typed, HandedOver, Taken
  PROVE  CreditsKept
<1> DEFINE m == Head(gate.arrivals)
<1>1. m \in snd.targets /\ Attaches(m) /\ UNCHANGED source /\ CastTyped /\ m \in MemberId /\ m # source
  BY DEF Taken, Typed, SenderTyped, SenderState
<1> HIDE DEF m
<1>2. \/ cast' = [cast EXCEPT !.commands = Append(@, Command("add", m))]
      \/ cast' = cast
      \/ /\ ~Started
         /\ \A k \in Receivers' : cast'.receivers[k] = NewReceiver
  BY <1>1, AttachCases
<1>3. CASE cast' = [cast EXCEPT !.commands = Append(@, Command("add", m))]
  BY <1>1, <1>3, CommandTyped, SameReceivers
<1>4. CASE cast' = cast
  BY <1>4, SameReceivers
<1>5. CASE /\ ~Started
           /\ \A k \in Receivers' : cast'.receivers[k] = NewReceiver
  <2>1. Receivers = {} /\ NewReceiver.credit = 0
    BY <1>5 DEF HandedOver, NewReceiver
  <2>2. QED  BY <1>5, <2>1 DEF CreditsKept
<1>6. QED  BY <1>2, <1>3, <1>4, <1>5

\* All steps that neither grant nor use credit.
LEMMA SparingKinds ==
  ASSUME Typed, HandedOver,
         \/ Aside \/ Refused \/ Taken \/ Ceased \/ TaskObeys
         \/ TaskIsLeft \/ TaskReadsEnd \/ TaskFinishes
         \/ \E m \in MemberId : Dials(m) \/ Forgets(m) \/ Gates(m)
  PROVE  CreditsKept /\ GrantsKept
<1>1. flow \in [MemberId -> Flow] /\ Receivers \subseteq MemberId
  BY TakenInType
<1>2. UNCHANGED flow => GrantsKept
  BY DEF GrantsKept
<1>3. ASSUME NEW m \in MemberId, NEW x, flow' = [flow EXCEPT ![m].stage = x] PROVE GrantsKept
  <2>1. /\ \A k \in MemberId \ {m} : flow'[k] = flow[k]
        /\ flow'[m].grants = flow[m].grants /\ flow'[m].pending = flow[m].pending
        /\ flow'[m].wire = flow[m].wire
    BY <1>1, <1>3, StageSet
  <2>2. QED  BY <2>1 DEF GrantsKept
<1>4. ASSUME NEW m \in MemberId, flow' = [flow EXCEPT ![m].fin = "finished"] PROVE GrantsKept
  <2>1. /\ \A k \in MemberId \ {m} : flow'[k] = flow[k]
        /\ flow'[m].grants = flow[m].grants /\ flow'[m].pending = flow[m].pending
        /\ flow'[m].wire = flow[m].wire
    BY <1>1, <1>4, FinSet
  <2>2. QED  BY <2>1 DEF GrantsKept
<1>5. CASE Aside \/ Refused
  BY <1>2, <1>5, SameReceivers DEF Aside, Refused
<1>6. CASE Taken
  BY <1>2, <1>6, TakenCredit DEF Taken
<1>7. CASE Ceased
  <2>1. Receivers' = {}
    BY <1>7, SourceIsGoneTyped DEF Ceased
  <2>2. CreditsKept
    BY <2>1 DEF CreditsKept
  <2>3. \A m \in MemberId : /\ flow'[m].grants = flow[m].grants /\ flow'[m].pending = flow[m].pending
                            /\ flow'[m].wire = flow[m].wire \/ flow'[m].wire = <<>>
    BY <1>7, CutStreamsCases DEF Ceased, SourceIsGone
  <2>4. QED  BY <2>2, <2>3 DEF GrantsKept
<1>8. CASE TaskObeys
  BY <1>2, <1>8, CommandsCredit DEF TaskObeys
<1>9. CASE TaskIsLeft \/ TaskReadsEnd \/ TaskFinishes
  <2>1. /\ cast'.receivers = cast.receivers
        /\ UNCHANGED flow \/ \E m \in Receivers : flow' = [flow EXCEPT ![m].fin = "finished"]
    BY <1>9, TaskEndsCases
  <2>2. QED  BY <1>1, <1>2, <1>4, <2>1, SameReceivers
<1>10. ASSUME NEW m \in MemberId, Dials(m) PROVE CreditsKept /\ GrantsKept
  <2>1. cast' = cast /\ flow' = [flow EXCEPT ![m].stage = "dialed"]
    BY <1>10 DEF Dials
  <2>2. QED  BY <1>3, <2>1, SameReceivers
<1>11. ASSUME NEW m \in MemberId, Gates(m) PROVE CreditsKept /\ GrantsKept
  <2>1. cast' = cast /\ (UNCHANGED flow \/ \E x : flow' = [flow EXCEPT ![m].stage = x])
    BY <1>11 DEF Gates, BeginAccept, EndAccept, AcceptFails
  <2>2. QED  BY <1>2, <1>3, <2>1, SameReceivers
<1>12. ASSUME NEW m \in MemberId, Forgets(m) PROVE CreditsKept /\ GrantsKept
  <2>1. /\ CastTyped /\ m # source /\ UNCHANGED <<source, flow>>
        /\ cast' = cast \/ cast' = [cast EXCEPT !.commands = Append(@, Command("remove", m))]
    BY <1>12 DEF Forgets, Typed
  <2>2. cast'.receivers = cast.receivers
    BY <2>1, CommandTyped
  <2>3. QED  BY <1>2, <2>1, <2>2, SameReceivers
<1>13. QED  BY <1>5, <1>6, <1>7, <1>8, <1>9, <1>10, <1>11, <1>12

\* The three moves of the account: bytes written out, a grant taken in, bytes sent.
LEMMA BytesWritten ==
  ASSUME NEW grants \in Seq(Nat), NEW wire \in Seq(Byte), NEW pending \in Nat, NEW credit \in Nat,
         Balanced(grants, wire, pending, credit), wire # <<>>, pending < Grant,
         NEW w, w = Tail(wire), NEW g, g = Append(grants, pending + 1)
  PROVE  /\ pending + 1 >= Grant => Balanced(g, w, 0, credit)
         /\ ~(pending + 1 >= Grant) => Balanced(grants, w, pending + 1, credit)
<1>1. /\ \A i \in DOMAIN grants : grants[i] = Grant
      /\ credit + Owed(Len(grants)) + Len(wire) + pending <= Window
  BY DEF Balanced
<1>2. Len(w) = Len(wire) - 1 /\ Len(wire) \in Nat \ {0}
  BY HeadAndTail
<1>3. Len(g) = Len(grants) + 1 /\ Len(grants) \in Nat
      /\ \A i \in DOMAIN g : g[i] = pending + 1 \/ (i \in DOMAIN grants /\ g[i] = grants[i])
  OBVIOUS
<1>4. Owed(Len(grants)) \in Nat /\ Owed(Len(g)) = Owed(Len(grants)) + Grant
  BY <1>3, OwedMore
<1>5. Grant \in Nat /\ Window \in Nat
  BY Numbers
<1>6. CASE pending + 1 >= Grant
  <2>1. pending + 1 = Grant
    BY <1>5, <1>6
  <2>2. \A i \in DOMAIN g : g[i] = Grant
    BY <1>1, <1>3, <2>1
  <2>3. credit + Owed(Len(g)) + Len(w) + 0 <= Window
    BY <1>1, <1>2, <1>4, <1>5, <2>1
  <2>4. QED  BY <1>6, <2>2, <2>3 DEF Balanced
<1>7. CASE ~(pending + 1 >= Grant)
  <2>1. credit + Owed(Len(grants)) + Len(w) + (pending + 1) <= Window
    BY <1>1, <1>2, <1>4, <1>5
  <2>2. QED  BY <1>1, <1>7, <2>1 DEF Balanced
<1>8. QED  BY <1>6, <1>7

LEMMA GrantTakenIn ==
  ASSUME NEW grants \in Seq(Nat), NEW wire \in Seq(Byte), NEW pending \in Nat, NEW credit \in Nat,
         Balanced(grants, wire, pending, credit), grants # <<>>, NEW g, g = Tail(grants)
  PROVE  Balanced(g, wire, pending, credit + Head(grants))
<1>1. Window \in Nat /\ Grant \in Nat
  BY Numbers
<1>2. CASE grants = <<Window>> /\ wire = <<>> /\ pending = 0 /\ credit = 0
  <2>1. g = <<>> /\ Head(grants) = Window /\ Len(wire) = 0 /\ Len(g) = 0
    BY <1>2
  <2>2. \A i \in DOMAIN g : g[i] = Grant
    BY <2>1
  <2>3. credit + Head(grants) + Owed(Len(g)) + Len(wire) + pending <= Window
    BY <1>1, <1>2, <2>1, OwedMore
  <2>4. QED  BY <2>2, <2>3 DEF Balanced
<1>3. CASE /\ \A i \in DOMAIN grants : grants[i] = Grant
           /\ credit + Owed(Len(grants)) + Len(wire) + pending <= Window
  <2>1. /\ Head(grants) = Grant /\ Len(g) \in Nat /\ Len(grants) = Len(g) + 1
        /\ \A i \in DOMAIN g : g[i] = Grant
    <3>1. /\ Head(grants) = grants[1] /\ 1 \in DOMAIN grants /\ Len(grants) \in Nat \ {0}
          /\ Len(g) = Len(grants) - 1
          /\ \A i \in DOMAIN g : g[i] = grants[i + 1] /\ i + 1 \in DOMAIN grants
      BY HeadAndTail
    <3>2. Len(g) \in Nat /\ Len(grants) = Len(g) + 1
      BY <3>1
    <3>3. Head(grants) = Grant
      BY <1>3, <3>1
    <3>4. \A i \in DOMAIN g : g[i] = Grant
      BY <1>3, <3>1
    <3>5. QED  BY <3>2, <3>3, <3>4
  <2>2. Owed(Len(g)) \in Nat /\ Owed(Len(grants)) = Owed(Len(g)) + Grant
    BY <2>1, OwedMore
  <2>3. Len(wire) \in Nat
    OBVIOUS
  <2>4. credit + Head(grants) + Owed(Len(g)) + Len(wire) + pending <= Window
    BY <1>1, <1>3, <2>1, <2>2, <2>3
  <2>5. QED  BY <2>1, <2>4 DEF Balanced
<1>4. QED  BY <1>2, <1>3 DEF Balanced

LEMMA BytesSent ==
  ASSUME NEW grants \in Seq(Nat), NEW wire \in Seq(Byte), NEW pending \in Nat, NEW credit \in Nat,
         Balanced(grants, wire, pending, credit),
         NEW b \in Seq(Byte), Len(b) \in 1 .. credit, NEW w, w = wire \o b
  PROVE  Balanced(grants, w, pending, credit - Len(b))
<1>1. Len(b) \in Nat /\ Len(b) >= 1 /\ Len(b) <= credit
  OBVIOUS
<1>2. /\ \A i \in DOMAIN grants : grants[i] = Grant
      /\ credit + Owed(Len(grants)) + Len(wire) + pending <= Window
  BY <1>1 DEF Balanced
<1>3. Len(w) = Len(wire) + Len(b) /\ Len(wire) \in Nat
  BY Concatenated
<1>4. Len(grants) \in Nat
  OBVIOUS
<1>5. Owed(Len(grants)) \in Nat /\ Window \in Nat
  BY <1>4, OwedMore, Numbers
<1>6. credit - Len(b) + Owed(Len(grants)) + Len(w) + pending <= Window
  BY <1>1, <1>2, <1>3, <1>5
<1>7. QED  BY <1>2, <1>6 DEF Balanced

\* A stream whose account no step has touched.
LEMMA SameAccount ==
  ASSUME NEW m \in MemberId, Account(m), flow'[m] = flow[m], Credit(m)' = Credit(m)
  PROVE  Account(m)'
BY DEF Account, Balanced, Early, Owed

LEMMA OpensCreditAccount ==
  ASSUME Typed, HandedOver, Accounted, NEW m \in MemberId, OpensCredit(m)
  PROVE  Accounted'
<1>1. /\ flow[m].stage = "answered"
      /\ \A k \in MemberId \ {m} : flow'[k] = flow[k]
      /\ flow'[m].stage = "open" /\ flow'[m].wire = flow[m].wire
      /\ flow'[m].grants = <<Window>> /\ flow'[m].pending = flow[m].pending
  BY TakenInType, CreditOpened
<1>2. cast' = cast
  BY DEF OpensCredit
<1>3. \A k \in MemberId : Credit(k)' = Credit(k)
  BY <1>2 DEF Credit, Receivers
<1>4. Early(m) /\ Unserved(m)
  BY <1>1 DEF Early, Coming, HandedOver
<1>5. flow[m].wire = <<>> /\ Credit(m) = 0 /\ flow[m].pending = 0
  BY <1>4 DEF Unserved, Silent, Credit, Accounted, Account
<1>6. Account(m)'
  <2>1. 0 < Grant
    BY Numbers
  <2>2. ~Early(m)'
    BY <1>1 DEF Early
  <2>3. flow'[m].grants = <<Window>> /\ flow'[m].wire = <<>> /\ flow'[m].pending = 0 /\ Credit(m)' = 0
    BY <1>1, <1>3, <1>5
  <2>4. Balanced(flow'[m].grants, flow'[m].wire, flow'[m].pending, Credit(m)')
    BY <2>3 DEF Balanced
  <2>5. QED  BY <2>1, <2>2, <2>3, <2>4 DEF Account, Balanced, Owed
<1>7. QED  BY <1>1, <1>3, <1>6, SameAccount DEF Accounted

LEMMA WritesOutAccount ==
  ASSUME Typed, Accounted, NEW m \in MemberId, WritesOut(m)
  PROVE  Accounted'
<1>1. /\ flow[m].wire # <<>>
      /\ \A k \in MemberId \ {m} : flow'[k] = flow[k]
      /\ flow'[m].stage = "open" /\ flow'[m].wire = Tail(flow[m].wire)
      /\ \/ /\ flow[m].pending + 1 >= Grant /\ flow'[m].pending = 0
            /\ flow'[m].grants = Append(flow[m].grants, flow[m].pending + 1)
         \/ /\ ~(flow[m].pending + 1 >= Grant) /\ flow'[m].pending = flow[m].pending + 1
            /\ flow'[m].grants = flow[m].grants
  BY TakenInType, WritesOutCases
<1>2. cast' = cast
  BY DEF WritesOut
<1>3. \A k \in MemberId : Credit(k)' = Credit(k)
  BY <1>2 DEF Credit, Receivers
<1>4. /\ flow[m].grants \in Seq(Nat) /\ flow[m].wire \in Seq(Byte) /\ flow[m].pending \in Nat
      /\ Credit(m) \in Nat
  BY CreditTyped
<1>5. Balanced(flow[m].grants, flow[m].wire, flow[m].pending, Credit(m)) /\ flow[m].pending < Grant
  BY DEF Accounted, Account
<1>6. /\ flow[m].pending + 1 >= Grant =>
           Balanced(Append(flow[m].grants, flow[m].pending + 1), Tail(flow[m].wire), 0, Credit(m))
      /\ ~(flow[m].pending + 1 >= Grant) =>
           Balanced(flow[m].grants, Tail(flow[m].wire), flow[m].pending + 1, Credit(m))
  BY <1>1, <1>4, <1>5, BytesWritten
<1>7. Balanced(flow'[m].grants, flow'[m].wire, flow'[m].pending, Credit(m)')
  BY <1>1, <1>3, <1>6
<1>8. flow'[m].pending < Grant /\ ~Early(m)'
  BY <1>1, <1>4, Numbers DEF Early
<1>9. Account(m)'
  BY <1>7, <1>8 DEF Account, Balanced, Owed
<1>10. QED  BY <1>1, <1>3, <1>9, SameAccount DEF Accounted

LEMMA TaskGetsCreditAccount ==
  ASSUME Typed, Typed', Accounted, StagesGrow, TaskGetsCredit
  PROVE  Accounted'
<1>1. PICK m \in MemberId :
      /\ m \in Receivers
      /\ \/ /\ flow[m].grants # <<>>
            /\ Receivers' = Receivers
            /\ cast'.receivers[m].credit = cast.receivers[m].credit + Head(flow[m].grants)
            /\ \A k \in Receivers \ {m} : cast'.receivers[k] = cast.receivers[k]
            /\ flow' = [flow EXCEPT ![m].grants = Tail(@)]
         \/ /\ Receivers' = Receivers \ {m} /\ UNCHANGED flow
            /\ \A k \in Receivers' : cast'.receivers[k] = cast.receivers[k]
  BY TaskGetsCreditCases
<1>2. /\ flow[m].grants \in Seq(Nat) /\ flow[m].wire \in Seq(Byte) /\ flow[m].pending \in Nat
      /\ Credit(m) \in Nat /\ flow \in [MemberId -> Flow]
      /\ \A k \in Receivers : cast.receivers[k].credit \in Nat
  BY <1>1, CreditTyped, TakenInType
<1>3. CASE /\ flow[m].grants # <<>>
           /\ Receivers' = Receivers
           /\ cast'.receivers[m].credit = cast.receivers[m].credit + Head(flow[m].grants)
           /\ \A k \in Receivers \ {m} : cast'.receivers[k] = cast.receivers[k]
           /\ flow' = [flow EXCEPT ![m].grants = Tail(@)]
  <2>1. /\ \A k \in MemberId \ {m} : flow'[k] = flow[k]
        /\ flow'[m].stage = flow[m].stage /\ flow'[m].wire = flow[m].wire
        /\ flow'[m].grants = Tail(flow[m].grants) /\ flow'[m].pending = flow[m].pending
    BY <1>1, <1>2, <1>3, GrantTaken
  <2>2. \A k \in MemberId \ {m} : Credit(k)' = Credit(k)
    BY <1>3 DEF Credit
  <2>3. Credit(m)' = Credit(m) + Head(flow[m].grants)
    BY <1>1, <1>3 DEF Credit
  <2>4. /\ Balanced(flow[m].grants, flow[m].wire, flow[m].pending, Credit(m)) /\ flow[m].pending < Grant
        /\ Early(m) => flow[m].grants = <<>> /\ flow[m].pending = 0
    BY <1>1 DEF Accounted, Account
  <2>5. Balanced(Tail(flow[m].grants), flow[m].wire, flow[m].pending, Credit(m) + Head(flow[m].grants))
    BY <1>2, <1>3, <2>4, GrantTakenIn
  <2>6. Balanced(flow'[m].grants, flow'[m].wire, flow'[m].pending, Credit(m)')
    BY <2>1, <2>3, <2>5
  <2>7. ~Early(m) /\ ~Early(m)'
    BY <1>3, <2>1, <2>4 DEF Early
  <2>8. Account(m)'
    BY <2>1, <2>4, <2>6, <2>7 DEF Account, Balanced, Owed
  <2>9. QED  BY <2>1, <2>2, <2>8, SameAccount DEF Accounted
<1>4. CASE /\ Receivers' = Receivers \ {m} /\ UNCHANGED flow
           /\ \A k \in Receivers' : cast'.receivers[k] = cast.receivers[k]
  <2>1. GrantsKept
    BY <1>4 DEF GrantsKept
  <2>2. CreditsKept
    BY <1>2, <1>4 DEF CreditsKept
  <2>3. QED  BY <2>1, <2>2, AccountedKept
<1>5. QED  BY <1>1, <1>3, <1>4

LEMMA TaskCopiesAccount ==
  ASSUME Typed, Typed', Accounted, StagesGrow, TaskCopies
  PROVE  Accounted'
<1>1. PICK n \in Nat \ {0} :
        /\ cast.pos + n <= SourceLength
        /\ Receivers' \subseteq Receivers
        /\ \A m \in Receivers : n <= cast.receivers[m].credit
        /\ \A m \in Receivers' : cast'.receivers[m].credit = cast.receivers[m].credit - n
        /\ \A m \in MemberId :
             /\ flow'[m].stage = flow[m].stage
             /\ flow'[m].grants = flow[m].grants /\ flow'[m].pending = flow[m].pending
             /\ flow'[m].wire = IF m \in Receivers' /\ Running(m)
                                THEN flow[m].wire \o Bytes(cast.pos, n) ELSE flow[m].wire
  BY TaskCopiesCases
<1> DEFINE b == Bytes(cast.pos, n)
<1>2. b \in Seq(Byte) /\ Len(b) = n
  <2>1. cast.pos \in 0 .. SourceLength
    BY DEF Typed, CastTyped, CastState
  <2>2. QED  BY <1>1, <2>1, BytesTyped DEF ByteSeq, Byte
<1> HIDE DEF b
<1>3. \A m \in Receivers : cast.receivers[m].credit \in Nat
  BY CreditTyped
<1>4. CreditsKept
  BY <1>1, <1>3 DEF CreditsKept
<1>5. \A m \in MemberId : Credit(m)' <= Credit(m)
  BY <1>4, CreditsShrink
<1>6. ASSUME NEW m \in MemberId
      PROVE  Account(m)'
  <2>1. /\ flow[m].grants \in Seq(Nat) /\ flow[m].wire \in Seq(Byte) /\ flow[m].pending \in Nat
        /\ Credit(m) \in Nat
    BY CreditTyped
  <2>2. /\ flow'[m].stage = flow[m].stage
        /\ flow'[m].grants = flow[m].grants /\ flow'[m].pending = flow[m].pending
        /\ flow'[m].wire = IF m \in Receivers' /\ Running(m) THEN flow[m].wire \o b ELSE flow[m].wire
    BY <1>1 DEF b
  <2>3. Account(m) /\ (Early(m)' => Early(m))
    BY DEF Accounted, StagesGrow
  <2>4. CASE m \in Receivers' /\ Running(m)
    <3>1. m \in Receivers /\ n \in 1 .. Credit(m) /\ Credit(m)' = Credit(m) - n
      BY <1>1, <1>3, <2>4 DEF Credit
    <3>2. /\ Balanced(flow[m].grants, flow[m].wire, flow[m].pending, Credit(m))
          /\ flow[m].pending < Grant
          /\ Early(m) => flow[m].grants = <<>> /\ flow[m].pending = 0
      BY <2>3 DEF Account
    <3>3. Balanced(flow[m].grants, flow[m].wire \o b, flow[m].pending, Credit(m) - n)
      BY <1>2, <2>1, <3>1, <3>2, BytesSent
    <3>4. Balanced(flow'[m].grants, flow'[m].wire, flow'[m].pending, Credit(m)')
      BY <2>2, <2>4, <3>1, <3>3
    <3>5. QED  BY <2>2, <2>3, <3>2, <3>4 DEF Account, Balanced, Owed
  <2>5. CASE ~ (m \in Receivers' /\ Running(m))
    <3>1. Spares(m)
      BY <1>5, <2>2, <2>5 DEF Spares
    <3>2. QED  BY <2>3, <3>1, SparesAccount
  <2>6. QED  BY <2>4, <2>5
<1>7. QED  BY <1>6 DEF Accounted

LEMMA StepAccounted ==
  ASSUME Typed, Typed', HandedOver, Accounted, StagesGrow, Kinds
  PROVE  Accounted'
<1>1. CASE \/ Aside \/ Refused \/ Taken \/ Ceased \/ TaskObeys
           \/ TaskIsLeft \/ TaskReadsEnd \/ TaskFinishes
           \/ \E m \in MemberId : Dials(m) \/ Forgets(m) \/ Gates(m)
  BY <1>1, SparingKinds, AccountedKept
<1>2. QED
  BY <1>1, OpensCreditAccount, WritesOutAccount, TaskGetsCreditAccount, TaskCopiesAccount
     DEF Kinds, TaskStep

LEMMA InitAccounted ==
  ASSUME PipeInit
  PROVE  Accounted
<1>1. ASSUME NEW m \in MemberId PROVE Account(m)
  <2>1. flow[m].grants = <<>> /\ flow[m].wire = <<>> /\ flow[m].pending = 0
    BY DEF PipeInit, NoFlow
  <2>2. Credit(m) = 0
    BY DEF PipeInit, Credit, Receivers
  <2>3. 0 + Owed(0) + 0 + 0 <= Window /\ 0 < Grant
    BY OwedMore, Numbers
  <2>4. Len(<<>>) = 0 /\ \A i \in DOMAIN <<>> : <<>>[i] = Grant
    OBVIOUS
  <2>5. QED  BY <2>1, <2>2, <2>3, <2>4 DEF Account, Balanced
<1>2. QED  BY <1>1 DEF Accounted

LEMMA AlwaysAccounted == PipeSpec => []Accounted
BY AlwaysTyped, AlwaysOneOffer, AlwaysAbsentees, AlwaysHandedOver, InitAccounted, StepTyped,
   StepKinds, KindStages, StepAccounted, PTL DEF PipeSpec

-----------------------------------------------------------------------------
(* What a receiver gets is one piece of stdin.                             *)

LEMMA SameStream ==
  ASSUME NEW out \in Seq(Byte), NEW wire \in Seq(Byte), wire # <<>>,
         NEW o \in Seq(Byte), o = Append(out, Head(wire)), NEW w \in Seq(Byte), w = Tail(wire)
  PROVE  o \o w = out \o wire
<1>1. /\ Head(wire) \in Byte /\ Head(wire) = wire[1] /\ w \in Seq(Byte)
      /\ Len(wire) \in Nat \ {0} /\ Len(w) = Len(wire) - 1
      /\ \A i \in DOMAIN w : w[i] = wire[i + 1]
  BY HeadAndTail
<1>2. /\ o \in Seq(Byte) /\ Len(o) = Len(out) + 1 /\ o[Len(out) + 1] = wire[1] /\ Len(out) \in Nat
      /\ \A i \in 1 .. Len(out) : o[i] = out[i]
  BY <1>1, OneMore
<1> DEFINE s == o \o w
           t == out \o wire
<1>3. /\ s \in Seq(Byte) /\ Len(s) = Len(out) + Len(wire)
      /\ \A i \in 1 .. Len(o) : s[i] = o[i]
      /\ \A i \in 1 .. Len(w) : s[Len(o) + i] = w[i] /\ i \in DOMAIN w
  <2>1. /\ s \in Seq(Byte) /\ Len(s) = Len(o) + Len(w)
        /\ \A i \in 1 .. Len(o) : s[i] = o[i]
        /\ DOMAIN w = 1 .. Len(w)
        /\ \A i \in 1 .. Len(w) : s[Len(o) + i] = w[i]
    BY <1>1, <1>2, Concatenated
  <2>2. Len(s) = Len(out) + Len(wire)
    BY <1>1, <1>2, <2>1
  <2>3. QED  BY <2>1, <2>2
<1>4. /\ t \in Seq(Byte) /\ Len(t) = Len(out) + Len(wire)
      /\ \A i \in 1 .. Len(out) : t[i] = out[i]
      /\ \A i \in 1 .. Len(wire) : t[Len(out) + i] = wire[i]
  BY Concatenated
<1> HIDE DEF s, t
<1>5. ASSUME NEW i \in 1 .. Len(s) PROVE s[i] = t[i]
  <2>1. CASE i <= Len(out)
    <3>1. i \in 1 .. Len(out) /\ i \in 1 .. Len(o)
      BY <1>2, <2>1
    <3>2. QED  BY <1>2, <1>3, <1>4, <3>1
  <2>2. CASE i = Len(out) + 1
    <3>1. i \in 1 .. Len(o) /\ 1 \in 1 .. Len(wire)
      BY <1>1, <1>2, <2>2
    <3>2. t[Len(out) + 1] = wire[1]
      BY <1>4, <3>1
    <3>3. QED  BY <1>2, <1>3, <2>2, <3>1, <3>2
  <2>3. CASE i > Len(out) + 1
    <3> DEFINE k == i - Len(o)
    <3>1. k \in 1 .. Len(w) /\ i = Len(o) + k /\ k + 1 \in 1 .. Len(wire) /\ i = Len(out) + (k + 1)
      BY <1>1, <1>2, <1>3, <2>3
    <3> HIDE DEF k
    <3>2. s[i] = w[k] /\ k \in DOMAIN w
      BY <1>3, <3>1
    <3>3. t[i] = wire[k + 1]
      BY <1>4, <3>1
    <3>4. QED  BY <1>1, <3>2, <3>3
  <2>4. QED  BY <1>2, <2>1, <2>2, <2>3
<1>6. s = t
  BY <1>3, <1>4, <1>5, SeqEqual
<1>7. QED  BY <1>6 DEF s, t

LEMMA Regrouped ==
  ASSUME NEW s \in Seq(Byte), NEW t \in Seq(Byte), NEW u \in Seq(Byte)
  PROVE  s \o (t \o u) = (s \o t) \o u
BY ConcatAssociative

\* The next bytes of stdin carry an unbroken piece on.
LEMMA SameDistance ==
  ASSUME NEW a \in Nat, NEW c \in Nat, NEW l \in Nat, NEW p \in Nat, NEW i \in Nat, NEW k \in Nat,
         a + l = p + i, c + l = p + k
  PROVE  a + k = c + i
OBVIOUS

Line(u, l, p) == \A i \in DOMAIN u : i \in Nat /\ u[i] \in Nat /\ u[i] + l = p + i

LEMMA LineUnbroken ==
  ASSUME NEW u, NEW l \in Nat, NEW p \in Nat, Line(u, l, p)
  PROVE  Unbroken(u)
<1>1. ASSUME NEW i \in DOMAIN u, NEW k \in DOMAIN u PROVE u[i] + k = u[k] + i
  <2>1. /\ u[i] \in Nat /\ u[i] + l = p + i /\ i \in Nat
        /\ u[k] \in Nat /\ u[k] + l = p + k /\ k \in Nat
    BY DEF Line
  <2>2. QED  BY <2>1, SameDistance
<1>2. QED  BY <1>1 DEF Unbroken

NextBytes(b, p, n) == Len(b) = n /\ \A i \in 1 .. n : b[i] = p + i

Carries(u, s, p, n) == /\ Unbroken(u) /\ u # <<>> /\ u[Len(u)] = p + n
                       /\ u[1] = IF s = <<>> THEN p + 1 ELSE s[1]

LEMMA CarriedOn ==
  ASSUME NEW s \in Seq(Byte), Unbroken(s), NEW p \in Nat, NEW n \in Nat \ {0},
         EndsAt(s, p), NEW b \in Seq(Byte), NextBytes(b, p, n), NEW u \in Seq(Byte), u = s \o b
  PROVE  Carries(u, s, p, n)
<1>1. Len(b) = n /\ \A i \in 1 .. n : b[i] = p + i
  BY DEF NextBytes
<1>2. /\ u \in Seq(Byte) /\ Len(u) = Len(s) + n /\ Len(s) \in Nat
      /\ DOMAIN s = 1 .. Len(s) /\ DOMAIN u = 1 .. Len(u)
      /\ \A i \in 1 .. Len(s) : u[i] = s[i]
      /\ \A i \in 1 .. n : u[Len(s) + i] = b[i]
  <2>1. /\ u \in Seq(Byte) /\ Len(u) = Len(s) + Len(b) /\ Len(s) \in Nat
        /\ DOMAIN s = 1 .. Len(s) /\ DOMAIN u = 1 .. Len(u)
        /\ \A i \in 1 .. Len(s) : u[i] = s[i]
        /\ \A i \in 1 .. Len(b) : u[Len(s) + i] = b[i]
    BY Concatenated
  <2>2. QED  BY <1>1, <2>1
<1>3. \A i \in DOMAIN s : s[i] \in Nat
  <2>1. \A i \in DOMAIN s : s[i] \in Byte
    OBVIOUS
  <2>2. Byte \subseteq Nat
    BY Numbers DEF Byte
  <2>3. QED  BY <2>1, <2>2
<1>4. ASSUME NEW i \in DOMAIN u PROVE u[i] \in Nat /\ u[i] + Len(s) = p + i
  <2>1. CASE i <= Len(s)
    <3>1. i \in DOMAIN s /\ Len(s) \in DOMAIN s /\ s # <<>> /\ u[i] = s[i]
      BY <1>2, <2>1
    <3>2. s[Len(s)] = p /\ s[i] + Len(s) = s[Len(s)] + i
      BY <3>1 DEF Unbroken, EndsAt
    <3>3. QED  BY <1>3, <3>1, <3>2
  <2>2. CASE ~(i <= Len(s))
    <3> DEFINE k == i - Len(s)
    <3>1. k \in 1 .. n /\ i = Len(s) + k
      BY <1>2, <2>2
    <3> HIDE DEF k
    <3>2. u[i] = p + k
      BY <1>1, <1>2, <3>1
    <3>3. k \in Nat /\ Len(s) \in Nat
      BY <1>2, <3>1
    <3>4. QED  BY <3>1, <3>2, <3>3
  <2>3. QED  BY <2>1, <2>2
<1>5. Unbroken(u)
  <2>1. Len(s) \in Nat /\ \A i \in DOMAIN u : i \in Nat
    BY <1>2
  <2>2. Line(u, Len(s), p)
    BY <1>4, <2>1 DEF Line
  <2>3. QED  BY <2>1, <2>2, LineUnbroken
<1>6. Len(u) \in DOMAIN u /\ 1 \in DOMAIN u
  BY <1>2
<1>7. u # <<>>
  BY <1>6
<1>8. u[Len(u)] = p + n
  <2>1. Len(s) + n \in DOMAIN u /\ n \in 1 .. n
    BY <1>2, <1>6
  <2>2. QED  BY <1>1, <1>2, <2>1
<1>9. u[1] = IF s = <<>> THEN p + 1 ELSE s[1]
  <2>1. CASE s = <<>>
    <3>1. Len(s) = 0
      BY <2>1
    <3>2. u[1] \in Nat /\ u[1] + Len(s) = p + 1
      BY <1>4, <1>6
    <3>3. QED  BY <2>1, <3>1, <3>2
  <2>2. CASE s # <<>>
    <3>1. 1 \in 1 .. Len(s)
      BY <1>2, <2>2
    <3>2. QED  BY <1>2, <2>2, <3>1
  <2>3. QED  BY <2>1, <2>2
<1>10. QED  BY <1>5, <1>7, <1>8, <1>9 DEF Carries

LEMMA FirstPart ==
  ASSUME NEW s \in Seq(Byte), NEW t \in Seq(Byte), NEW u, u = s \o t, Unbroken(u)
  PROVE  Unbroken(s) /\ (s # <<>> => u # <<>> /\ u[1] = s[1])
<1>1. /\ DOMAIN s = 1 .. Len(s) /\ DOMAIN u = 1 .. Len(u) /\ Len(u) = Len(s) + Len(t)
      /\ Len(s) \in Nat /\ Len(t) \in Nat /\ \A i \in 1 .. Len(s) : u[i] = s[i]
  BY Concatenated
<1>2. \A i \in DOMAIN s : i \in DOMAIN u /\ u[i] = s[i]
  BY <1>1
<1>3. Unbroken(s)
  BY <1>2 DEF Unbroken
<1>4. ASSUME s # <<>> PROVE u # <<>> /\ u[1] = s[1]
  <2>1. 1 \in DOMAIN s
    BY <1>1, <1>4
  <2>2. QED  BY <1>2, <2>1
<1>5. QED  BY <1>3, <1>4

LEMMA StreamTyped ==
  ASSUME Typed
  PROVE  \A m \in MemberId : /\ flow[m].out \in Seq(Byte) /\ flow[m].wire \in Seq(Byte)
                             /\ Stream(m) \in Seq(Byte)
                             /\ Silent(m) => Stream(m) = <<>>
<1> SUFFICES ASSUME NEW m \in MemberId
             PROVE  /\ flow[m].out \in Seq(Byte) /\ flow[m].wire \in Seq(Byte)
                    /\ Stream(m) \in Seq(Byte)
                    /\ Silent(m) => Stream(m) = <<>>
  OBVIOUS
<1>1. flow[m].out \in Seq(Byte) /\ flow[m].wire \in Seq(Byte)
  BY DEF Typed, Flow, ByteSeq, Byte
<1>2. Stream(m) \in Seq(Byte)
  BY <1>1, Concatenated DEF Stream
<1>3. <<>> \o <<>> = <<>>
  OBVIOUS
<1>4. Silent(m) => Stream(m) = <<>>
  BY <1>3 DEF Silent, Stream
<1>5. QED  BY <1>1, <1>2, <1>4

LEMMA EmptyUnbroken == Unbroken(<<>>)
BY DEF Unbroken

\* Who is served and runs has been running before.
StillServed == \A m \in MemberId : m \in Receivers /\ Running(m)' => Running(m)

LEMMA ServedRuns ==
  ASSUME Absentees, HandedOver, ProcStep
  PROVE  StillServed
<1> SUFFICES ASSUME NEW m \in MemberId, m \in Receivers, Running(m)' PROVE Running(m)
  BY DEF StillServed
<1>1. proc[m] # "absent"
  <2>1. proc[m] = "absent" => Early(m)
    BY DEF Absentees, Early
  <2>2. Early(m) => Unserved(m)
    BY DEF HandedOver, Coming
  <2>3. QED  BY <2>1, <2>2 DEF Unserved
<1>2. QED  BY <1>1 DEF ProcStep, Running

\* The same streams, and a task that does not get on with anybody new.
CastStill == cast'.pos = cast.pos /\ cast'.initial = cast.initial /\ Receivers' \subseteq Receivers

LEMMA OrderedKept ==
  ASSUME NEW m \in MemberId, Ordered(m), StillServed, Stream(m)' = Stream(m), CastStill
  PROVE  Ordered(m)'
<1>1. Unbroken(Stream(m))' /\ (m \in cast'.initial /\ Stream(m)' # <<>> => Stream(m)'[1] = 1)
  BY DEF Ordered, Unbroken, CastStill
<1>2. m \in Receivers' /\ Running(m)' => m \in Receivers /\ Running(m)
  BY DEF StillServed, CastStill
<1>3. Follows(m)'
  BY <1>2 DEF Ordered, Follows, CastStill, EndsAt
<1>4. QED  BY <1>1, <1>3 DEF Ordered

LEMMA StillKinds ==
  ASSUME Typed,
         \/ Aside \/ Refused \/ TaskIsLeft \/ TaskReadsEnd \/ TaskFinishes \/ TaskGetsCredit
         \/ \E m \in MemberId : Dials(m) \/ Forgets(m) \/ Gates(m) \/ OpensCredit(m)
  PROVE  StreamsKept /\ CastStill
<1>1. flow \in [MemberId -> Flow] /\ Receivers \subseteq MemberId
  BY TakenInType
<1>2. (UNCHANGED flow => StreamsKept) /\ (cast' = cast => CastStill)
  BY DEF StreamsKept, CastStill, Receivers
<1>3. ASSUME NEW m \in MemberId, NEW x, flow' = [flow EXCEPT ![m].stage = x] PROVE StreamsKept
  <2>1. /\ \A k \in MemberId \ {m} : flow'[k] = flow[k]
        /\ flow'[m].out = flow[m].out /\ flow'[m].wire = flow[m].wire
    BY <1>1, <1>3, StageSet
  <2>2. QED  BY <2>1 DEF StreamsKept
<1>4. ASSUME NEW m \in MemberId, flow' = [flow EXCEPT ![m].fin = "finished"] PROVE StreamsKept
  <2>1. /\ \A k \in MemberId \ {m} : flow'[k] = flow[k]
        /\ flow'[m].out = flow[m].out /\ flow'[m].wire = flow[m].wire
    BY <1>1, <1>4, FinSet
  <2>2. QED  BY <2>1 DEF StreamsKept
<1>5. ASSUME NEW m \in MemberId, flow' = [flow EXCEPT ![m].grants = Tail(@)] PROVE StreamsKept
  <2>1. /\ \A k \in MemberId \ {m} : flow'[k] = flow[k]
        /\ flow'[m].out = flow[m].out /\ flow'[m].wire = flow[m].wire
    BY <1>1, <1>5, GrantTaken
  <2>2. QED  BY <2>1 DEF StreamsKept
<1>6. CASE Aside \/ Refused
  BY <1>2, <1>6 DEF Aside, Refused
<1>7. CASE TaskIsLeft \/ TaskReadsEnd \/ TaskFinishes
  <2>1. /\ cast'.pos = cast.pos /\ cast'.initial = cast.initial /\ Receivers' = Receivers
        /\ UNCHANGED flow \/ \E m \in Receivers : flow' = [flow EXCEPT ![m].fin = "finished"]
    BY <1>7, TaskEndsCases
  <2>2. QED  BY <1>1, <1>2, <1>4, <2>1 DEF CastStill
<1>8. CASE TaskGetsCredit
  <2>1. PICK m \in MemberId :
          /\ cast'.pos = cast.pos /\ cast'.initial = cast.initial /\ Receivers' \subseteq Receivers
          /\ UNCHANGED flow \/ flow' = [flow EXCEPT ![m].grants = Tail(@)]
    BY <1>8, TaskGetsCreditCases
  <2>2. QED  BY <1>2, <1>5, <2>1 DEF CastStill
<1>9. ASSUME NEW m \in MemberId, Dials(m) PROVE StreamsKept /\ CastStill
  BY <1>2, <1>3, <1>9 DEF Dials
<1>10. ASSUME NEW m \in MemberId, Gates(m) PROVE StreamsKept /\ CastStill
  <2>1. cast' = cast /\ (UNCHANGED flow \/ \E x : flow' = [flow EXCEPT ![m].stage = x])
    BY <1>10 DEF Gates, BeginAccept, EndAccept, AcceptFails
  <2>2. QED  BY <1>2, <1>3, <2>1
<1>11. ASSUME NEW m \in MemberId, Forgets(m) PROVE StreamsKept /\ CastStill
  <2>1. /\ CastTyped /\ m # source /\ UNCHANGED <<source, flow>>
        /\ cast' = cast \/ cast' = [cast EXCEPT !.commands = Append(@, Command("remove", m))]
    BY <1>11 DEF Forgets, Typed
  <2>2. CastStill
    BY <1>2, <2>1, CommandTyped DEF CastStill
  <2>3. QED  BY <1>2, <2>1, <2>2
<1>12. ASSUME NEW m \in MemberId, OpensCredit(m) PROVE StreamsKept /\ CastStill
  <2>1. cast' = cast
    BY <1>12 DEF OpensCredit
  <2>2. /\ \A k \in MemberId \ {m} : flow'[k] = flow[k]
        /\ flow'[m].out = flow[m].out /\ flow'[m].wire = flow[m].wire
    BY <1>1, <1>12, CreditOpened
  <2>3. QED  BY <1>2, <2>1, <2>2 DEF StreamsKept
<1>13. QED  BY <1>6, <1>7, <1>8, <1>9, <1>10, <1>11, <1>12

LEMMA StillOrdered ==
  ASSUME InOrder, StillServed, StreamsKept, CastStill
  PROVE  InOrder'
<1>1. \A m \in MemberId : Stream(m)' = Stream(m)
  BY DEF StreamsKept, Stream
<1>2. QED  BY <1>1, OrderedKept DEF InOrder

LEMMA WritesOutStream ==
  ASSUME Typed, NEW m \in MemberId, WritesOut(m)
  PROVE  Stream(m)' = Stream(m)
<1>1. /\ flow[m].wire # <<>>
      /\ flow'[m].out = Append(flow[m].out, Head(flow[m].wire))
      /\ flow'[m].wire = Tail(flow[m].wire)
  BY TakenInType, WritesOutCases
<1>2. flow[m].out \in Seq(Byte) /\ flow[m].wire \in Seq(Byte)
  BY StreamTyped
<1> DEFINE o == flow'[m].out
           w == flow'[m].wire
           out == flow[m].out
           wire == flow[m].wire
<1>3. /\ o = Append(out, Head(wire)) /\ w = Tail(wire) /\ wire # <<>>
      /\ out \in Seq(Byte) /\ wire \in Seq(Byte)
  BY <1>1, <1>2
<1> HIDE DEF o, w, out, wire
<1>4. o \in Seq(Byte) /\ w \in Seq(Byte)
  BY <1>3, HeadAndTail, OneMore
<1>5. o \o w = out \o wire
  BY <1>3, <1>4, SameStream
<1>6. QED  BY <1>5, Zenon DEF Stream, o, w, out, wire

LEMMA WritesOutOrdered ==
  ASSUME Typed, InOrder, StillServed, NEW m \in MemberId, WritesOut(m)
  PROVE  InOrder'
<1>1. \A k \in MemberId \ {m} : flow'[k] = flow[k]
  BY TakenInType, WritesOutCases
<1>2. cast' = cast
  BY DEF WritesOut
<1>3. \A k \in MemberId : Stream(k)' = Stream(k)
  BY <1>1, WritesOutStream DEF Stream
<1>4. CastStill
  BY <1>2 DEF CastStill, Receivers
<1>5. QED  BY <1>3, <1>4, OrderedKept DEF InOrder

\* A stream that is cut keeps its first part.
LEMMA CeasedOrdered ==
  ASSUME Typed, Typed', InOrder, Ceased
  PROVE  InOrder'
<1>1. Receivers' = {} /\ cast'.initial = cast.initial
  BY SourceIsGoneTyped DEF Ceased
<1>2. \A m \in MemberId : /\ flow'[m].out = flow[m].out
                          /\ flow'[m].wire = flow[m].wire \/ flow'[m].wire = <<>>
  BY CutStreamsCases DEF Ceased, SourceIsGone
<1>3. ASSUME NEW m \in MemberId PROVE Ordered(m)'
  <2>1. /\ Unbroken(Stream(m)) /\ (m \in cast.initial /\ Stream(m) # <<>> => Stream(m)[1] = 1)
        /\ flow[m].out \in Seq(Byte) /\ flow[m].wire \in Seq(Byte)
    BY StreamTyped DEF InOrder, Ordered
  <2>2. Follows(m)'
    BY <1>1 DEF Follows
  <2>3. CASE flow'[m].wire = flow[m].wire
    <3>1. Stream(m)' = Stream(m)
      BY <1>2, <2>3 DEF Stream
    <3>2. QED  BY <1>1, <2>1, <2>2, <3>1 DEF Ordered, Unbroken
  <2>4. CASE flow'[m].wire = <<>>
    <3>1. Stream(m)' = flow[m].out \o <<>>
      BY <1>2, <2>4, Zenon DEF Stream
    <3>2. flow[m].out \o <<>> = flow[m].out
      BY <2>1, ConcatEmptySeq
    <3>3. Stream(m) = flow[m].out \o flow[m].wire
      BY DEF Stream
    <3>4. Unbroken(flow[m].out) /\ (flow[m].out # <<>> => Stream(m) # <<>> /\ Stream(m)[1] = flow[m].out[1])
      BY <2>1, <3>3, FirstPart
    <3>5. Stream(m)' = flow[m].out
      BY <3>1, <3>2
    <3>6. QED  BY <1>1, <2>1, <2>2, <3>4, <3>5 DEF Ordered, Unbroken
  <2>5. QED  BY <1>2, <2>3, <2>4
<1>4. QED  BY <1>3 DEF InOrder

\* The task gets on with receivers that have nothing yet.
LEMMA TaskObeysOrdered ==
  ASSUME Typed, HandedOver, InOrder, StillServed, TaskObeys
  PROVE  InOrder'
<1>1. PICK c \in TaskCommand :
        /\ c = Head(cast.commands) /\ cast.commands # <<>>
        /\ cast'.pos = cast.pos /\ cast'.initial = cast.initial
        /\ Receivers' = IF c.type = "add" THEN Receivers \cup {c.of} ELSE Receivers \ {c.of}
  BY TaskObeysCases
<1>2. UNCHANGED flow
  BY DEF TaskObeys
<1>3. \A m \in MemberId : Stream(m)' = Stream(m)
  BY <1>2 DEF Stream
<1>4. ASSUME NEW m \in MemberId PROVE Ordered(m)'
  <2>1. Ordered(m)
    BY DEF InOrder
  <2>2. CASE c.type = "add" /\ m = c.of
    <3>1. c = Command("add", m)
      BY <2>2 DEF TaskCommand, Command
    <3>2. ~NotAdded(m)
      <4>1. Head(cast.commands) = cast.commands[1] /\ 1 \in DOMAIN cast.commands
        BY <1>1, TakenInType, HeadAndTail
      <4>2. QED  BY <1>1, <3>1, <4>1 DEF NotAdded, NotIn
    <3>3. Unserved(m)
      BY <3>2 DEF HandedOver
    <3>4. Stream(m)' = <<>> /\ m \notin cast'.initial
      BY <1>1, <1>3, <3>3, StreamTyped DEF Unserved
    <3>5. Follows(m)'
      BY <3>4 DEF Follows, EndsAt
    <3>6. QED  BY <3>4, <3>5, EmptyUnbroken DEF Ordered, Unbroken
  <2>3. CASE ~ (c.type = "add" /\ m = c.of)
    <3>1. m \in Receivers' => m \in Receivers
      BY <1>1, <2>3
    <3>2. m \in Receivers' /\ Running(m)' => m \in Receivers /\ Running(m)
      BY <3>1 DEF StillServed
    <3>3. Follows(m)'
      BY <1>1, <1>3, <2>1, <3>2 DEF Ordered, Follows, EndsAt
    <3>4. QED  BY <1>1, <1>3, <2>1, <3>3 DEF Ordered, Unbroken
  <2>4. QED  BY <2>2, <2>3
<1>5. QED  BY <1>4 DEF InOrder

LEMMA TakenOrdered ==
  ASSUME Typed, HandedOver, InOrder, StillServed, Taken
  PROVE  InOrder'
<1>1. PICK m \in snd.targets : /\ Attaches(m) /\ UNCHANGED <<source, flow>>
                               /\ CastTyped /\ m \in MemberId /\ m # source
  BY DEF Taken, Typed, SenderTyped, SenderState
<1>2. \A k \in MemberId : Stream(k)' = Stream(k)
  BY <1>1 DEF Stream
<1>3. /\ cast'.pos = cast.pos
      /\ \/ /\ Started /\ cast' = [cast EXCEPT !.commands = Append(@, Command("add", m))]
         \/ cast' = cast
         \/ ~Started
  BY <1>1, AttachCases
<1>4. CASE cast' = cast \/ cast' = [cast EXCEPT !.commands = Append(@, Command("add", m))]
  <2>1. CastStill
    BY <1>1, <1>4, CommandTyped DEF CastStill, Receivers
  <2>2. QED  BY <1>2, <2>1, OrderedKept DEF InOrder
<1>5. CASE ~Started
  <2>1. cast.pos = 0 /\ \A k \in MemberId : Silent(k)
    BY <1>5 DEF HandedOver
  <2>2. \A k \in MemberId : Stream(k)' = <<>>
    BY <1>2, <2>1, StreamTyped
  <2>3. cast'.pos = 0
    BY <1>3, <2>1
  <2>4. \A k \in MemberId : Follows(k)'
    BY <2>2, <2>3 DEF Follows, EndsAt
  <2>5. \A k \in MemberId : Ordered(k)'
    BY <2>2, <2>4, EmptyUnbroken DEF Ordered, Unbroken
  <2>6. QED  BY <2>5 DEF InOrder
<1>6. QED  BY <1>3, <1>4, <1>5

LEMMA TaskCopiesOrdered ==
  ASSUME Typed, InOrder, StillServed, TaskCopies
  PROVE  InOrder'
<1>1. PICK n \in Nat \ {0} :
        /\ cast'.initial = cast.initial
        /\ cast'.pos = cast.pos + n /\ cast.pos + n <= SourceLength
        /\ Receivers' \subseteq Receivers
        /\ \A m \in MemberId :
             /\ flow'[m].out = flow[m].out
             /\ flow'[m].wire = IF m \in Receivers' /\ Running(m)
                                THEN flow[m].wire \o Bytes(cast.pos, n) ELSE flow[m].wire
  BY TaskCopiesCases
<1> DEFINE b == Bytes(cast.pos, n)
<1>2. b \in Seq(Byte) /\ NextBytes(b, cast.pos, n) /\ cast.pos \in Nat
  <2>1. cast.pos \in 0 .. SourceLength
    BY DEF Typed, CastTyped, CastState
  <2>2. /\ Bytes(cast.pos, n) \in ByteSeq /\ Len(Bytes(cast.pos, n)) = n
        /\ \A i \in 1 .. n : Bytes(cast.pos, n)[i] = cast.pos + i
    BY <1>1, <2>1, BytesTyped
  <2>3. cast.pos \in Nat /\ ByteSeq = Seq(Byte)
    BY <2>1, Numbers DEF ByteSeq, Byte
  <2>4. QED  BY <2>2, <2>3 DEF NextBytes
<1>3. b = Bytes(cast.pos, n)
  OBVIOUS
<1> HIDE DEF b
<1>4. ASSUME NEW m \in MemberId PROVE Ordered(m)'
  <2>1. /\ Unbroken(Stream(m)) /\ (m \in cast.initial /\ Stream(m) # <<>> => Stream(m)[1] = 1)
        /\ Follows(m)
        /\ flow[m].out \in Seq(Byte) /\ flow[m].wire \in Seq(Byte) /\ Stream(m) \in Seq(Byte)
    BY StreamTyped DEF InOrder, Ordered
  <2>2. CASE m \in Receivers' /\ Running(m)
    <3>1. m \in Receivers
      BY <1>1, <2>2
    <3>2. /\ EndsAt(Stream(m), cast.pos)
          /\ m \in cast.initial /\ Stream(m) = <<>> => cast.pos = 0
      BY <2>1, <2>2, <3>1 DEF Follows
    <3>3. Stream(m)' = Stream(m) \o b
      <4>1. flow'[m].out = flow[m].out /\ flow'[m].wire = flow[m].wire \o b
        BY <1>1, <1>3, <2>2
      <4>2. flow[m].out \o (flow[m].wire \o b) = (flow[m].out \o flow[m].wire) \o b
        BY <1>2, <2>1, Regrouped
      <4>3. QED  BY <4>1, <4>2, Zenon DEF Stream
    <3> DEFINE s == Stream(m) \o b
               t == Stream(m)
               p == cast.pos
    <3>4. /\ p \in Nat /\ n \in Nat \ {0} /\ b \in Seq(Byte) /\ NextBytes(b, p, n)
          /\ s = t \o b /\ t \in Seq(Byte) /\ Unbroken(t) /\ EndsAt(t, p)
          /\ m \in cast.initial => IF t = <<>> THEN p = 0 ELSE t[1] = 1
      BY <1>2, <2>1, <3>2
    <3> HIDE DEF s, t, p
    <3>5. /\ Unbroken(s) /\ s # <<>> /\ s[Len(s)] = p + n
          /\ s[1] = IF t = <<>> THEN p + 1 ELSE t[1]
      <4>1. /\ p \in Nat /\ n \in Nat \ {0} /\ b \in Seq(Byte) /\ NextBytes(b, p, n)
            /\ s = t \o b /\ t \in Seq(Byte) /\ Unbroken(t) /\ EndsAt(t, p)
        BY <3>4
      <4>2. s \in Seq(Byte)
        BY <4>1, Concatenated
      <4>3. Carries(s, t, p, n)
        BY <4>1, <4>2, CarriedOn
      <4>4. QED  BY <4>3 DEF Carries
    <3>6. m \in cast.initial => s[1] = 1
      BY <3>4, <3>5
    <3>7. Unbroken(s) /\ s # <<>> /\ EndsAt(s, cast'.pos) /\ (m \in cast'.initial => s[1] = 1)
      BY <1>1, <3>5, <3>6 DEF EndsAt, p
    <3>8. Stream(m)' = s
      BY <3>3 DEF s
    <3>9. Follows(m)'
      BY <3>7, <3>8 DEF Follows, EndsAt
    <3>10. QED  BY <3>7, <3>8, <3>9 DEF Ordered, Unbroken
  <2>3. CASE ~ (m \in Receivers' /\ Running(m))
    <3>1. Stream(m)' = Stream(m)
      BY <1>1, <2>3 DEF Stream
    <3>2. ~ (m \in Receivers' /\ Running(m)')
      BY <1>1, <2>3 DEF StillServed
    <3>3. Follows(m)'
      BY <3>2 DEF Follows
    <3>4. QED  BY <1>1, <2>1, <3>1, <3>3 DEF Ordered, Unbroken
  <2>4. QED  BY <2>2, <2>3
<1>5. QED  BY <1>4 DEF InOrder

LEMMA StepInOrder ==
  ASSUME Typed, Typed', Absentees, HandedOver, InOrder, ProcStep, Kinds
  PROVE  InOrder'
<1>1. StillServed
  BY ServedRuns
<1>2. CASE \/ Aside \/ Refused \/ TaskIsLeft \/ TaskReadsEnd \/ TaskFinishes \/ TaskGetsCredit
           \/ \E m \in MemberId : Dials(m) \/ Forgets(m) \/ Gates(m) \/ OpensCredit(m)
  BY <1>1, <1>2, StillKinds, StillOrdered
<1>3. QED
  BY <1>1, <1>2, WritesOutOrdered, CeasedOrdered, TaskObeysOrdered, TakenOrdered, TaskCopiesOrdered
     DEF Kinds, TaskStep

LEMMA InitInOrder ==
  ASSUME PipeInit
  PROVE  InOrder
<1>1. ASSUME NEW m \in MemberId PROVE Ordered(m)
  <2>1. flow[m].out = <<>> /\ flow[m].wire = <<>> /\ cast.pos = 0
    BY DEF PipeInit, NoFlow
  <2>2. <<>> \o <<>> = <<>>
    OBVIOUS
  <2>3. Stream(m) = <<>>
    BY <2>1, <2>2 DEF Stream
  <2>4. QED  BY <2>1, <2>3, EmptyUnbroken DEF Ordered, Follows, EndsAt
<1>2. QED  BY <1>1 DEF InOrder

LEMMA AlwaysInOrder == PipeSpec => []InOrder
BY AlwaysTyped, AlwaysOneOffer, AlwaysAbsentees, AlwaysHandedOver, InitInOrder, StepTyped,
   StepKinds, StepInOrder, PTL DEF PipeSpec

-----------------------------------------------------------------------------
(* Who ends without an error has everything.                               *)

\* What a step may do to the end of a stream, and to the task.
FinStep ==
  \A m \in MemberId :
    \/ /\ flow'[m].fin = flow[m].fin
       /\ flow'[m].wire = flow[m].wire \/ Running(m)
       /\ Stream(m)' = Stream(m) \/ cast.task = "running"
    \/ flow'[m].fin = "lost" /\ (flow[m].fin = "open" \/ Running(m))
    \/ /\ flow'[m].fin = "finished" /\ flow[m].fin = "open"
       /\ m \in Receivers /\ cast.task = "finishing" /\ UNCHANGED <<cast, proc>>
       /\ Stream(m)' = Stream(m) /\ flow'[m].wire = flow[m].wire
SamePlace == cast'.pos = cast.pos /\ cast'.initial = cast.initial
TaskMove ==
  \/ /\ cast'.task = cast.task /\ cast'.initial = cast.initial
     /\ cast'.pos = cast.pos \/ cast.task = "running"
  \/ cast.task = "idle" /\ cast'.task = "running" /\ Running(source) /\ UNCHANGED proc
  \/ /\ cast.task = "running" /\ cast'.task = "finishing" /\ SamePlace /\ UNCHANGED proc
     /\ ~Running(source) \/ cast.pos = SourceLength
  \/ cast.task # "idle" /\ cast'.task = "over" /\ SamePlace

LEMMA KeptFin ==
  ASSUME StreamsKept, \A m \in MemberId : flow'[m].fin = flow[m].fin
  PROVE  FinStep
BY DEF FinStep, StreamsKept, Stream

LEMMA KeptTask ==
  ASSUME cast' = cast
  PROVE  TaskMove
BY DEF TaskMove

LEMMA KindEnds ==
  ASSUME Typed, Kinds
  PROVE  FinStep /\ TaskMove /\ UNCHANGED source
<1>1. flow \in [MemberId -> Flow] /\ Receivers \subseteq MemberId /\ CastTyped
  BY TakenInType DEF Typed
<1>2. UNCHANGED flow => FinStep
  BY DEF FinStep, Stream
<1>3. ASSUME NEW m \in MemberId, NEW x, flow' = [flow EXCEPT ![m].stage = x] PROVE FinStep
  <2>1. /\ \A k \in MemberId \ {m} : flow'[k] = flow[k]
        /\ flow'[m].out = flow[m].out /\ flow'[m].wire = flow[m].wire /\ flow'[m].fin = flow[m].fin
    BY <1>1, <1>3, StageSet
  <2>2. QED  BY <2>1, KeptFin DEF StreamsKept
<1>4. CASE Aside \/ Refused
  BY <1>2, <1>4, KeptTask DEF Aside, Refused
<1>5. CASE Taken
  <2>1. PICK m \in snd.targets : /\ Attaches(m) /\ UNCHANGED <<source, flow, proc>> /\ Running(source)
                                 /\ m \in MemberId /\ m # source
    BY <1>5 DEF Taken, Typed, SenderTyped, SenderState
  <2>2. /\ cast'.pos = cast.pos
        /\ \/ cast' = [cast EXCEPT !.commands = Append(@, Command("add", m))]
           \/ cast' = cast
           \/ ~Started /\ cast'.task = "running"
    BY <2>1, AttachCases
  <2>3. CASE cast' = [cast EXCEPT !.commands = Append(@, Command("add", m))]
    BY <1>1, <1>2, <2>1, <2>3, CommandTyped DEF TaskMove
  <2>4. QED  BY <1>2, <2>1, <2>2, <2>3, KeptTask DEF TaskMove, Started
<1>6. CASE Ceased
  <2>1. /\ cast'.pos = cast.pos /\ cast'.initial = cast.initial
        /\ cast'.task = (IF Started THEN "over" ELSE "idle") /\ UNCHANGED source
    BY <1>6, SourceIsGoneTyped DEF Ceased
  <2>2. TaskMove
    BY <2>1 DEF TaskMove, SamePlace, Started
  <2>3. \A m \in MemberId : \/ flow'[m] = flow[m]
                            \/ flow'[m].fin = "lost" /\ (flow[m].fin = "open" \/ Running(m))
    BY <1>6, CutStreamsCases DEF Ceased, SourceIsGone
  <2>4. FinStep
    BY <2>3 DEF FinStep, Stream
  <2>5. QED  BY <2>1, <2>2, <2>4
<1>7. CASE TaskObeys
  <2>1. /\ cast'.pos = cast.pos /\ cast'.initial = cast.initial /\ cast'.task = cast.task
    BY <1>7, TaskObeysCases
  <2>2. QED  BY <1>2, <1>7, <2>1 DEF TaskObeys, TaskUnchanged, TaskMove
<1>8. CASE TaskGetsCredit
  <2>1. PICK m \in MemberId :
          /\ cast'.pos = cast.pos /\ cast'.initial = cast.initial /\ cast'.task = cast.task
          /\ UNCHANGED flow \/ flow' = [flow EXCEPT ![m].grants = Tail(@)]
    BY <1>8, TaskGetsCreditCases
  <2>2. CASE flow' = [flow EXCEPT ![m].grants = Tail(@)]
    <3>1. /\ \A k \in MemberId \ {m} : flow'[k] = flow[k]
          /\ flow'[m].out = flow[m].out /\ flow'[m].wire = flow[m].wire /\ flow'[m].fin = flow[m].fin
      BY <1>1, <2>2, GrantTaken
    <3>2. FinStep
      BY <3>1, KeptFin DEF StreamsKept
    <3>3. QED  BY <1>8, <2>1, <3>2 DEF TaskGetsCredit, TaskUnchanged, TaskMove
  <2>3. QED  BY <1>2, <1>8, <2>1, <2>2 DEF TaskGetsCredit, TaskUnchanged, TaskMove
<1>9. CASE TaskCopies
  <2>1. /\ cast'.initial = cast.initial /\ cast'.task = cast.task /\ cast.task = "running"
        /\ \A m \in MemberId : /\ flow'[m].fin = flow[m].fin
                               /\ flow'[m].wire = flow[m].wire \/ Running(m)
    BY <1>9, TaskCopiesCases
  <2>2. QED  BY <1>9, <2>1 DEF TaskCopies, TaskUnchanged, TaskMove, FinStep
<1>10. CASE TaskIsLeft \/ TaskReadsEnd \/ TaskFinishes
  <2>1. UNCHANGED <<proc, source>>
    BY <1>10 DEF TaskIsLeft, TaskReadsEnd, TaskFinishes, TaskUnchanged
  <2>2. /\ cast'.pos = cast.pos /\ cast'.initial = cast.initial
        /\ \/ /\ cast'.task = "finishing" /\ cast.task = "running" /\ UNCHANGED flow
              /\ ~Running(source) \/ cast.pos = SourceLength
           \/ cast'.task = "over" /\ cast.task = "finishing" /\ UNCHANGED flow
           \/ /\ UNCHANGED cast /\ cast.task = "finishing"
              /\ \E m \in Receivers : flow' = [flow EXCEPT ![m].fin = "finished"] /\ flow[m].fin = "open"
    BY <1>10, TaskEndsCases
  <2>3. TaskMove
    BY <2>1, <2>2 DEF TaskMove, SamePlace
  <2>4. ASSUME NEW m \in Receivers, flow' = [flow EXCEPT ![m].fin = "finished"], flow[m].fin = "open",
               UNCHANGED cast, cast.task = "finishing"
        PROVE  FinStep
    <3>1. /\ \A k \in MemberId \ {m} : flow'[k] = flow[k]
          /\ flow'[m].out = flow[m].out /\ flow'[m].wire = flow[m].wire /\ flow'[m].fin = "finished"
      BY <1>1, <2>4, FinSet
    <3>2. QED  BY <2>1, <2>4, <3>1 DEF FinStep, Stream
  <2>5. QED  BY <1>2, <2>1, <2>2, <2>3, <2>4
<1>11. ASSUME NEW m \in MemberId, Dials(m) PROVE FinStep /\ TaskMove /\ UNCHANGED source
  BY <1>3, <1>11, KeptTask DEF Dials
<1>12. ASSUME NEW m \in MemberId, Gates(m) PROVE FinStep /\ TaskMove /\ UNCHANGED source
  <2>1. UNCHANGED <<cast, source>> /\ (UNCHANGED flow \/ \E x : flow' = [flow EXCEPT ![m].stage = x])
    BY <1>12 DEF Gates, BeginAccept, EndAccept, AcceptFails
  <2>2. QED  BY <1>2, <1>3, <2>1, KeptTask
<1>13. ASSUME NEW m \in MemberId, Forgets(m) PROVE FinStep /\ TaskMove /\ UNCHANGED source
  <2>1. /\ CastTyped /\ m # source /\ UNCHANGED <<source, flow>>
        /\ cast' = cast \/ cast' = [cast EXCEPT !.commands = Append(@, Command("remove", m))]
    BY <1>1, <1>13 DEF Forgets
  <2>2. TaskMove
    BY <2>1, CommandTyped, KeptTask DEF TaskMove
  <2>3. QED  BY <1>2, <2>1, <2>2
<1>14. ASSUME NEW m \in MemberId, OpensCredit(m) PROVE FinStep /\ TaskMove /\ UNCHANGED source
  <2>1. UNCHANGED <<cast, source>>
    BY <1>14 DEF OpensCredit
  <2>2. /\ \A k \in MemberId \ {m} : flow'[k] = flow[k]
        /\ flow'[m].out = flow[m].out /\ flow'[m].wire = flow[m].wire /\ flow'[m].fin = flow[m].fin
    BY <1>1, <1>14, CreditOpened
  <2>3. QED  BY <2>1, <2>2, KeptFin, KeptTask DEF StreamsKept
<1>15. ASSUME NEW m \in MemberId, WritesOut(m) PROVE FinStep /\ TaskMove /\ UNCHANGED source
  <2>1. UNCHANGED <<cast, source>>
    BY <1>15 DEF WritesOut
  <2>2. /\ \A k \in MemberId \ {m} : flow'[k] = flow[k]
        /\ flow'[m].fin = flow[m].fin /\ Running(m)
    BY <1>1, <1>15, WritesOutCases
  <2>3. Stream(m)' = Stream(m)
    BY <1>15, WritesOutStream
  <2>4. FinStep
    BY <2>2, <2>3 DEF FinStep, Stream
  <2>5. QED  BY <2>1, <2>4, KeptTask
<1>16. QED
  BY <1>4, <1>5, <1>6, <1>7, <1>8, <1>9, <1>10, <1>11, <1>12, <1>13, <1>14, <1>15 DEF Kinds, TaskStep

LEMMA TaskEndingKept ==
  ASSUME Typed, Typed', TaskEnding, ProcStep, TaskMove, UNCHANGED source
  PROVE  TaskEnding'
<1>1. source \in MemberId /\ cast.task \in {"idle", "running", "finishing", "over"}
  BY Numbers DEF Typed, CastTyped, CastState
<1>2. \/ proc'[source] = proc[source]
      \/ proc[source] = "absent"
      \/ proc[source] = "running" /\ proc'[source] = "failed"
      \/ proc[source] = "running" /\ cast'.task \in {"idle", "over"}
      \/ proc[source] = "running" /\ UNCHANGED cast /\ cast.task = "over"
  BY <1>1 DEF ProcStep
<1>3. /\ cast.task \in {"running", "finishing"} => proc[source] \in {"running", "failed"}
      /\ cast.task = "finishing" => proc[source] = "failed" \/ cast.pos = SourceLength
  BY DEF TaskEnding
<1>4. CASE /\ cast'.task = cast.task
           /\ cast'.pos = cast.pos \/ cast.task = "running"
  BY <1>2, <1>3, <1>4 DEF TaskEnding
<1>5. CASE cast'.task = "running" /\ Running(source) /\ UNCHANGED proc
  BY <1>5 DEF TaskEnding, Running
<1>6. CASE /\ cast.task = "running" /\ cast'.task = "finishing" /\ cast'.pos = cast.pos /\ UNCHANGED proc
           /\ ~Running(source) \/ cast.pos = SourceLength
  BY <1>3, <1>6 DEF TaskEnding, Running
<1>7. CASE cast'.task = "over"
  BY <1>7 DEF TaskEnding
<1>8. QED  BY <1>4, <1>5, <1>6, <1>7 DEF TaskMove, SamePlace

\* While a stream is finished the task does not send or start any more.
LEMMA EndedKept ==
  ASSUME Typed, Typed', Absentees, HandedOver, InOrder, Ending, NEW m \in MemberId,
         ProcStep, StagesGrow, FinStep, TaskMove, UNCHANGED source
  PROVE  Ended(m)'
<1>1. /\ flow[m].fin = "finished" => cast.task \in {"finishing", "over"} /\ ~Early(m)
      /\ m # source /\ proc[m] = "ok" => flow[m].fin = "finished" /\ flow[m].wire = <<>>
      /\ flow[m].fin = "finished" /\ proc[m] \in {"running", "ok"} /\ proc[source] # "failed"
           => Complete(m)
  BY DEF Ending, Ended
<1>2. /\ source \in MemberId /\ source \notin Receivers
      /\ cast.task \in {"idle", "running", "finishing", "over"}
  BY Numbers DEF Typed, CastTyped, CastState
<1>3. \/ /\ flow'[m].fin = flow[m].fin
         /\ flow'[m].wire = flow[m].wire \/ Running(m)
         /\ Stream(m)' = Stream(m) \/ cast.task = "running"
      \/ flow'[m].fin = "lost" /\ (flow[m].fin = "open" \/ Running(m))
      \/ /\ flow'[m].fin = "finished" /\ flow[m].fin = "open"
         /\ m \in Receivers /\ cast.task = "finishing" /\ UNCHANGED <<cast, proc>>
         /\ Stream(m)' = Stream(m) /\ flow'[m].wire = flow[m].wire
  BY DEF FinStep
<1>4. cast.task = "finishing" => cast'.task \in {"finishing", "over"} /\ SamePlace
  BY DEF TaskMove, SamePlace
<1>5. cast.task = "over" => cast'.task = "over" /\ SamePlace
  BY DEF TaskMove, SamePlace
<1>6. m \in Receivers => ~Early(m)
  BY DEF HandedOver, Coming, Unserved
<1>7. flow'[m].fin = "finished" => cast'.task \in {"finishing", "over"} /\ ~Early(m)'
  <2>1. Early(m)' => Early(m)
    BY DEF StagesGrow
  <2>2. QED  BY <1>1, <1>3, <1>4, <1>5, <1>6, <2>1
<1>8. m # source /\ proc'[m] = "ok" => flow'[m].fin = "finished" /\ flow'[m].wire = <<>>
  <2>1. CASE proc'[m] = "ok" /\ proc[m] # "ok"
    <3>1. UNCHANGED flow /\ (m # source => flow[m].fin = "finished" /\ flow[m].wire = <<>>)
      BY <2>1 DEF ProcStep
    <3>2. QED  BY <3>1
  <2>2. CASE proc[m] = "ok"
    BY <1>1, <1>3, <2>2 DEF Running
  <2>3. QED  BY <2>1, <2>2
<1>9. ASSUME flow'[m].fin = "finished", proc'[m] \in {"running", "ok"}, proc'[source] # "failed"
      PROVE  Complete(m)'
  <2>1. proc[source] # "failed"
    BY <1>2, <1>9 DEF ProcStep
  <2>2. Stream(m)' = Stream(m) /\ SamePlace
    BY <1>1, <1>2, <1>3, <1>4, <1>5, <1>9
  <2>3. CASE flow[m].fin = "finished"
    <3>1. proc[m] # "absent"
      BY <1>1, <2>3 DEF Absentees, Early
    <3>2. proc[m] \in {"running", "ok"}
      BY <1>9, <3>1 DEF ProcStep
    <3>3. Complete(m)
      BY <1>1, <2>1, <2>3, <3>2
    <3>4. QED  BY <2>2, <3>3 DEF Complete, EndsAt, SamePlace
  <2>4. CASE flow[m].fin # "finished"
    <3>1. flow[m].fin = "open" /\ m \in Receivers /\ cast.task = "finishing" /\ UNCHANGED <<cast, proc>>
      BY <1>3, <1>9, <2>4
    <3>2. Running(m)
      <4>1. m # source /\ proc[m] = proc'[m]
        BY <1>2, <3>1
      <4>2. QED  BY <1>1, <1>9, <2>4, <4>1 DEF Running
    <3>3. cast.pos = SourceLength
      BY <2>1, <3>1 DEF Ending, TaskEnding
    <3>4. EndsAt(Stream(m), cast.pos) /\ (m \in cast.initial /\ Stream(m) = <<>> => cast.pos = 0)
      BY <3>1, <3>2 DEF InOrder, Ordered, Follows
    <3>5. EndsAt(Stream(m), SourceLength) /\ (m \in cast.initial /\ Stream(m) = <<>> => SourceLength = 0)
      BY <3>3, <3>4
    <3>6. QED  BY <2>2, <3>5 DEF Complete, EndsAt, SamePlace
  <2>5. QED  BY <2>3, <2>4
<1>10. QED  BY <1>7, <1>8, <1>9 DEF Ended

LEMMA StepEnding ==
  ASSUME Typed, Typed', Absentees, HandedOver, InOrder, Ending, ProcStep, StagesGrow, Kinds
  PROVE  Ending'
<1>1. FinStep /\ TaskMove /\ UNCHANGED source
  BY KindEnds
<1>2. TaskEnding'
  BY <1>1, TaskEndingKept DEF Ending
<1>3. \A m \in MemberId : Ended(m)'
  BY <1>1, EndedKept
<1>4. QED  BY <1>2, <1>3 DEF Ending

LEMMA InitEnding ==
  ASSUME PipeInit
  PROVE  Ending
<1>1. cast.task = "idle" /\ \A m \in MemberId : flow[m].fin = "open" /\ proc[m] # "ok"
  BY DEF PipeInit, NoFlow
<1>2. QED  BY <1>1 DEF Ending, TaskEnding, Ended

LEMMA AlwaysEnding == PipeSpec => []Ending
BY AlwaysTyped, AlwaysOneOffer, AlwaysAbsentees, AlwaysHandedOver, AlwaysInOrder, InitEnding,
   StepTyped, StepKinds, KindStages, StepEnding, PTL DEF PipeSpec

-----------------------------------------------------------------------------
(* What follows.                                                           *)

LEMMA HeldByWindow ==
  ASSUME Typed, Accounted
  PROVE  \A m \in MemberId : /\ Credit(m) \in Nat /\ Credit(m) <= Window
                             /\ Len(flow[m].wire) <= Window
<1> SUFFICES ASSUME NEW m \in MemberId
             PROVE  Credit(m) \in Nat /\ Credit(m) <= Window /\ Len(flow[m].wire) <= Window
  OBVIOUS
<1> DEFINE g == flow[m].grants
           w == flow[m].wire
           p == flow[m].pending
           c == Credit(m)
<1>1. /\ c \in Nat /\ p \in Nat /\ Len(g) \in Nat /\ Len(w) \in Nat
  BY CreditTyped
<1>2. Balanced(g, w, p, c)
  BY DEF Accounted, Account
<1>3. Owed(Len(g)) \in Nat /\ Window \in Nat
  BY <1>1, OwedMore, Numbers
<1> HIDE DEF g, w, p, c
<1>4. CASE w = <<>> /\ c = 0
  <2>1. Len(w) = 0
    BY <1>4
  <2>2. c <= Window /\ Len(w) <= Window
    BY <1>3, <1>4, <2>1
  <2>3. QED  BY <1>1, <2>2 DEF w, c
<1>5. CASE c + Owed(Len(g)) + Len(w) + p <= Window
  <2>1. c <= Window /\ Len(w) <= Window
    BY <1>1, <1>3, <1>5
  <2>2. QED  BY <1>1, <2>1 DEF w, c
<1>6. QED  BY <1>2, <1>4, <1>5 DEF Balanced

LEMMA NeighboursInLine ==
  ASSUME NEW s \in Seq(Byte), Unbroken(s)
  PROVE  \A i \in 2 .. Len(s) : s[i] = s[i - 1] + 1
<1>1. /\ Len(s) \in Nat /\ DOMAIN s = 1 .. Len(s) /\ \A i \in DOMAIN s : s[i] \in Byte
  OBVIOUS
<1>2. Byte \subseteq Nat
  BY Numbers DEF Byte
<1>3. ASSUME NEW i \in 2 .. Len(s) PROVE s[i] = s[i - 1] + 1
  <2>1. i \in DOMAIN s /\ i - 1 \in DOMAIN s
    BY <1>1
  <2>2. s[i] \in Nat /\ s[i - 1] \in Nat
    BY <1>1, <1>2, <2>1
  <2>3. s[i] + (i - 1) = s[i - 1] + i
    BY <2>1 DEF Unbroken
  <2>4. i \in Nat
    BY <1>1
  <2>5. QED  BY <2>2, <2>3, <2>4
<1>4. QED  BY <1>3

\* From the first byte to the last.
LEMMA WholeLine ==
  ASSUME NEW s \in Seq(Byte), Unbroken(s), EndsAt(s, SourceLength),
         s # <<>> => s[1] = 1, s = <<>> => SourceLength = 0
  PROVE  Len(s) = SourceLength
<1>1. CASE s = <<>>
  <2>1. Len(s) = 0 /\ SourceLength = 0
    BY <1>1
  <2>2. QED  BY <2>1
<1>2. CASE s # <<>>
  <2>1. Len(s) \in Nat /\ 1 \in DOMAIN s /\ Len(s) \in DOMAIN s
    BY <1>2
  <2>2. s[1] + Len(s) = s[Len(s)] + 1
    BY <2>1 DEF Unbroken
  <2>3. s[1] = 1 /\ s[Len(s)] = SourceLength /\ SourceLength \in Nat
    BY <1>2, Numbers DEF EndsAt
  <2>4. 1 + Len(s) = SourceLength + 1
    BY <2>2, <2>3
  <2>5. QED  BY <2>1, <2>3, <2>4
<1>3. QED  BY <1>1, <1>2

\* Every part of the state has its type, and no receiver's credit is more than
\* the window (PipeSenderState, PipeReceiverStream, JoinPipeState, RoomEngine).
THEOREM PipeTypeCorrect == PipeSpec => []PipeTypeOK
<1>1. Typed /\ Accounted => PipeTypeOK
  <2> SUFFICES ASSUME Typed, Accounted PROVE PipeTypeOK
    OBVIOUS
  <2>1. /\ source \in Sources /\ old \subseteq MayBeOld /\ up \in BOOLEAN
        /\ proc \in [MemberId -> {"absent", "running", "ok", "failed", "crashed"}]
        /\ deaf \subseteq Joiner
    BY DEF Typed, Outcome
  <2>2. /\ host.peers \subseteq Joiner /\ host.members \subseteq MemberId
        /\ \A c \in DOMAIN host.channels : host.channels[c] \subseteq host.members
    BY DEF Typed, HostTyped, HostState
  <2>3. /\ snd.late \subseteq snd.targets /\ snd.streams \subseteq snd.targets
        /\ source \notin snd.targets
    BY DEF Typed, SenderTyped
  <2>4. Receivers \subseteq MemberId \ {source} /\ cast.pos \in 0 .. SourceLength
    BY TakenInType DEF Typed, CastTyped, CastState
  <2>5. \A m \in MemberId : flow[m].out \in ByteSeq /\ flow[m].wire \in ByteSeq
    BY DEF Typed, Flow
  <2>6. ASSUME NEW m \in Receivers PROVE cast.receivers[m].credit \in 0 .. Window
    <3>1. m \in MemberId /\ Credit(m) = cast.receivers[m].credit
      BY <2>4, <2>6 DEF Credit
    <3>2. Credit(m) \in Nat /\ Credit(m) <= Window
      BY <3>1, HeldByWindow
    <3>3. QED  BY <3>1, <3>2, Numbers
  <2>7. QED  BY <2>1, <2>2, <2>3, <2>4, <2>5, <2>6 DEF PipeTypeOK
<1>2. QED  BY <1>1, AlwaysTyped, AlwaysAccounted, PTL

\* Whatever members join, leave or crash, what a receiver has written out and has
\* under way is one unbroken piece of the source's stdin, from the first byte for
\* those the stream started with (run_pipe_broadcast, apply_broadcast_command).
THEOREM StreamsAlwaysUnbroken == PipeSpec => []StreamsAreUnbroken
<1>1. Typed /\ InOrder => StreamsAreUnbroken
  <2> SUFFICES ASSUME Typed, InOrder, NEW m \in MemberId
               PROVE  /\ \A i \in 2 .. Len(Stream(m)) : Stream(m)[i] = Stream(m)[i - 1] + 1
                      /\ m \in cast.initial /\ Stream(m) # <<>> => Head(Stream(m)) = 1
    BY DEF StreamsAreUnbroken
  <2>1. /\ Unbroken(Stream(m)) /\ Stream(m) \in Seq(Byte)
        /\ m \in cast.initial /\ Stream(m) # <<>> => Stream(m)[1] = 1
    BY StreamTyped DEF InOrder, Ordered
  <2> DEFINE s == Stream(m)
  <2>2. s \in Seq(Byte) /\ Unbroken(s)
    BY <2>1
  <2> HIDE DEF s
  <2>3. \A i \in 2 .. Len(s) : s[i] = s[i - 1] + 1
    BY <2>2, NeighboursInLine
  <2>4. s # <<>> => Head(s) = s[1]
    BY <2>2, HeadAndTail
  <2>5. QED  BY <2>1, <2>3, <2>4 DEF s
<1>2. QED  BY <1>1, AlwaysTyped, AlwaysInOrder, PTL

\* No receiver has more under way than it has room for, however the credits of
\* several receivers, late ones among them, come in (chunk_len, read_credit).
THEOREM WindowNeverOverrun == PipeSpec => []WithinWindow
<1>1. Typed /\ Accounted => WithinWindow
  BY HeldByWindow DEF WithinWindow
<1>2. QED  BY <1>1, AlwaysTyped, AlwaysAccounted, PTL

\* A receiver that ends without an error has everything to the end of stdin, from
\* its first byte on if the stream started with it, unless the source's own loop
\* has ended in an error (run_pipe_broadcast, start_broadcast).
THEOREM EndAlwaysMeansComplete == PipeSpec => []EndMeansComplete
<1>1. Typed /\ InOrder /\ Ending => EndMeansComplete
  <2> SUFFICES ASSUME Typed, InOrder, Ending, NEW m \in MemberId \ {source},
                      proc[m] = "ok", proc[source] # "failed"
               PROVE  /\ m \in cast.initial => Len(flow[m].out) = SourceLength
                      /\ flow[m].out # <<>> => Last(flow[m].out) = SourceLength
    BY DEF EndMeansComplete
  <2>1. flow[m].fin = "finished" /\ flow[m].wire = <<>> /\ Complete(m)
    BY DEF Ending, Ended
  <2>2. Stream(m) = flow[m].out /\ flow[m].out \in Seq(Byte)
    <3>1. flow[m].out \in Seq(Byte)
      BY StreamTyped
    <3>2. flow[m].out \o <<>> = flow[m].out
      BY <3>1, ConcatEmptySeq
    <3>3. QED  BY <2>1, <3>1, <3>2, Zenon DEF Stream
  <2> DEFINE s == Stream(m)
  <2>3. /\ Unbroken(s) /\ s \in Seq(Byte) /\ EndsAt(s, SourceLength)
        /\ m \in cast.initial /\ s # <<>> => s[1] = 1
        /\ m \in cast.initial /\ s = <<>> => SourceLength = 0
    BY <2>1, <2>2 DEF InOrder, Ordered, Complete
  <2> HIDE DEF s
  <2>4. s # <<>> => Last(s) = SourceLength
    BY <2>3 DEF EndsAt, Last
  <2>5. ASSUME m \in cast.initial PROVE Len(s) = SourceLength
    BY <2>3, <2>5, WholeLine
  <2>6. s = flow[m].out
    BY <2>2 DEF s
  <2>7. QED  BY <2>4, <2>5, <2>6
<1>2. QED  BY <1>1, AlwaysTyped, AlwaysInOrder, AlwaysEnding, PTL
===============================================================================
