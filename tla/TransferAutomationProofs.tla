----------------------- MODULE TransferAutomationProofs -----------------------
(***************************************************************************)
(* Theorems about TransferAutomation, for rooms of any size: its types, and *)
(* that a one-shot sender that leaves cuts nobody's download off.  The      *)
(* room's engine is the subject of RoomEngineProofs, whose IInv is used     *)
(* here.                                                                    *)
(***************************************************************************)
EXTENDS TransferAutomation, RoomEngineProofs, FiniteSetTheorems, SequenceTheorems

\* The books of a controller agree; every id below the next one has gone to a member.
Kept(m, k) ==
  /\ \A a, b \in k.chans : a.on = b.on => a = b
  /\ \A p, q \in k.pending : p[1] = q[1] \/ p[2] = q[2] => p = q
  /\ \A p \in k.pending : p[1] \in k.sent /\ p[2] \in 1 .. k.next - 1
  /\ k.sent \subseteq MemberId \ {m} /\ k.next = 1 + Cardinality(k.sent)

ControllersTyped ==
  /\ ctl \in [MemberId -> Controller]
  /\ \A m \in MemberId : Kept(m, ctl[m])
QueuesTyped ==
  /\ toHost \in [MemberId -> Seq(CommandType)]
  /\ fromHost \in [MemberId -> Seq(EventType)]
  /\ own \in [MemberId -> Seq(OwnType)]
TransfersTyped ==
  /\ copy \in [Joiner -> SUBSET EntryType]
  /\ hashing \subseteq MemberId \X ChannelId
  /\ loads \subseteq LoadType
  /\ offers \subseteq OfferType
  /\ faults \in 0 .. MaxFaults
Typed == IInv /\ mode \in Modes /\ ControllersTyped /\ QueuesTyped /\ TransfersTyped

-----------------------------------------------------------------------------
(* Members, queues and books.                                              *)

LEMMA MemberNumbers ==
  /\ MemberId \subseteq Nat \ {0} /\ Joiner \subseteq MemberId /\ Host \in MemberId
  /\ Host \notin Joiner /\ All \notin MemberId /\ All \in Route /\ MemberId \subseteq Route
  /\ MemberId = Joiner \cup {Host}
BY MaxMemberIndexAssumption DEF MemberId, Joiner, Host, All, Route

LEMMA Membership ==
  /\ IsFiniteSet(MemberId) /\ Cardinality(MemberId) = MaxMemberIndex
  /\ MemberId \subseteq ChannelId /\ 1 .. MaxMemberIndex \subseteq ChannelId
<1>1. MaxMemberIndex \in Int /\ MaxMemberIndex >= 1
  BY MaxMemberIndexAssumption
<1>2. QED  BY <1>1, FS_Interval, AutomationAssumption DEF MemberId

LEMMA HeadIsTyped ==
  ASSUME NEW V, NEW s \in Seq(V), s # <<>>
  PROVE  Head(s) \in V /\ Tail(s) \in Seq(V)
BY HeadTailProperties

LEMMA Appended ==
  ASSUME NEW V, NEW s \in Seq(V), NEW e \in V
  PROVE  Append(s, e) \in Seq(V)
BY AppendProperties

LEMMA Joined ==
  ASSUME NEW V, NEW s \in Seq(V), NEW t \in Seq(V)
  PROVE  s \o t \in Seq(V)
BY ConcatProperties

LEMMA ShortQueues == \A V, e : <<>> \in Seq(V) /\ (e \in V => <<e>> \in Seq(V))
OBVIOUS

\* Books that only lose entries stay in order.
LEMMA KeptShrinks ==
  ASSUME NEW m, NEW k, NEW l, Kept(m, k), l.chans \subseteq k.chans,
         l.pending \subseteq k.pending, l.sent = k.sent, l.next = k.next
  PROVE  Kept(m, l)
BY DEF Kept

LEMMA ControllerFields ==
  ASSUME NEW k \in Controller
  PROVE  /\ k.run \in Run /\ k.sent \subseteq MemberId
         /\ k.pending \subseteq MemberId \X ChannelId
         /\ k.chans \subseteq [on : ChannelId, dir : {"out", "in"}, peer : MemberId]
         /\ k.next \in Nat /\ k.closed \in BOOLEAN /\ k.done \in BOOLEAN
BY DEF Controller

-----------------------------------------------------------------------------
(* Offering: the members of ts, in their order, get the next ids.          *)

Rank(ts, x) == Cardinality({y \in ts : y < x})

LEMMA Ranks ==
  ASSUME NEW ts, ts \subseteq MemberId
  PROVE  /\ IsFiniteSet(ts) /\ Cardinality(ts) \in Nat
         /\ \A x \in ts : Rank(ts, x) \in 0 .. Cardinality(ts) - 1
         /\ \A x, y \in ts : Rank(ts, x) = Rank(ts, y) => x = y
         /\ \A i \in 0 .. Cardinality(ts) - 1 : \E x \in ts : Rank(ts, x) = i
<1> DEFINE Below(x) == {y \in ts : y < x}
<1>1. IsFiniteSet(ts) /\ Cardinality(ts) \in Nat
  BY Membership, FS_Subset, FS_CardinalityType
<1>2. \A x \in ts : IsFiniteSet(Below(x)) /\ Cardinality(Below(x)) \in Nat
  BY <1>1, FS_Subset, FS_CardinalityType
<1>3. ASSUME NEW S, NEW T, IsFiniteSet(T), S \subseteq T, S # T
      PROVE  Cardinality(S) < Cardinality(T)
  <2>1. Cardinality(S) <= Cardinality(T) /\ Cardinality(T) # Cardinality(S)
        /\ IsFiniteSet(S)
    BY <1>3, FS_Subset
  <2>2. Cardinality(S) \in Nat /\ Cardinality(T) \in Nat
    BY <1>3, <2>1, FS_CardinalityType
  <2>3. QED  BY <2>1, <2>2
<1>4. ASSUME NEW x \in ts PROVE Rank(ts, x) \in 0 .. Cardinality(ts) - 1
  <2>1. Below(x) \subseteq ts /\ Below(x) # ts
    BY <1>4, MemberNumbers
  <2>2. Cardinality(Below(x)) < Cardinality(ts)
    BY <1>1, <1>3, <2>1
  <2>3. QED  BY <1>1, <1>2, <2>2 DEF Rank
<1>5. ASSUME NEW x \in ts, NEW y \in ts, x < y PROVE Rank(ts, x) < Rank(ts, y)
  <2>1. x \in Nat /\ y \in Nat /\ \A z \in ts : z \in Nat
    BY MemberNumbers
  <2>2. Below(x) \subseteq Below(y)
    <3>1. \A z \in ts : z < x => z < y
      BY <1>5, <2>1
    <3>2. QED  BY <3>1
  <2>3. x \in Below(y) /\ x \notin Below(x)
    BY <1>5, <2>1
  <2>4. Cardinality(Below(x)) < Cardinality(Below(y))
    BY <1>2, <1>3, <2>2, <2>3
  <2>5. QED  BY <2>4 DEF Rank
<1>6. ASSUME NEW x \in ts, NEW y \in ts, Rank(ts, x) = Rank(ts, y) PROVE x = y
  <2>1. x \in Nat /\ y \in Nat
    BY MemberNumbers
  <2>2. Rank(ts, x) \in Nat /\ Rank(ts, y) \in Nat
    BY <1>1, <1>4
  <2>3. QED  BY <1>5, <1>6, <2>1, <2>2
<1>7. ASSUME NEW i \in 0 .. Cardinality(ts) - 1 PROVE \E x \in ts : Rank(ts, x) = i
  <2> DEFINE T == 0 .. Cardinality(ts) - 1
             f == [x \in ts |-> Rank(ts, x)]
  <2>1. IsFiniteSet(T) /\ Cardinality(T) = Cardinality(ts)
    BY <1>1, FS_Interval
  <2>2. f \in Injection(ts, T)
    BY <1>4, <1>6 DEF Injection, IsInjective
  <2>3. f \in Surjection(ts, T)
    <3> HIDE DEF f, T
    <3>1. QED  BY <2>1, <2>2, FS_Injection
  <2>4. QED  BY <2>3 DEF Surjection
<1>8. QED  BY <1>1, <1>4, <1>6, <1>7

\* Every one of ts gets a channel id of its own, and there are enough of them.
Numbers(k, ts) ==
  /\ Cardinality(ts) \in Nat /\ k.next \in Nat \ {0}
  /\ Cardinality(k.sent \cup ts) = Cardinality(k.sent) + Cardinality(ts)
  /\ k.next .. k.next + Cardinality(ts) - 1 \subseteq ChannelId
  /\ \A x \in ts : OfferId(k, ts, x) \in k.next .. k.next + Cardinality(ts) - 1
  /\ \A x, y \in ts : OfferId(k, ts, x) = OfferId(k, ts, y) => x = y
  /\ \A i \in 1 .. Cardinality(ts) : \E x \in ts : OfferId(k, ts, x) = k.next + i - 1

LEMMA Offered ==
  ASSUME NEW m \in MemberId, NEW k \in Controller, Kept(m, k),
         NEW ts, ts \subseteq MemberId \ ({m} \cup k.sent)
  PROVE  Numbers(k, ts)
<1>1. \A x \in ts : OfferId(k, ts, x) = k.next + Rank(ts, x)
  BY DEF OfferId, Rank
<1>2. /\ IsFiniteSet(ts) /\ Cardinality(ts) \in Nat
      /\ \A x \in ts : Rank(ts, x) \in 0 .. Cardinality(ts) - 1
      /\ \A x, y \in ts : Rank(ts, x) = Rank(ts, y) => x = y
      /\ \A i \in 0 .. Cardinality(ts) - 1 : \E x \in ts : Rank(ts, x) = i
  <2>1. ts \subseteq MemberId
    OBVIOUS
  <2>2. QED  BY <2>1, Ranks
<1>3. k.sent \subseteq MemberId \ {m} /\ k.next = 1 + Cardinality(k.sent)
  BY DEF Kept
<1>4. IsFiniteSet(k.sent) /\ Cardinality(k.sent) \in Nat
  BY <1>3, Membership, FS_Subset, FS_CardinalityType
<1>5. Cardinality(k.sent \cup ts) = Cardinality(k.sent) + Cardinality(ts)
  <2>1. k.sent \cap ts = {}
    OBVIOUS
  <2>2. Cardinality(k.sent \cap ts) = 0
    BY <2>1, FS_EmptySet
  <2>3. Cardinality(k.sent \cup ts)
          = Cardinality(k.sent) + Cardinality(ts) - Cardinality(k.sent \cap ts)
    BY <1>2, <1>4, FS_Union
  <2>4. QED  BY <1>2, <1>4, <2>2, <2>3
<1>6. Cardinality(k.sent) + Cardinality(ts) <= MaxMemberIndex - 1
  <2>1. IsFiniteSet(MemberId \ {m}) /\ Cardinality(MemberId \ {m}) = MaxMemberIndex - 1
    BY Membership, FS_RemoveElement
  <2>2. k.sent \cup ts \subseteq MemberId \ {m}
    BY <1>3
  <2>3. Cardinality(k.sent \cup ts) <= Cardinality(MemberId \ {m})
    BY <2>1, <2>2, FS_Subset
  <2>4. QED  BY <1>5, <2>1, <2>3
<1>7. k.next \in Nat \ {0} /\ k.next + Cardinality(ts) - 1 <= MaxMemberIndex
  BY <1>2, <1>3, <1>4, <1>6, MaxMemberIndexAssumption
<1>8. k.next .. k.next + Cardinality(ts) - 1 \subseteq ChannelId
  <2>1. k.next .. k.next + Cardinality(ts) - 1 \subseteq 1 .. MaxMemberIndex
    BY <1>2, <1>7, MaxMemberIndexAssumption
  <2>2. QED  BY <2>1, Membership
<1>9. \A x \in ts : OfferId(k, ts, x) \in k.next .. k.next + Cardinality(ts) - 1
  BY <1>1, <1>2, <1>7
<1>10. \A x, y \in ts : OfferId(k, ts, x) = OfferId(k, ts, y) => x = y
  BY <1>1, <1>2, <1>7
<1>11. ASSUME NEW i \in 1 .. Cardinality(ts)
       PROVE  \E x \in ts : OfferId(k, ts, x) = k.next + i - 1
  <2>1. i - 1 \in 0 .. Cardinality(ts) - 1
    BY <1>2
  <2>2. PICK x \in ts : Rank(ts, x) = i - 1
    BY <1>2, <2>1
  <2>3. QED  BY <1>1, <1>2, <1>7, <2>2
<1>12. QED  BY <1>2, <1>5, <1>7, <1>8, <1>9, <1>10, <1>11 DEF Numbers

\* The channels of an offering.
NewChannels(k, ts) == {[on |-> OfferId(k, ts, x), dir |-> "out", peer |-> x] : x \in ts}

LEMMA OfferingKept ==
  ASSUME NEW m \in MemberId, NEW k \in Controller, Kept(m, k),
         NEW ts, ts \subseteq MemberId \ ({m} \cup k.sent)
  PROVE  /\ Offering(k, ts) \in Controller /\ Kept(m, Offering(k, ts))
         /\ Offering(k, ts).chans =
              {ch \in k.chans : \A n \in NewChannels(k, ts) : n.on # ch.on} \cup NewChannels(k, ts)
         /\ Offering(k, ts).next = k.next + Cardinality(ts)
         /\ Offering(k, ts).run = k.run
         /\ Offering(k, ts).pending =
              k.pending \cup {<<ch.peer, ch.on>> : ch \in NewChannels(k, ts)}
<1> DEFINE new == NewChannels(k, ts)
           l == Offering(k, ts)
<1>1. /\ Cardinality(ts) \in Nat /\ k.next \in Nat \ {0}
      /\ Cardinality(k.sent \cup ts) = Cardinality(k.sent) + Cardinality(ts)
      /\ k.next .. k.next + Cardinality(ts) - 1 \subseteq ChannelId
      /\ \A x \in ts : OfferId(k, ts, x) \in k.next .. k.next + Cardinality(ts) - 1
      /\ \A x, y \in ts : OfferId(k, ts, x) = OfferId(k, ts, y) => x = y
  <2>1. Numbers(k, ts)
    BY Offered
  <2>2. QED  BY <2>1 DEF Numbers
<1>2. \A ch \in new : /\ ch \in [on : ChannelId, dir : {"out", "in"}, peer : MemberId]
                      /\ ch.peer \in ts /\ ch.on = OfferId(k, ts, ch.peer)
                      /\ ch.on \in k.next .. k.next + Cardinality(ts) - 1
  BY <1>1 DEF NewChannels
<1>3. \A a, b \in new : a.on = b.on \/ a.peer = b.peer => a = b
  BY <1>1 DEF NewChannels
<1>4. l = [run |-> k.run, sent |-> k.sent \cup ts,
           pending |-> k.pending \cup {<<ch.peer, ch.on>> : ch \in new},
           chans |-> {ch \in k.chans : \A n \in new : n.on # ch.on} \cup new,
           next |-> k.next + Cardinality(ts), closed |-> k.closed, done |-> k.done]
  <2> DEFINE P == k.pending \cup {<<ch.peer, ch.on>> : ch \in new}
             C == {ch \in k.chans : \A n \in new : n.on # ch.on} \cup new
  <2>1. l = [k EXCEPT !.sent = k.sent \cup ts, !.pending = P, !.chans = C,
                      !.next = k.next + Cardinality(ts)]
    BY DEF Offering, NewChannels
  <2> HIDE DEF P, C, l
  <2>2. l = [run |-> k.run, sent |-> k.sent \cup ts, pending |-> P, chans |-> C,
             next |-> k.next + Cardinality(ts), closed |-> k.closed, done |-> k.done]
    BY <2>1 DEF Controller
  <2>3. QED  BY <2>2 DEF P, C
<1> HIDE DEF new, l
<1>5. l \in Controller
  <2>1. k.sent \cup ts \subseteq MemberId
    BY ControllerFields
  <2>2. k.pending \cup {<<ch.peer, ch.on>> : ch \in new} \subseteq MemberId \X ChannelId
    BY <1>1, <1>2, ControllerFields
  <2>3. {ch \in k.chans : \A n \in new : n.on # ch.on} \cup new
          \subseteq [on : ChannelId, dir : {"out", "in"}, peer : MemberId]
    BY <1>2, ControllerFields
  <2>4. QED  BY <1>1, <1>4, <2>1, <2>2, <2>3, ControllerFields DEF Controller
<1>6. Kept(m, l)
  <2>1. \A a, b \in l.chans : a.on = b.on => a = b
    BY <1>3, <1>4 DEF Kept
  <2>2. ASSUME NEW p \in l.pending, NEW q \in l.pending, p[1] = q[1] \/ p[2] = q[2]
        PROVE  p = q
    <3>1. \A r \in k.pending : r[1] \in k.sent /\ r[2] \in 1 .. k.next - 1
      BY DEF Kept
    <3>2. \A r \in {<<ch.peer, ch.on>> : ch \in new} :
            /\ r[1] \notin k.sent /\ r[2] \notin 1 .. k.next - 1
            /\ \E ch \in new : r = <<ch.peer, ch.on>>
      BY <1>1, <1>2
    <3>3. CASE p \in k.pending /\ q \in k.pending
      BY <2>2, <3>3 DEF Kept
    <3>4. CASE p \in {<<ch.peer, ch.on>> : ch \in new} /\ q \in {<<ch.peer, ch.on>> : ch \in new}
      BY <1>3, <2>2, <3>4
    <3>5. QED  BY <1>4, <2>2, <3>1, <3>2, <3>3, <3>4
  <2>3. ASSUME NEW p \in l.pending PROVE p[1] \in l.sent /\ p[2] \in 1 .. l.next - 1
    <3>1. CASE p \in k.pending
      BY <1>1, <1>4, <3>1 DEF Kept
    <3>2. CASE p \in {<<ch.peer, ch.on>> : ch \in new}
      BY <1>1, <1>2, <1>4, <3>2
    <3>3. QED  BY <1>4, <2>3, <3>1, <3>2
  <2>4. l.sent \subseteq MemberId \ {m} /\ l.next = 1 + Cardinality(l.sent)
    <3>1. k.sent \subseteq MemberId \ {m} /\ k.next = 1 + Cardinality(k.sent)
      BY DEF Kept
    <3>2. Cardinality(k.sent) \in Nat
      BY <3>1, Membership, FS_Subset, FS_CardinalityType
    <3>3. QED  BY <1>1, <1>4, <3>1, <3>2
  <2>5. QED  BY <2>1, <2>2, <2>3, <2>4 DEF Kept
<1>7. QED  BY <1>4, <1>5, <1>6 DEF new, l

LEMMA OpeningCommands ==
  ASSUME NEW m \in MemberId, NEW k \in Controller, Kept(m, k),
         NEW ts, ts \subseteq MemberId \ ({m} \cup k.sent)
  PROVE  /\ OpenCommands(k, ts) \in Seq(CommandType)
         /\ Len(OpenCommands(k, ts)) = Cardinality(ts)
         /\ \A i \in 1 .. Cardinality(ts) :
              /\ OpenCommands(k, ts)[i].type = "open"
              /\ OpenCommands(k, ts)[i].on = k.next + i - 1
              /\ OpenCommands(k, ts)[i].to \in ts
              /\ OpenCommands(k, ts)[i].on = OfferId(k, ts, OpenCommands(k, ts)[i].to)
         /\ \A x \in ts : \E i \in 1 .. Cardinality(ts) :
              OpenCommands(k, ts)[i] = Command("open", OfferId(k, ts, x), x)
<1> DEFINE n == Cardinality(ts)
           o == OpenCommands(k, ts)
           To(i) == CHOOSE x \in ts : OfferId(k, ts, x) = k.next + i - 1
<1>1. /\ n \in Nat /\ k.next \in Nat \ {0}
      /\ k.next .. k.next + n - 1 \subseteq ChannelId
      /\ \A x \in ts : OfferId(k, ts, x) \in k.next .. k.next + n - 1
      /\ \A x, y \in ts : OfferId(k, ts, x) = OfferId(k, ts, y) => x = y
      /\ \A i \in 1 .. n : \E x \in ts : OfferId(k, ts, x) = k.next + i - 1
  <2>1. Numbers(k, ts)
    BY Offered
  <2>2. QED  BY <2>1 DEF Numbers
<1>2. o = [i \in 1 .. n |-> Command("open", k.next + i - 1, To(i))]
  BY DEF OpenCommands
<1>3. \A i \in 1 .. n : To(i) \in ts /\ OfferId(k, ts, To(i)) = k.next + i - 1
  BY <1>1
<1> HIDE DEF n, o, To
<1>4. \A i \in 1 .. n : /\ o[i].type = "open" /\ o[i].on = k.next + i - 1
                        /\ o[i].to \in ts /\ o[i].on = OfferId(k, ts, o[i].to)
                        /\ o[i] \in CommandType
  <2>1. ASSUME NEW i \in 1 .. n PROVE k.next + i - 1 \in ChannelId
    <3>1. k.next + i - 1 \in k.next .. k.next + n - 1
      BY <1>1
    <3>2. QED  BY <1>1, <3>1
  <2>2. QED  BY <1>2, <1>3, <2>1 DEF Command, CommandType
<1>5. o \in Seq(CommandType) /\ Len(o) = n
  <2>1. o \in [1 .. n -> CommandType]
    BY <1>2, <1>4
  <2>2. o \in Seq(CommandType)
    BY <1>1, <2>1, SeqDef
  <2>3. Len(o) \in Nat /\ DOMAIN o = 1 .. Len(o) /\ DOMAIN o = 1 .. n
    BY <2>1, <2>2, LenProperties
  <2>4. \A i \in Nat \ {0} : i <= Len(o) <=> i <= n
    <3>1. \A i \in Nat \ {0} : (i \in 1 .. Len(o) <=> i <= Len(o)) /\ (i \in 1 .. n <=> i <= n)
      BY <1>1, <2>3
    <3>2. 1 .. Len(o) = 1 .. n
      BY <2>3
    <3>3. QED  BY <3>1, <3>2
  <2>5. Len(o) = n
    <3> DEFINE l == Len(o)
    <3>1. l \in Nat /\ n \in Nat
      BY <1>1, <2>3
    <3>2. \A i \in Nat \ {0} : i <= l <=> i <= n
      BY <2>4
    <3> HIDE DEF l
    <3>3. l > 0 => l <= n
      BY <3>1, <3>2
    <3>4. n > 0 => n <= l
      BY <3>1, <3>2
    <3>5. l = n
      BY <3>1, <3>3, <3>4
    <3>6. QED  BY <3>5 DEF l
  <2>6. QED  BY <2>2, <2>5
<1>6. ASSUME NEW x \in ts
      PROVE  \E i \in 1 .. n : o[i] = Command("open", OfferId(k, ts, x), x)
  <2> DEFINE i == OfferId(k, ts, x) - k.next + 1
  <2>1. i \in 1 .. n /\ OfferId(k, ts, x) = k.next + i - 1
    BY <1>1
  <2> HIDE DEF i
  <2>2. To(i) = x
    BY <1>1, <1>3, <2>1
  <2>3. o[i] = Command("open", OfferId(k, ts, x), x)
    BY <1>2, <2>1, <2>2
  <2>4. QED  BY <2>1, <2>3
<1>7. QED  BY <1>4, <1>5, <1>6 DEF n, o

-----------------------------------------------------------------------------
(* What a controller becomes.                                              *)

LEMMA ShrinkingKept ==
  ASSUME NEW m \in MemberId, NEW k \in Controller, Kept(m, k),
         NEW C \in SUBSET k.chans, NEW P \in SUBSET k.pending
  PROVE  /\ [k EXCEPT !.chans = C, !.pending = P] \in Controller
         /\ [k EXCEPT !.chans = C] \in Controller
         /\ [k EXCEPT !.pending = P] \in Controller
         /\ Kept(m, [k EXCEPT !.chans = C, !.pending = P])
         /\ Kept(m, [k EXCEPT !.chans = C])
         /\ Kept(m, [k EXCEPT !.pending = P])
<1>1. k.pending \subseteq MemberId \X ChannelId
      /\ k.chans \subseteq [on : ChannelId, dir : {"out", "in"}, peer : MemberId]
  BY ControllerFields
<1>2. C \subseteq [on : ChannelId, dir : {"out", "in"}, peer : MemberId]
      /\ P \subseteq MemberId \X ChannelId
  BY <1>1
<1>3. /\ [k EXCEPT !.chans = C, !.pending = P] \in Controller
      /\ [k EXCEPT !.chans = C] \in Controller
      /\ [k EXCEPT !.pending = P] \in Controller
  BY <1>2 DEF Controller
<1>4. Kept(m, [k EXCEPT !.chans = C, !.pending = P])
  <2> DEFINE l == [k EXCEPT !.chans = C, !.pending = P]
  <2>1. l.chans = C /\ l.pending = P /\ l.sent = k.sent /\ l.next = k.next
    BY DEF Controller
  <2> HIDE DEF l
  <2>2. Kept(m, l)
    BY <2>1, KeptShrinks
  <2>3. QED  BY <2>2 DEF l
<1>5. Kept(m, [k EXCEPT !.chans = C])
  <2> DEFINE l == [k EXCEPT !.chans = C]
  <2>1. l.chans = C /\ l.pending = k.pending /\ l.sent = k.sent /\ l.next = k.next
    BY DEF Controller
  <2> HIDE DEF l
  <2>2. Kept(m, l)
    BY <2>1, KeptShrinks
  <2>3. QED  BY <2>2 DEF l
<1>6. Kept(m, [k EXCEPT !.pending = P])
  <2> DEFINE l == [k EXCEPT !.pending = P]
  <2>1. l.chans = k.chans /\ l.pending = P /\ l.sent = k.sent /\ l.next = k.next
    BY DEF Controller
  <2> HIDE DEF l
  <2>2. Kept(m, l)
    BY <2>1, KeptShrinks
  <2>3. QED  BY <2>2 DEF l
<1>7. QED  BY <1>3, <1>4, <1>5, <1>6

\* Running on, closing and finishing leave the books as they are.
LEMMA RunningKept ==
  ASSUME NEW m \in MemberId, NEW k \in Controller, Kept(m, k),
         NEW r \in Run, NEW b \in BOOLEAN
  PROVE  /\ [k EXCEPT !.run = r] \in Controller /\ Kept(m, [k EXCEPT !.run = r])
         /\ [k EXCEPT !.done = b, !.run = r] \in Controller
         /\ Kept(m, [k EXCEPT !.done = b, !.run = r])
         /\ [k EXCEPT !.closed = b] \in Controller /\ Kept(m, [k EXCEPT !.closed = b])
<1>1. /\ [k EXCEPT !.run = r] \in Controller
      /\ [k EXCEPT !.done = b, !.run = r] \in Controller
      /\ [k EXCEPT !.closed = b] \in Controller
  BY DEF Controller
<1>2. Kept(m, [k EXCEPT !.run = r])
  <2> DEFINE l == [k EXCEPT !.run = r]
  <2>1. l.chans = k.chans /\ l.pending = k.pending /\ l.sent = k.sent /\ l.next = k.next
    BY DEF Controller
  <2> HIDE DEF l
  <2>2. Kept(m, l)
    BY <2>1, KeptShrinks
  <2>3. QED  BY <2>2 DEF l
<1>3. Kept(m, [k EXCEPT !.done = b, !.run = r])
  <2> DEFINE l == [k EXCEPT !.done = b, !.run = r]
  <2>1. l.chans = k.chans /\ l.pending = k.pending /\ l.sent = k.sent /\ l.next = k.next
    BY DEF Controller
  <2> HIDE DEF l
  <2>2. Kept(m, l)
    BY <2>1, KeptShrinks
  <2>3. QED  BY <2>2 DEF l
<1>4. Kept(m, [k EXCEPT !.closed = b])
  <2> DEFINE l == [k EXCEPT !.closed = b]
  <2>1. l.chans = k.chans /\ l.pending = k.pending /\ l.sent = k.sent /\ l.next = k.next
    BY DEF Controller
  <2> HIDE DEF l
  <2>2. Kept(m, l)
    BY <2>1, KeptShrinks
  <2>3. QED  BY <2>2 DEF l
<1>5. QED  BY <1>1, <1>2, <1>3, <1>4

LEMMA ClosingKept ==
  ASSUME NEW m \in MemberId, NEW k \in Controller, Kept(m, k)
  PROVE  /\ Closing(m, k) \in Controller /\ Kept(m, Closing(m, k))
         /\ Closing(m, k).run = k.run /\ Closing(m, k).next = k.next
         /\ Closing(m, k).chans = k.chans /\ Closing(m, k).sent = k.sent
         /\ Closing(m, k).pending = k.pending
<1>1. PICK b \in BOOLEAN : Closing(m, k) = [k EXCEPT !.closed = b]
  <2>1. k.closed \in BOOLEAN
    BY ControllerFields
  <2>2. (k.closed \/ (mode[m] = "oneshot" /\ k.sent # {})) \in BOOLEAN
    OBVIOUS
  <2>3. QED  BY <2>2 DEF Closing
<1>2. "over" \in Run
  BY DEF Run
<1>3. Closing(m, k) \in Controller /\ Kept(m, Closing(m, k))
  BY <1>1, <1>2, RunningKept
<1>4. QED  BY <1>1, <1>3 DEF Controller

LEMMA FinishingKept ==
  ASSUME NEW m \in MemberId, NEW k \in Controller, Kept(m, k)
  PROVE  /\ Finishing(m, k) \in Controller /\ Kept(m, Finishing(m, k))
         /\ Finishing(m, k).next = k.next /\ Finishing(m, k).chans = k.chans
         /\ Finishing(m, k).pending = k.pending /\ Finishing(m, k).sent = k.sent
         /\ Finishing(m, k).closed = k.closed
         /\ \/ Finishing(m, k).run = k.run
            \/ Finishing(m, k).run = "grace" /\ Writes(k) /\ HasFinished(m, k)
<1>1. CASE Writes(k) /\ HasFinished(m, k)
  <2>1. Finishing(m, k) = [k EXCEPT !.run = "grace"] /\ "grace" \in Run /\ TRUE \in BOOLEAN
    BY <1>1 DEF Finishing, Run
  <2>2. [k EXCEPT !.run = "grace"] \in Controller /\ Kept(m, [k EXCEPT !.run = "grace"])
    BY <2>1, RunningKept
  <2>3. QED  BY <1>1, <2>1, <2>2 DEF Controller
<1>2. CASE ~(Writes(k) /\ HasFinished(m, k))
  BY <1>2 DEF Finishing
<1>3. QED  BY <1>1, <1>2

LEMMA ControllerSet ==
  ASSUME ControllersTyped, NEW m \in MemberId, NEW k \in Controller, Kept(m, k),
         ctl' = [ctl EXCEPT ![m] = k]
  PROVE  ControllersTyped'
BY DEF ControllersTyped

\* What Acts does to the controllers and to what they ask of the host.
LEMMA ActsEffect ==
  ASSUME ctl \in [MemberId -> Controller], toHost \in [MemberId -> Seq(CommandType)],
         NEW m \in MemberId, NEW k \in Controller, NEW cs \in Seq(CommandType),
         Acts(m, k, cs)
  PROVE  /\ DOMAIN ctl' = MemberId /\ DOMAIN toHost' = MemberId
         /\ \A q \in MemberId \ {m} : ctl'[q] = ctl[q] /\ toHost'[q] = toHost[q]
         /\ \/ /\ cs = <<>> \/ Writes(ctl[m])
               /\ ctl' = [ctl EXCEPT ![m] = k] /\ ctl'[m] = k
               /\ toHost'[m] = toHost[m] \o cs
            \/ /\ ~Writes(ctl[m]) /\ cs # <<>>
               /\ ctl' = [ctl EXCEPT ![m] = [ctl[m] EXCEPT !.run = "failed"]]
               /\ ctl'[m] = [ctl[m] EXCEPT !.run = "failed"]
               /\ toHost' = toHost
<1>1. CASE cs = <<>> \/ Writes(ctl[m])
  <2>1. /\ ctl' = [ctl EXCEPT ![m] = k]
        /\ toHost' = [toHost EXCEPT ![m] = toHost[m] \o cs]
    BY <1>1 DEF Acts
  <2>2. QED  BY <1>1, <2>1
<1>2. CASE ~(cs = <<>> \/ Writes(ctl[m]))
  <2>1. ctl' = [ctl EXCEPT ![m].run = "failed"] /\ toHost' = toHost
    BY <1>2 DEF Acts
  <2>2. QED  BY <1>2, <2>1
<1>3. QED  BY <1>1, <1>2

LEMMA ActsTyped ==
  ASSUME ControllersTyped, toHost \in [MemberId -> Seq(CommandType)],
         NEW m \in MemberId, NEW k \in Controller, Kept(m, k),
         NEW cs \in Seq(CommandType), Acts(m, k, cs)
  PROVE  ControllersTyped' /\ toHost' \in [MemberId -> Seq(CommandType)]
<1>1. CASE cs = <<>> \/ Writes(ctl[m])
  <2>1. /\ ctl' = [ctl EXCEPT ![m] = k]
        /\ toHost' = [toHost EXCEPT ![m] = toHost[m] \o cs]
    BY <1>1 DEF Acts
  <2>2. toHost[m] \o cs \in Seq(CommandType)
    BY Joined
  <2>3. ControllersTyped'
    BY <2>1, ControllerSet
  <2>4. QED  BY <2>1, <2>2, <2>3
<1>2. CASE ~(cs = <<>> \/ Writes(ctl[m]))
  <2>1. ctl' = [ctl EXCEPT ![m] = [ctl[m] EXCEPT !.run = "failed"]] /\ toHost' = toHost
    BY <1>2 DEF Acts
  <2>2. ctl[m] \in Controller /\ Kept(m, ctl[m]) /\ "failed" \in Run
    BY DEF ControllersTyped, Run
  <2>3. /\ [ctl[m] EXCEPT !.run = "failed"] \in Controller
        /\ Kept(m, [ctl[m] EXCEPT !.run = "failed"])
    BY <2>2, RunningKept
  <2>4. ControllersTyped'
    BY <2>1, <2>3, ControllerSet
  <2>5. QED  BY <2>1, <2>4
<1>3. QED  BY <1>1, <1>2

-----------------------------------------------------------------------------
(* Types: the room and its queues.                                         *)

LEMMA RoomKept ==
  ASSUME IInv, UNCHANGED vars
  PROVE  IInv'
BY DEF IInv, vars, TypeOK, ParticipantsAreMembers, NobodyIsLeftAlone, HasCompany, ValidOffer

LEMMA RoomEvents ==
  ASSUME NEW by \in MemberId, NEW c \in ChannelId, NEW roster \in SUBSET MemberId
  PROVE  /\ Snapshot(by, roster) \in EventType
         /\ \A t \in {"member_joined", "member_left", "room_closed"} :
              Event0(t, by, NoChannel) \in EventType
         /\ \A t \in {"channel_opened", "channel_accepted", "channel_rejected",
                      "channel_closed", "channel_transfer", "error"} :
              Event0(t, by, c) \in EventType
         /\ \A t \in {"progress", "path_received", "error"} : Event0(t, by, c) \in OwnType
BY DEF Snapshot, Event0, EventType, OwnType

LEMMA Commands ==
  ASSUME NEW c \in ChannelId
  PROVE  /\ \A t \in {"accept", "reject", "close", "publish"} :
              Command(t, c, All) \in CommandType
         /\ Command("leave", NoChannel, All) \in CommandType
BY DEF Command, CommandType

LEMMA EntriesTyped ==
  ASSUME NEW c \in ChannelId, NEW from \in MemberId, NEW to \in MemberId
  PROVE  Entry(c, from, to) \in EntryType
BY DEF Entry, EntryType

LEMMA CopiesTyped ==
  ASSUME copy \in [Joiner -> SUBSET EntryType], NEW m \in MemberId,
         NEW new \in SUBSET EntryType, Copies(m, new)
  PROVE  copy' \in [Joiner -> SUBSET EntryType]
BY DEF Copies

LEMMA CopiedTyped ==
  ASSUME copy \in [Joiner -> SUBSET EntryType], NEW m \in MemberId
  PROVE  Copied(m) \in SUBSET EntryType
BY DEF Copied, Joiner

LEMMA BecomesTyped ==
  ASSUME offers \subseteq OfferType, NEW s, NEW c,
         NEW as \in {"open", "refused", "saved", "failed"}, Becomes(s, c, as)
  PROVE  offers' \subseteq OfferType
<1>1. \A f \in offers : [f EXCEPT !.as = as] \in OfferType
  BY DEF OfferType
<1>2. QED  BY <1>1 DEF Becomes

\* Reading an event takes it off the queue.
LEMMA TakenTyped ==
  ASSUME QueuesTyped, NEW m \in MemberId, NEW types,
         TakesFromHost(m, types)
  PROVE  /\ Head(fromHost[m]) \in EventType /\ Head(fromHost[m]).type \in types
         /\ fromHost' \in [MemberId -> Seq(EventType)]
         /\ own' = own /\ own' \in [MemberId -> Seq(OwnType)]
<1>1. fromHost[m] \in Seq(EventType) /\ fromHost[m] # <<>>
  BY DEF QueuesTyped, TakesFromHost
<1>2. Head(fromHost[m]) \in EventType /\ Tail(fromHost[m]) \in Seq(EventType)
  BY <1>1, HeadIsTyped
<1>3. QED  BY <1>2 DEF QueuesTyped, TakesFromHost

LEMMA TakenOwnTyped ==
  ASSUME QueuesTyped, NEW m \in MemberId, NEW types,
         TakesOwn(m, types)
  PROVE  /\ Head(own[m]) \in OwnType /\ Head(own[m]).type \in types
         /\ own' \in [MemberId -> Seq(OwnType)]
         /\ fromHost' = fromHost /\ fromHost' \in [MemberId -> Seq(EventType)]
<1>1. own[m] \in Seq(OwnType) /\ own[m] # <<>>
  BY DEF QueuesTyped, TakesOwn
<1>2. Head(own[m]) \in OwnType /\ Tail(own[m]) \in Seq(OwnType)
  BY <1>1, HeadIsTyped
<1>3. QED  BY <1>2 DEF QueuesTyped, TakesOwn

\* An answer of the engine reaches every queue as an event.
LEMMA DeliveredTyped ==
  ASSUME fromHost \in [MemberId -> Seq(EventType)], NEW m \in MemberId,
         reply'.event \in {"channel_opened", "channel_accepted", "channel_rejected",
                           "channel_closed", "channel_transfer"},
         reply'.by \in MemberId, reply'.on \in ChannelId, Delivered(m)
  PROVE  fromHost' \in [MemberId -> Seq(EventType)]
<1>1. Event0(reply'.event, reply'.by, reply'.on) \in EventType
      /\ Event0("error", m, reply'.on) \in EventType
  BY DEF Event0, EventType
<1>2. ASSUME NEW q \in MemberId
      PROVE  /\ Append(fromHost[q], Event0(reply'.event, reply'.by, reply'.on)) \in Seq(EventType)
             /\ Append(fromHost[q], Event0("error", m, reply'.on)) \in Seq(EventType)
             /\ fromHost[q] \in Seq(EventType)
  BY <1>1, Appended
<1>3. QED  BY <1>2 DEF Delivered

LEMMA EndsTyped ==
  ASSUME mode \in Modes, ControllersTyped, QueuesTyped, TransfersTyped,
         NEW m \in MemberId, Ends(m)
  PROVE  /\ mode' \in Modes /\ ControllersTyped'
         /\ own' \in [MemberId -> Seq(OwnType)]
         /\ copy' \in [Joiner -> SUBSET EntryType]
         /\ hashing' \subseteq MemberId \X ChannelId
         /\ loads' \subseteq LoadType /\ offers' \subseteq OfferType
<1>1. ctl[m] \in Controller /\ Kept(m, ctl[m]) /\ "over" \in Run /\ TRUE \in BOOLEAN
  BY DEF ControllersTyped, Run
<1>2. ctl' = [ctl EXCEPT ![m] = [ctl[m] EXCEPT !.run = "over"]]
  BY DEF Ends
<1>3. [ctl[m] EXCEPT !.run = "over"] \in Controller /\ Kept(m, [ctl[m] EXCEPT !.run = "over"])
  BY <1>1, RunningKept
<1>4. ControllersTyped'
  BY <1>2, <1>3, ControllerSet
<1>5. own' \in [MemberId -> Seq(OwnType)]
  BY ShortQueues DEF Ends, QueuesTyped
<1>6. copy' \in [Joiner -> SUBSET EntryType]
  BY DEF Ends, TransfersTyped
<1>7. QED  BY <1>4, <1>5, <1>6 DEF Ends, TransfersTyped

-----------------------------------------------------------------------------
(* Types: the room's steps.                                                *)

LEMMA RoomFacts ==
  ASSUME IInv
  PROVE  /\ members \subseteq MemberId /\ nextMemberIndex \in 2 .. MaxMemberIndex + 1
         /\ reply \in Reply /\ DOMAIN channels \subseteq ChannelId
         /\ \A c \in DOMAIN channels : channels[c] \in Channel /\ channels[c].opener \in MemberId
BY DEF IInv, TypeOK, Channel

LEMMA TypedJoinRoom ==
  ASSUME Typed, JoinRoom
  PROVE  Typed'
<1> DEFINE j == nextMemberIndex
<1>1. IInv'
  BY JoinStep DEF Typed, JoinRoom
<1>2. j \in MemberId /\ members \subseteq MemberId /\ members' \subseteq MemberId
  <2>1. IInv /\ Join
    BY DEF Typed, JoinRoom
  <2>2. /\ members \subseteq MemberId /\ nextMemberIndex \in 2 .. MaxMemberIndex + 1
        /\ members' = members \cup {j} /\ j <= MaxMemberIndex
    BY <2>1, RoomFacts DEF Join
  <2>3. j \in MemberId
    BY <2>2, MaxMemberIndexAssumption DEF MemberId
  <2>4. QED  BY <2>2, <2>3
<1>3. ControllersTyped'
  <2>1. ctl[j] \in Controller /\ Kept(j, ctl[j]) /\ "running" \in Run /\ TRUE \in BOOLEAN
    BY <1>2 DEF Typed, ControllersTyped, Run
  <2>2. ctl' = [ctl EXCEPT ![j] = [ctl[j] EXCEPT !.run = "running"]]
    BY DEF JoinRoom
  <2>3. /\ [ctl[j] EXCEPT !.run = "running"] \in Controller
        /\ Kept(j, [ctl[j] EXCEPT !.run = "running"])
    BY <1>2, <2>1, RunningKept
  <2>4. QED  BY <1>2, <2>2, <2>3, ControllerSet DEF Typed
<1>4. fromHost' \in [MemberId -> Seq(EventType)]
  <2>1. Snapshot(j, members') \in EventType
    BY <1>2 DEF Snapshot, EventType
  <2>2. Event0("member_joined", j, NoChannel) \in EventType
    BY <1>2 DEF Event0, EventType
  <2>3. ASSUME NEW q \in MemberId
        PROVE  /\ fromHost[q] \in Seq(EventType)
               /\ Append(fromHost[q], Event0("member_joined", j, NoChannel)) \in Seq(EventType)
               /\ <<Snapshot(j, members')>> \in Seq(EventType)
    BY <2>1, <2>2, Appended, ShortQueues DEF Typed, QueuesTyped
  <2>4. fromHost' = [q \in MemberId |->
          IF q = j THEN <<Snapshot(j, members')>>
          ELSE IF q \in members THEN Append(fromHost[q], Event0("member_joined", j, NoChannel))
          ELSE fromHost[q]]
    BY DEF JoinRoom
  <2>5. QED  BY <2>3, <2>4
<1>5. QED
  BY <1>1, <1>3, <1>4 DEF Typed, JoinRoom, QueuesTyped, TransfersTyped, transfers

\* A leave reaches every queue as member_left.
LEMMA LeftTyped ==
  ASSUME fromHost \in [MemberId -> Seq(EventType)], NEW m \in MemberId,
         NEW S, NEW e \in EventType,
         fromHost' = [q \in MemberId |->
            IF q = m THEN <<>> ELSE IF q \in S THEN Append(fromHost[q], e) ELSE fromHost[q]]
  PROVE  fromHost' \in [MemberId -> Seq(EventType)]
<1>1. ASSUME NEW q \in MemberId
      PROVE  /\ fromHost[q] \in Seq(EventType) /\ <<>> \in Seq(EventType)
             /\ Append(fromHost[q], e) \in Seq(EventType)
  BY Appended, ShortQueues
<1>2. QED  BY <1>1

LEMMA TypedCrash ==
  ASSUME Typed, NEW j \in Joiner, Crash(j)
  PROVE  Typed'
<1>1. j \in MemberId
  BY MemberNumbers
<1>2. IInv'
  BY <1>1, LeaveStep DEF Typed, Crash
<1>3. /\ mode' \in Modes /\ ControllersTyped' /\ own' \in [MemberId -> Seq(OwnType)]
      /\ copy' \in [Joiner -> SUBSET EntryType] /\ hashing' \subseteq MemberId \X ChannelId
      /\ loads' \subseteq LoadType /\ offers' \subseteq OfferType
  BY <1>1, EndsTyped DEF Typed, Crash
<1>4. fromHost' \in [MemberId -> Seq(EventType)]
  <2>1. Event0("member_left", j, NoChannel) \in EventType
    BY <1>1 DEF Event0, EventType
  <2>2. fromHost' = [q \in MemberId |->
           IF q = j THEN <<>>
           ELSE IF q \in reply'.to THEN Append(fromHost[q], Event0("member_left", j, NoChannel))
           ELSE fromHost[q]]
    BY DEF Crash
  <2>3. QED  BY <1>1, <2>1, <2>2, LeftTyped DEF Typed, QueuesTyped
<1>5. toHost' \in [MemberId -> Seq(CommandType)]
  BY ShortQueues DEF Typed, QueuesTyped, Crash
<1>6. faults' \in 0 .. MaxFaults
  BY AutomationAssumption DEF Typed, TransfersTyped, Crash
<1>7. QED
  BY <1>2, <1>3, <1>4, <1>5, <1>6 DEF Typed, QueuesTyped, TransfersTyped

\* Every command the host can take has one of these forms.
LEMMA CommandForms ==
  ASSUME NEW e \in CommandType
  PROVE  \/ e.type = "leave"
         \/ e.type = "open" /\ e.on \in ChannelId /\ e.to \in MemberId
         \/ e.type \in {"accept", "reject", "close", "publish"} /\ e.on \in ChannelId
BY DEF CommandType

LEMMA TypedHostTakesLeave ==
  ASSUME Typed, NEW m \in MemberId, HostTakesLeave(m)
  PROVE  IInv' /\ fromHost' \in [MemberId -> Seq(EventType)]
<1>1. CASE m = Host
  <2>1. IInv'
    BY <1>1, RoomKept DEF Typed, HostTakesLeave
  <2>2. Event0("room_closed", Host, NoChannel) \in EventType
    BY MemberNumbers DEF Event0, EventType
  <2>3. ASSUME NEW q \in MemberId
        PROVE  /\ Append(fromHost[q], Event0("room_closed", Host, NoChannel)) \in Seq(EventType)
               /\ <<>> \in Seq(EventType)
    BY <2>2, Appended, ShortQueues DEF Typed, QueuesTyped
  <2>4. fromHost' = [q \in MemberId |->
               IF q \in members \ {Host}
               THEN Append(fromHost[q], Event0("room_closed", Host, NoChannel))
               ELSE <<>>]
    BY <1>1 DEF HostTakesLeave
  <2>5. QED  BY <2>1, <2>3, <2>4
<1>2. CASE m # Host
  <2>1. IInv'
    BY <1>2, LeaveStep DEF Typed, HostTakesLeave
  <2>2. Event0("member_left", m, NoChannel) \in EventType
    BY DEF Event0, EventType
  <2>3. fromHost' = [q \in MemberId |->
           IF q = m THEN <<>>
           ELSE IF q \in reply'.to THEN Append(fromHost[q], Event0("member_left", m, NoChannel))
           ELSE fromHost[q]]
    BY <1>2 DEF HostTakesLeave
  <2>4. QED  BY <2>1, <2>2, <2>3, LeftTyped DEF Typed, QueuesTyped
<1>3. QED  BY <1>1, <1>2

\* What the engine's answers name.
LEMMA Answers ==
  ASSUME NEW m, NEW c, NEW to
  PROVE  /\ OpenChannel(m, c, "file", to, "provisional")
              => reply'.event = "channel_opened" /\ reply'.by = m /\ reply'.on = c
         /\ AcceptChannel(m, c)
              => reply'.event = "channel_accepted" /\ reply'.by = m /\ reply'.on = c
         /\ RejectChannel(m, c)
              => reply'.event = "channel_rejected" /\ reply'.by = m /\ reply'.on = c
         /\ CloseChannel(m, c)
              => reply'.event = "channel_closed" /\ reply'.by = m /\ reply'.on = c
         /\ UpdateChannelTransfer(m, c, "digest")
              => reply'.event = "channel_transfer" /\ reply'.by = m /\ reply'.on = c
BY DEF OpenChannel, AcceptChannel, RejectChannel, CloseChannel, Quit, UpdateChannelTransfer,
       Routed, Refused

LEMMA TypedTakesOpen ==
  ASSUME Typed, NEW m \in MemberId, NEW c \in ChannelId, NEW to \in MemberId,
         OpenChannel(m, c, "file", to, "provisional"), Delivered(m)
  PROVE  IInv' /\ fromHost' \in [MemberId -> Seq(EventType)]
<1>1. /\ "file" \in ChannelKind /\ to \in Route
      /\ "provisional" \in TransferOffer \cup {NoTransfer}
  BY AutomationAssumption, MemberNumbers
<1>2. IInv'
  <2>1. IInv
    BY DEF Typed
  <2>2. QED  BY <1>1, <2>1, OpenChannelStep
<1>3. reply'.event = "channel_opened" /\ reply'.by = m /\ reply'.on = c
  BY Answers
<1>4. fromHost' \in [MemberId -> Seq(EventType)]
  BY <1>3, DeliveredTyped DEF Typed, QueuesTyped
<1>5. QED  BY <1>2, <1>4

LEMMA TypedTakesAccept ==
  ASSUME Typed, NEW m \in MemberId, NEW c \in ChannelId,
         AcceptChannel(m, c), Delivered(m)
  PROVE  /\ IInv' /\ fromHost' \in [MemberId -> Seq(EventType)]
         /\ reply'.ok => c \in DOMAIN channels /\ channels[c].opener \in MemberId
<1>1. IInv'
  BY RouteStep DEF Typed
<1>2. reply'.event = "channel_accepted" /\ reply'.by = m /\ reply'.on = c
  BY Answers
<1>3. fromHost' \in [MemberId -> Seq(EventType)]
  BY <1>2, DeliveredTyped DEF Typed, QueuesTyped
<1>4. reply'.ok => c \in DOMAIN channels /\ channels[c].opener \in MemberId
  <2>1. reply'.ok => c \in DOMAIN channels
    BY DEF AcceptChannel, Refused, MayUse
  <2>2. QED  BY <2>1, RoomFacts DEF Typed
<1>5. QED  BY <1>1, <1>3, <1>4

LEMMA TypedTakesOther ==
  ASSUME Typed, NEW m \in MemberId, NEW c \in ChannelId,
         RejectChannel(m, c) \/ CloseChannel(m, c) \/ UpdateChannelTransfer(m, c, "digest"),
         Delivered(m) \/ UNCHANGED fromHost
  PROVE  IInv' /\ fromHost' \in [MemberId -> Seq(EventType)]
<1>1. IInv'
  <2>1. "channel_rejected" \in Event /\ "channel_closed" \in Event /\ "digest" \in TransferOffer
        /\ IInv
    BY AutomationAssumption DEF Event, Typed
  <2>2. CASE RejectChannel(m, c)
    BY <2>1, <2>2, QuitStep DEF RejectChannel
  <2>3. CASE CloseChannel(m, c)
    BY <2>1, <2>3, QuitStep DEF CloseChannel
  <2>4. CASE UpdateChannelTransfer(m, c, "digest")
    BY <2>1, <2>4, UpdateStep
  <2>5. QED  BY <2>2, <2>3, <2>4
<1>2. reply'.event \in {"channel_rejected", "channel_closed", "channel_transfer"}
      /\ reply'.by = m /\ reply'.on = c
  BY DEF RejectChannel, CloseChannel, Quit, UpdateChannelTransfer, Routed, Refused
<1>3. fromHost' \in [MemberId -> Seq(EventType)]
  <2>1. fromHost \in [MemberId -> Seq(EventType)]
    BY DEF Typed, QueuesTyped
  <2>2. CASE Delivered(m)
    BY <1>2, <2>1, <2>2, DeliveredTyped
  <2>3. QED  BY <2>1, <2>2
<1>4. QED  BY <1>1, <1>3

LEMMA TypedHostTakesCommand ==
  ASSUME Typed, NEW m \in MemberId, HostTakesCommand(m)
  PROVE  Typed'
<1> DEFINE e == Head(toHost[m])
<1>1. toHost[m] \in Seq(CommandType) /\ toHost[m] # <<>> /\ faults' = faults
  BY DEF Typed, QueuesTyped, HostTakesCommand
<1>2. e \in CommandType /\ Tail(toHost[m]) \in Seq(CommandType)
  BY <1>1, HeadIsTyped
<1>3. toHost' \in [MemberId -> Seq(CommandType)]
  <2>1. toHost' = [toHost EXCEPT ![m] = IF e.type = "leave" THEN <<>> ELSE Tail(toHost[m])]
    BY DEF HostTakesCommand, Typed, QueuesTyped
  <2>2. (IF e.type = "leave" THEN <<>> ELSE Tail(toHost[m])) \in Seq(CommandType)
    BY <1>2, ShortQueues
  <2>3. QED  BY <2>1, <2>2 DEF Typed, QueuesTyped
<1>4. CASE e.type = "leave"
  <2>1. HostTakesLeave(m)
    BY <1>4 DEF HostTakesCommand
  <2>2. IInv' /\ fromHost' \in [MemberId -> Seq(EventType)] /\ Ends(m)
    BY <2>1, TypedHostTakesLeave DEF HostTakesLeave
  <2>3. /\ mode' \in Modes /\ ControllersTyped' /\ own' \in [MemberId -> Seq(OwnType)]
        /\ copy' \in [Joiner -> SUBSET EntryType] /\ hashing' \subseteq MemberId \X ChannelId
        /\ loads' \subseteq LoadType /\ offers' \subseteq OfferType
    BY <2>2, EndsTyped DEF Typed
  <2>4. QED  BY <1>1, <1>3, <2>2, <2>3 DEF Typed, QueuesTyped, TransfersTyped
<1>5. ASSUME e.type # "leave", IInv', fromHost' \in [MemberId -> Seq(EventType)],
             hashing' \subseteq MemberId \X ChannelId, loads' \subseteq LoadType,
             offers' \subseteq OfferType
      PROVE  Typed'
  <2>1. UNCHANGED <<mode, ctl, own, copy>>
    BY <1>5 DEF HostTakesCommand
  <2>2. QED
    BY <1>1, <1>3, <1>5, <2>1 DEF Typed, ControllersTyped, Kept, QueuesTyped, TransfersTyped
<1>6. CASE e.type = "open"
  <2>1. e.on \in ChannelId /\ e.to \in MemberId
    BY <1>2, <1>6, CommandForms
  <2>2. /\ OpenChannel(m, e.on, "file", e.to, "provisional") /\ Delivered(m)
        /\ loads' = loads
        /\ hashing' = IF m = Host /\ reply'.ok THEN hashing \cup {<<m, e.on>>} ELSE hashing
        /\ offers' = offers \/ Becomes(m, e.on, "refused")
    BY <1>6 DEF HostTakesCommand
  <2>3. IInv' /\ fromHost' \in [MemberId -> Seq(EventType)]
    BY <2>1, <2>2, TypedTakesOpen
  <2>4. offers' \subseteq OfferType
    BY <2>2, BecomesTyped DEF Typed, TransfersTyped
  <2>5. hashing' \subseteq MemberId \X ChannelId /\ loads' \subseteq LoadType
    BY <2>1, <2>2 DEF Typed, TransfersTyped
  <2>6. QED  BY <1>5, <1>6, <2>3, <2>4, <2>5
<1>7. CASE e.type = "accept"
  <2>1. e.on \in ChannelId
    BY <1>2, <1>7, CommandForms
  <2>2. /\ AcceptChannel(m, e.on) /\ Delivered(m) /\ UNCHANGED <<hashing, offers>>
        /\ loads' = IF m = Host /\ reply'.ok
                    THEN loads \cup {[by |-> m, on |-> e.on, stage |-> "asked",
                                      from |-> channels[e.on].opener]}
                    ELSE loads
    BY <1>7 DEF HostTakesCommand
  <2>3. /\ IInv' /\ fromHost' \in [MemberId -> Seq(EventType)]
        /\ reply'.ok => channels[e.on].opener \in MemberId
    BY <2>1, <2>2, TypedTakesAccept
  <2>4. loads' \subseteq LoadType
    BY <2>1, <2>2, <2>3 DEF Typed, TransfersTyped, LoadType
  <2>5. QED  BY <1>5, <1>7, <2>2, <2>3, <2>4 DEF Typed, TransfersTyped
<1>8. CASE e.type \in {"reject", "close", "publish"}
  <2>1. e.on \in ChannelId
    BY <1>2, <1>8, CommandForms
  <2>2. /\ RejectChannel(m, e.on) \/ CloseChannel(m, e.on)
             \/ UpdateChannelTransfer(m, e.on, "digest")
        /\ Delivered(m) \/ UNCHANGED fromHost
        /\ UNCHANGED transfers
    BY <1>8 DEF HostTakesCommand
  <2>3. IInv' /\ fromHost' \in [MemberId -> Seq(EventType)]
    BY <2>1, <2>2, TypedTakesOther
  <2>4. QED  BY <1>5, <1>8, <2>2, <2>3 DEF Typed, TransfersTyped, transfers
<1>9. QED  BY <1>2, <1>4, <1>6, <1>7, <1>8, CommandForms

-----------------------------------------------------------------------------
(* Types: the controllers' handlers.                                       *)

\* Whom a snapshot or a newcomer makes an offer to.
Addressed(m) ==
  LET e == Head(fromHost[m]) IN
  Targets(m, ctl[m], IF e.type = "member_joined" THEN {e.by} ELSE e.roster)
Opens(m)   == OpenCommands(ctl[m], Addressed(m))
Entries(m) == {Entry(o.on, m, o.to) : o \in {Opens(m)[i] : i \in DOMAIN Opens(m)}}

LEMMA AddressedMembers ==
  ASSUME NEW m \in MemberId, Head(fromHost[m]) \in EventType,
         Head(fromHost[m]).type \in {"member_snapshot", "member_joined"}
  PROVE  Addressed(m) \subseteq MemberId \ ({m} \cup ctl[m].sent)
<1> DEFINE e == Head(fromHost[m])
<1>1. (IF e.type = "member_joined" THEN {e.by} ELSE e.roster) \subseteq MemberId
  BY DEF EventType
<1>2. QED  BY <1>1 DEF Addressed, Targets

\* What reading of members amounts to.
LEMMA ReadsMembersEffect ==
  ASSUME QueuesTyped, ControllersTyped, NEW m \in MemberId, ReadsMembers(m)
  PROVE  /\ TakesFromHost(m, {"member_snapshot", "member_joined"})
         /\ Acts(m, Finishing(m, Closing(m, Offering(ctl[m], Addressed(m)))), Opens(m))
         /\ offers' = IF Writes(ctl[m])
                      THEN offers \cup {[from |-> m, to |-> x.to, on |-> x.on, as |-> "open"]
                                        : x \in Entries(m)}
                      ELSE offers
         /\ IF Writes(ctl[m]) /\ m # Host
            THEN /\ Copies(m, WithEntries(copy[m], Entries(m)))
                 /\ hashing' = hashing \cup {<<m, x.on>> : x \in Entries(m)}
            ELSE UNCHANGED <<copy, hashing>>
         /\ UNCHANGED <<vars, mode, loads, faults>>
BY DEF ReadsMembers, Addressed, Opens, Entries

LEMMA EntriesMade ==
  ASSUME ControllersTyped, QueuesTyped, NEW m \in MemberId,
         TakesFromHost(m, {"member_snapshot", "member_joined"})
  PROVE  /\ ctl[m] \in Controller /\ Kept(m, ctl[m])
         /\ Addressed(m) \subseteq MemberId \ ({m} \cup ctl[m].sent)
         /\ Opens(m) \in Seq(CommandType)
         /\ \A x \in Entries(m) : /\ x \in EntryType /\ x.from = m
                                  /\ x.to \in Addressed(m)
                                  /\ x.on = OfferId(ctl[m], Addressed(m), x.to)
         /\ \A q \in Addressed(m) : \E x \in Entries(m) :
              x.to = q /\ x.on = OfferId(ctl[m], Addressed(m), q)
<1>1. ctl[m] \in Controller /\ Kept(m, ctl[m])
  BY DEF ControllersTyped
<1>2. Addressed(m) \subseteq MemberId \ ({m} \cup ctl[m].sent)
  BY TakenTyped, AddressedMembers
<1> DEFINE ts == Addressed(m)
           o == OpenCommands(ctl[m], ts)
<1>3. /\ o \in Seq(CommandType) /\ Len(o) = Cardinality(ts) /\ Cardinality(ts) \in Nat
      /\ \A i \in 1 .. Cardinality(ts) :
           /\ o[i].type = "open" /\ o[i].to \in ts
           /\ o[i].on = OfferId(ctl[m], ts, o[i].to)
      /\ \A x \in ts : \E i \in 1 .. Cardinality(ts) :
           o[i] = Command("open", OfferId(ctl[m], ts, x), x)
  <2>1. Numbers(ctl[m], ts)
    BY <1>1, <1>2, Offered
  <2>2. Cardinality(ts) \in Nat
    BY <2>1 DEF Numbers
  <2>3. QED  BY <1>1, <1>2, <2>2, OpeningCommands
<1> HIDE DEF ts, o
<1>4. DOMAIN o = 1 .. Cardinality(ts)
  BY <1>3, LenProperties
<1>5. Entries(m) = {Entry(o[i].on, m, o[i].to) : i \in 1 .. Cardinality(ts)}
  BY <1>4 DEF Entries, Opens, o, ts
<1>6. \A i \in 1 .. Cardinality(ts) : o[i].on \in ChannelId /\ o[i].to \in MemberId
  <2>1. ASSUME NEW i \in 1 .. Cardinality(ts) PROVE o[i] \in CommandType
    BY <1>3, <1>4, ElementOfSeq
  <2>2. QED  BY <1>3, <2>1 DEF CommandType
<1>7. ASSUME NEW x \in Entries(m)
      PROVE  /\ x \in EntryType /\ x.from = m /\ x.to \in ts
             /\ x.on = OfferId(ctl[m], ts, x.to)
  <2>1. PICK i \in 1 .. Cardinality(ts) : x = Entry(o[i].on, m, o[i].to)
    BY <1>5
  <2>2. x.from = m /\ x.to = o[i].to /\ x.on = o[i].on
    BY <2>1 DEF Entry
  <2>3. QED  BY <1>3, <1>6, <2>1, <2>2, EntriesTyped
<1>8. ASSUME NEW q \in ts
      PROVE  \E x \in Entries(m) : x.to = q /\ x.on = OfferId(ctl[m], ts, q)
  <2>1. PICK i \in 1 .. Cardinality(ts) : o[i] = Command("open", OfferId(ctl[m], ts, q), q)
    BY <1>3
  <2>2. o[i].to = q /\ o[i].on = OfferId(ctl[m], ts, q)
    BY <2>1 DEF Command
  <2>3. Entry(o[i].on, m, o[i].to) \in Entries(m)
    BY <1>5
  <2>4. /\ Entry(o[i].on, m, o[i].to).to = o[i].to
        /\ Entry(o[i].on, m, o[i].to).on = o[i].on
    BY DEF Entry
  <2>5. QED  BY <2>2, <2>3, <2>4
<1>9. QED  BY <1>1, <1>2, <1>3, <1>7, <1>8 DEF ts, o, Opens

LEMMA TypedReadsMembers ==
  ASSUME Typed, NEW m \in MemberId, ReadsMembers(m)
  PROVE  Typed'
<1> DEFINE k == Finishing(m, Closing(m, Offering(ctl[m], Addressed(m))))
<1>1. /\ TakesFromHost(m, {"member_snapshot", "member_joined"})
      /\ Acts(m, k, Opens(m))
      /\ offers' = IF Writes(ctl[m])
                   THEN offers \cup {[from |-> m, to |-> x.to, on |-> x.on, as |-> "open"]
                                     : x \in Entries(m)}
                   ELSE offers
      /\ IF Writes(ctl[m]) /\ m # Host
         THEN /\ Copies(m, WithEntries(copy[m], Entries(m)))
              /\ hashing' = hashing \cup {<<m, x.on>> : x \in Entries(m)}
         ELSE UNCHANGED <<copy, hashing>>
      /\ UNCHANGED <<vars, mode, loads, faults>>
  BY ReadsMembersEffect DEF Typed
<1>2. /\ ctl[m] \in Controller /\ Kept(m, ctl[m])
      /\ Addressed(m) \subseteq MemberId \ ({m} \cup ctl[m].sent)
      /\ Opens(m) \in Seq(CommandType)
      /\ \A x \in Entries(m) : x \in EntryType
  BY <1>1, EntriesMade DEF Typed
<1>3. k \in Controller /\ Kept(m, k)
  <2>1. Offering(ctl[m], Addressed(m)) \in Controller
        /\ Kept(m, Offering(ctl[m], Addressed(m)))
    BY <1>2, OfferingKept
  <2>2. /\ Closing(m, Offering(ctl[m], Addressed(m))) \in Controller
        /\ Kept(m, Closing(m, Offering(ctl[m], Addressed(m))))
    BY <2>1, ClosingKept
  <2>3. QED  BY <2>2, FinishingKept
<1> HIDE DEF k
<1>4. ControllersTyped' /\ toHost' \in [MemberId -> Seq(CommandType)]
  BY <1>1, <1>2, <1>3, ActsTyped DEF Typed, QueuesTyped
<1>5. fromHost' \in [MemberId -> Seq(EventType)] /\ own' \in [MemberId -> Seq(OwnType)]
  BY <1>1, TakenTyped DEF Typed
<1>6. offers' \subseteq OfferType
  <2>1. \A x \in Entries(m) : [from |-> m, to |-> x.to, on |-> x.on, as |-> "open"] \in OfferType
    BY <1>2 DEF EntryType, OfferType
  <2>2. QED  BY <1>1, <2>1 DEF Typed, TransfersTyped
<1>7. copy' \in [Joiner -> SUBSET EntryType] /\ hashing' \subseteq MemberId \X ChannelId
  <2>1. CASE Writes(ctl[m]) /\ m # Host
    <3>1. copy[m] \subseteq EntryType
      BY <2>1 DEF Typed, TransfersTyped, Joiner
    <3>2. WithEntries(copy[m], Entries(m)) \in SUBSET EntryType
      BY <1>2, <3>1 DEF WithEntries
    <3>3. copy' \in [Joiner -> SUBSET EntryType]
      BY <1>1, <2>1, <3>2, CopiesTyped DEF Typed, TransfersTyped
    <3>4. \A x \in Entries(m) : <<m, x.on>> \in MemberId \X ChannelId
      BY <1>2 DEF EntryType
    <3>5. QED  BY <1>1, <2>1, <3>3, <3>4 DEF Typed, TransfersTyped
  <2>2. QED  BY <1>1, <2>1 DEF Typed, TransfersTyped
<1>8. IInv'
  BY <1>1, RoomKept DEF Typed
<1>9. QED
  BY <1>1, <1>4, <1>5, <1>6, <1>7, <1>8 DEF Typed, QueuesTyped, TransfersTyped

\* A handler that takes an event, acts and leaves the transfers to others.
LEMMA TypedHandler ==
  ASSUME Typed, NEW m \in MemberId, NEW k \in Controller, Kept(m, k),
         NEW cs \in Seq(CommandType), Acts(m, k, cs),
         fromHost' \in [MemberId -> Seq(EventType)], own' \in [MemberId -> Seq(OwnType)],
         copy' \in [Joiner -> SUBSET EntryType], loads' \subseteq LoadType,
         offers' \subseteq OfferType, UNCHANGED <<vars, mode, hashing, faults>>
  PROVE  Typed'
<1>1. ControllersTyped' /\ toHost' \in [MemberId -> Seq(CommandType)]
  BY ActsTyped DEF Typed, QueuesTyped
<1>2. IInv'
  BY RoomKept DEF Typed
<1>3. QED  BY <1>1, <1>2 DEF Typed, QueuesTyped, TransfersTyped

LEMMA WithoutPeerKept ==
  ASSUME NEW m \in MemberId, NEW k \in Controller, Kept(m, k), NEW q
  PROVE  /\ WithoutPeer(q, k) \in Controller /\ Kept(m, WithoutPeer(q, k))
         /\ WithoutPeer(q, k).run = k.run /\ WithoutPeer(q, k).next = k.next
         /\ WithoutPeer(q, k).chans = {ch \in k.chans : ch.peer # q}
<1> DEFINE C == {ch \in k.chans : ch.peer # q}
           P == {p \in k.pending : p[1] # q}
<1>1. WithoutPeer(q, k) = [k EXCEPT !.chans = C, !.pending = P]
  BY DEF WithoutPeer
<1>2. C \in SUBSET k.chans /\ P \in SUBSET k.pending
  OBVIOUS
<1> HIDE DEF C, P
<1>3. WithoutPeer(q, k) \in Controller /\ Kept(m, WithoutPeer(q, k))
  <2>1. /\ [k EXCEPT !.chans = C, !.pending = P] \in Controller
        /\ Kept(m, [k EXCEPT !.chans = C, !.pending = P])
    BY <1>2, ShrinkingKept
  <2>2. QED  BY <1>1, <2>1
<1>4. WithoutPeer(q, k).run = k.run /\ WithoutPeer(q, k).next = k.next
      /\ WithoutPeer(q, k).chans = C
  BY <1>1 DEF Controller
<1>5. QED  BY <1>3, <1>4 DEF C

LEMMA TypedReadsLeft ==
  ASSUME Typed, NEW m \in MemberId, ReadsLeft(m)
  PROVE  Typed'
<1> DEFINE e == Head(fromHost[m])
           k == Finishing(m, WithoutPeer(e.by, ctl[m]))
<1>1. /\ TakesFromHost(m, {"member_left"}) /\ Acts(m, k, <<>>)
      /\ Copies(m, {x \in Copied(m) : e.by \notin {x.from, x.to}})
      /\ UNCHANGED <<vars, mode, transfers, faults>>
  BY DEF ReadsLeft
<1>2. k \in Controller /\ Kept(m, k)
  <2>1. ctl[m] \in Controller /\ Kept(m, ctl[m])
    BY DEF Typed, ControllersTyped
  <2>2. WithoutPeer(e.by, ctl[m]) \in Controller /\ Kept(m, WithoutPeer(e.by, ctl[m]))
    BY <2>1, WithoutPeerKept
  <2>3. QED  BY <2>2, FinishingKept
<1> HIDE DEF k
<1>3. fromHost' \in [MemberId -> Seq(EventType)] /\ own' \in [MemberId -> Seq(OwnType)]
  BY <1>1, TakenTyped DEF Typed
<1>4. copy' \in [Joiner -> SUBSET EntryType]
  <2>1. {x \in Copied(m) : e.by \notin {x.from, x.to}} \in SUBSET EntryType
    BY CopiedTyped DEF Typed, TransfersTyped
  <2>2. QED  BY <1>1, <2>1, CopiesTyped DEF Typed, TransfersTyped
<1>5. <<>> \in Seq(CommandType) /\ loads' \subseteq LoadType /\ offers' \subseteq OfferType
  BY <1>1, ShortQueues DEF Typed, TransfersTyped, transfers
<1>6. UNCHANGED <<vars, mode, hashing, faults>>
  BY <1>1 DEF transfers
<1>7. QED  BY <1>1, <1>2, <1>3, <1>4, <1>5, <1>6, TypedHandler

\* A channel that is opened to m replaces what m had under that id.
Listed(k, c, q) ==
  [k EXCEPT !.chans = (@ \ OnChannel(c, k)) \cup {[on |-> c, dir |-> "in", peer |-> q]}]

LEMMA ListedKept ==
  ASSUME NEW m \in MemberId, NEW k \in Controller, Kept(m, k), NEW c \in ChannelId,
         NEW q \in MemberId
  PROVE  /\ Listed(k, c, q) \in Controller /\ Kept(m, Listed(k, c, q))
         /\ Listed(k, c, q).run = k.run /\ Listed(k, c, q).next = k.next
<1> DEFINE C == (k.chans \ OnChannel(c, k)) \cup {[on |-> c, dir |-> "in", peer |-> q]}
           l == [k EXCEPT !.chans = C]
<1>1. C \subseteq [on : ChannelId, dir : {"out", "in"}, peer : MemberId]
  BY ControllerFields
<1>2. \A a, b \in C : a.on = b.on => a = b
  BY DEF OnChannel, Kept
<1>3. l \in Controller /\ l.chans = C /\ l.pending = k.pending /\ l.sent = k.sent
      /\ l.next = k.next /\ l.run = k.run
  <2> HIDE DEF C
  <2>1. QED  BY <1>1 DEF Controller
<1> HIDE DEF l, C
<1>4. Kept(m, l)
  BY <1>2, <1>3 DEF Kept
<1>5. QED  BY <1>3, <1>4 DEF Listed, l, C

LEMMA TypedReadsOpened ==
  ASSUME Typed, NEW m \in MemberId, ReadsOpened(m)
  PROVE  Typed'
<1> DEFINE e == Head(fromHost[m])
           k == Listed(ctl[m], e.on, e.by)
           kept == {x \in Copied(m) : x.on # e.on}
<1>1. /\ TakesFromHost(m, {"channel_opened"})
      /\ \/ /\ Acts(m, k, <<Command("accept", e.on, All)>>)
            /\ Copies(m, kept \cup {Entry(e.on, e.by, m)})
            /\ loads' = IF m # Host /\ Writes(k)
                        THEN loads \cup {[by |-> m, on |-> e.on, from |-> e.by, stage |-> "asked"]}
                        ELSE loads
            /\ UNCHANGED offers
         \/ /\ Acts(m, k, <<Command("reject", e.on, All)>>)
            /\ Copies(m, IF Writes(k) THEN kept ELSE kept \cup {Entry(e.on, e.by, m)})
            /\ IF Writes(k) THEN Becomes(e.by, e.on, "refused") ELSE UNCHANGED offers
            /\ UNCHANGED loads
      /\ UNCHANGED <<vars, mode, hashing, faults>>
  BY DEF ReadsOpened, Listed
<1>2. /\ fromHost' \in [MemberId -> Seq(EventType)] /\ own' \in [MemberId -> Seq(OwnType)]
      /\ e.by \in MemberId /\ e.on \in ChannelId
  <2>1. /\ fromHost' \in [MemberId -> Seq(EventType)] /\ own' \in [MemberId -> Seq(OwnType)]
        /\ e \in EventType /\ e.type = "channel_opened"
    BY <1>1, TakenTyped DEF Typed
  <2>2. QED  BY <2>1 DEF EventType
<1>3. k \in Controller /\ Kept(m, k)
  BY <1>2, ListedKept DEF Typed, ControllersTyped
<1>4. kept \in SUBSET EntryType /\ kept \cup {Entry(e.on, e.by, m)} \in SUBSET EntryType
  <2>1. kept \in SUBSET EntryType
    BY CopiedTyped DEF Typed, TransfersTyped
  <2>2. Entry(e.on, e.by, m) \in EntryType
    BY <1>2, EntriesTyped
  <2>3. QED  BY <2>1, <2>2
<1>5. /\ <<Command("accept", e.on, All)>> \in Seq(CommandType)
      /\ <<Command("reject", e.on, All)>> \in Seq(CommandType)
  BY <1>2, Commands, ShortQueues
<1>6. [by |-> m, on |-> e.on, from |-> e.by, stage |-> "asked"] \in LoadType
  BY <1>2 DEF LoadType
<1>7. copy \in [Joiner -> SUBSET EntryType] /\ loads \subseteq LoadType /\ offers \subseteq OfferType
  BY DEF Typed, TransfersTyped
<1> HIDE DEF k, kept, e
<1>8. loads' \subseteq LoadType
  BY <1>1, <1>6, <1>7
<1>9. copy' \in [Joiner -> SUBSET EntryType]
  BY <1>1, <1>4, <1>7, CopiesTyped
<1>10. offers' \subseteq OfferType
  BY <1>1, <1>7, BecomesTyped
<1>11. QED  BY <1>1, <1>2, <1>3, <1>5, <1>8, <1>9, <1>10, TypedHandler

LEMMA TypedReadsAccepted ==
  ASSUME Typed, NEW m \in MemberId, ReadsAccepted(m)
  PROVE  Typed'
<1> DEFINE e == Head(fromHost[m])
           P == ctl[m].pending \ {<<e.by, e.on>>}
           k == [ctl[m] EXCEPT !.pending = P]
<1>1. /\ TakesFromHost(m, {"channel_accepted"}) /\ Acts(m, k, <<>>)
      /\ UNCHANGED <<vars, mode, copy, transfers, faults>>
  BY DEF ReadsAccepted
<1>2. k \in Controller /\ Kept(m, k)
  <2>1. ctl[m] \in Controller /\ Kept(m, ctl[m]) /\ P \in SUBSET ctl[m].pending
        /\ {} \in SUBSET ctl[m].chans
    BY DEF Typed, ControllersTyped
  <2> HIDE DEF P
  <2>2. QED  BY <2>1, ShrinkingKept
<1> HIDE DEF k
<1>3. fromHost' \in [MemberId -> Seq(EventType)] /\ own' \in [MemberId -> Seq(OwnType)]
  BY <1>1, TakenTyped DEF Typed
<1>4. /\ copy' \in [Joiner -> SUBSET EntryType] /\ loads' \subseteq LoadType
      /\ offers' \subseteq OfferType /\ <<>> \in Seq(CommandType)
      /\ UNCHANGED <<vars, mode, hashing, faults>>
  BY <1>1, ShortQueues DEF Typed, TransfersTyped, transfers
<1>5. QED  BY <1>1, <1>2, <1>3, <1>4, TypedHandler

LEMMA TypedReadsDigest ==
  ASSUME Typed, NEW m \in MemberId, ReadsDigest(m)
  PROVE  Typed'
<1> DEFINE e == Head(fromHost[m])
           new == {IF x.on = e.on THEN [x EXCEPT !.digest = TRUE] ELSE x : x \in Copied(m)}
<1>1. /\ TakesFromHost(m, {"channel_transfer"}) /\ Copies(m, new)
      /\ UNCHANGED <<vars, mode, ctl, toHost, transfers, faults>>
  BY DEF ReadsDigest
<1>2. fromHost' \in [MemberId -> Seq(EventType)] /\ own' \in [MemberId -> Seq(OwnType)]
  BY <1>1, TakenTyped DEF Typed
<1>3. new \in SUBSET EntryType
  <2>1. Copied(m) \in SUBSET EntryType
    BY CopiedTyped DEF Typed, TransfersTyped
  <2>2. \A x \in EntryType : [x EXCEPT !.digest = TRUE] \in EntryType
    BY DEF EntryType
  <2>3. QED  BY <2>1, <2>2
<1>4. copy' \in [Joiner -> SUBSET EntryType]
  BY <1>1, <1>3, CopiesTyped DEF Typed, TransfersTyped
<1>5. IInv' /\ ControllersTyped'
  <2>1. IInv'
    BY <1>1, RoomKept DEF Typed
  <2>2. ControllersTyped'
    BY <1>1 DEF Typed, ControllersTyped, Kept
  <2>3. QED  BY <2>1, <2>2
<1>6. QED
  BY <1>1, <1>2, <1>4, <1>5 DEF Typed, QueuesTyped, TransfersTyped, transfers

LEMMA TypedReadsQuit ==
  ASSUME Typed, NEW m \in MemberId, ReadsQuit(m)
  PROVE  Typed'
<1> DEFINE e == Head(fromHost[m])
           C == ctl[m].chans \ OnChannel(e.on, ctl[m])
           P == ctl[m].pending \ {<<e.by, e.on>>}
           l == [ctl[m] EXCEPT !.chans = C, !.pending = P]
           k == Finishing(m, l)
<1>1. /\ TakesFromHost(m, {"channel_rejected", "channel_closed"}) /\ Acts(m, k, <<>>)
      /\ Copies(m, {x \in Copied(m) : x.on # e.on \/ e.by \notin {x.from, x.to}})
      /\ UNCHANGED <<vars, mode, transfers, faults>>
  BY DEF ReadsQuit
<1>2. k \in Controller /\ Kept(m, k)
  <2>1. /\ ctl[m] \in Controller /\ Kept(m, ctl[m])
        /\ C \in SUBSET ctl[m].chans /\ P \in SUBSET ctl[m].pending
    BY DEF Typed, ControllersTyped
  <2>2. l \in Controller /\ Kept(m, l)
    <3> HIDE DEF C, P
    <3>1. QED  BY <2>1, ShrinkingKept
  <2> HIDE DEF l
  <2>3. QED  BY <2>2, FinishingKept
<1> HIDE DEF k
<1>3. fromHost' \in [MemberId -> Seq(EventType)] /\ own' \in [MemberId -> Seq(OwnType)]
  BY <1>1, TakenTyped DEF Typed
<1>4. copy' \in [Joiner -> SUBSET EntryType]
  <2>1. {x \in Copied(m) : x.on # e.on \/ e.by \notin {x.from, x.to}} \in SUBSET EntryType
    BY CopiedTyped DEF Typed, TransfersTyped
  <2>2. QED  BY <1>1, <2>1, CopiesTyped DEF Typed, TransfersTyped
<1>5. /\ loads' \subseteq LoadType /\ offers' \subseteq OfferType
      /\ <<>> \in Seq(CommandType) /\ UNCHANGED <<vars, mode, hashing, faults>>
  BY <1>1, ShortQueues DEF Typed, TransfersTyped, transfers
<1>6. QED  BY <1>1, <1>2, <1>3, <1>4, <1>5, TypedHandler

LEMMA TypedReadsError ==
  ASSUME Typed, NEW m \in MemberId, ReadsError(m)
  PROVE  Typed'
<1>1. PICK c \in ChannelId :
        /\ TakesFromHost(m, {"error"}) \/ TakesOwn(m, {"error"})
        /\ Acts(m, Finishing(m, [ctl[m] EXCEPT !.chans = @ \ OnChannel(c, ctl[m])]), <<>>)
        /\ UNCHANGED <<vars, mode, copy, transfers, faults>>
  BY DEF ReadsError
<1> DEFINE C == ctl[m].chans \ OnChannel(c, ctl[m])
           l == [ctl[m] EXCEPT !.chans = C]
           k == Finishing(m, l)
<1>2. Acts(m, k, <<>>)
  BY <1>1
<1>3. k \in Controller /\ Kept(m, k)
  <2>1. /\ ctl[m] \in Controller /\ Kept(m, ctl[m])
        /\ C \in SUBSET ctl[m].chans /\ {} \in SUBSET ctl[m].pending
    BY DEF Typed, ControllersTyped
  <2>2. l \in Controller /\ Kept(m, l)
    <3> HIDE DEF C
    <3>1. QED  BY <2>1, ShrinkingKept
  <2> HIDE DEF l
  <2>3. QED  BY <2>2, FinishingKept
<1> HIDE DEF k
<1>4. fromHost' \in [MemberId -> Seq(EventType)] /\ own' \in [MemberId -> Seq(OwnType)]
  BY <1>1, TakenTyped, TakenOwnTyped DEF Typed
<1>5. /\ copy' \in [Joiner -> SUBSET EntryType] /\ loads' \subseteq LoadType
      /\ offers' \subseteq OfferType /\ <<>> \in Seq(CommandType)
      /\ UNCHANGED <<vars, mode, hashing, faults>>
  BY <1>1, ShortQueues DEF Typed, TransfersTyped, transfers
<1>6. QED  BY <1>2, <1>3, <1>4, <1>5, TypedHandler

LEMMA TypedReadsPath ==
  ASSUME Typed, NEW m \in MemberId, ReadsPath(m)
  PROVE  Typed'
<1> DEFINE c == Head(own[m]).on
           C == ctl[m].chans \ OnChannel(c, ctl[m])
           l == [ctl[m] EXCEPT !.chans = C]
           k == [l EXCEPT !.done = TRUE, !.run = "leaving"]
<1>1. /\ TakesOwn(m, {"path_received"})
      /\ Acts(m, k, <<Command("leave", NoChannel, All)>>) \/ Acts(m, l, <<>>)
      /\ UNCHANGED <<vars, mode, copy, transfers, faults>>
  BY DEF ReadsPath
<1>2. l \in Controller /\ Kept(m, l)
  <2>1. /\ ctl[m] \in Controller /\ Kept(m, ctl[m])
        /\ C \in SUBSET ctl[m].chans /\ {} \in SUBSET ctl[m].pending
    BY DEF Typed, ControllersTyped
  <2> HIDE DEF C
  <2>2. QED  BY <2>1, ShrinkingKept
<1> HIDE DEF l
<1>3. k \in Controller /\ Kept(m, k)
  <2>1. "leaving" \in Run /\ TRUE \in BOOLEAN
    BY DEF Run
  <2>2. QED  BY <1>2, <2>1, RunningKept
<1> HIDE DEF k
<1>4. fromHost' \in [MemberId -> Seq(EventType)] /\ own' \in [MemberId -> Seq(OwnType)]
  BY <1>1, TakenOwnTyped DEF Typed
<1>5. /\ copy' \in [Joiner -> SUBSET EntryType] /\ loads' \subseteq LoadType
      /\ offers' \subseteq OfferType
      /\ UNCHANGED <<vars, mode, hashing, faults>>
  BY <1>1 DEF Typed, TransfersTyped, transfers
<1>6. <<>> \in Seq(CommandType) /\ <<Command("leave", NoChannel, All)>> \in Seq(CommandType)
  <2>1. Command("leave", NoChannel, All) \in CommandType
    BY DEF Command, CommandType
  <2>2. QED  BY <2>1, ShortQueues
<1>7. QED  BY <1>1, <1>2, <1>3, <1>4, <1>5, <1>6, TypedHandler

LEMMA TypedReadsProgress ==
  ASSUME Typed, NEW m \in MemberId, ReadsProgress(m)
  PROVE  Typed'
<1> DEFINE sent == {ch \in OnChannel(Head(own[m]).on, ctl[m]) : ch.dir = "out"}
           C == ctl[m].chans \ sent
           l == [ctl[m] EXCEPT !.chans = C]
<1>1. /\ TakesOwn(m, {"progress"})
      /\ Acts(m, l, <<>>) \/ Acts(m, Finishing(m, l), <<>>)
      /\ UNCHANGED <<vars, mode, copy, transfers, faults>>
  BY DEF ReadsProgress
<1>2. l \in Controller /\ Kept(m, l)
  <2>1. /\ ctl[m] \in Controller /\ Kept(m, ctl[m])
        /\ C \in SUBSET ctl[m].chans /\ {} \in SUBSET ctl[m].pending
    BY DEF Typed, ControllersTyped
  <2> HIDE DEF C
  <2>2. QED  BY <2>1, ShrinkingKept
<1> HIDE DEF l
<1>3. Finishing(m, l) \in Controller /\ Kept(m, Finishing(m, l))
  BY <1>2, FinishingKept
<1>4. fromHost' \in [MemberId -> Seq(EventType)] /\ own' \in [MemberId -> Seq(OwnType)]
  BY <1>1, TakenOwnTyped DEF Typed
<1>5. /\ copy' \in [Joiner -> SUBSET EntryType] /\ loads' \subseteq LoadType
      /\ offers' \subseteq OfferType /\ <<>> \in Seq(CommandType)
      /\ UNCHANGED <<vars, mode, hashing, faults>>
  BY <1>1, ShortQueues DEF Typed, TransfersTyped, transfers
<1>6. QED  BY <1>1, <1>2, <1>3, <1>4, <1>5, TypedHandler

LEMMA TypedReadsClosed ==
  ASSUME Typed, NEW m \in MemberId, ReadsClosed(m)
  PROVE  Typed'
<1>1. Ends(m) /\ UNCHANGED <<vars, faults>>
      /\ fromHost' = [fromHost EXCEPT ![m] = <<>>] /\ toHost' = [toHost EXCEPT ![m] = <<>>]
  BY DEF ReadsClosed
<1>2. /\ mode' \in Modes /\ ControllersTyped' /\ own' \in [MemberId -> Seq(OwnType)]
      /\ copy' \in [Joiner -> SUBSET EntryType] /\ hashing' \subseteq MemberId \X ChannelId
      /\ loads' \subseteq LoadType /\ offers' \subseteq OfferType
  BY <1>1, EndsTyped DEF Typed
<1>3. /\ fromHost' \in [MemberId -> Seq(EventType)]
      /\ toHost' \in [MemberId -> Seq(CommandType)]
  BY <1>1, ShortQueues DEF Typed, QueuesTyped
<1>4. IInv'
  BY <1>1, RoomKept DEF Typed
<1>5. QED  BY <1>1, <1>2, <1>3, <1>4 DEF Typed, QueuesTyped, TransfersTyped

LEMMA TypedGraceEnds ==
  ASSUME Typed, NEW m \in MemberId, GraceEnds(m)
  PROVE  Typed'
<1> DEFINE k == [ctl[m] EXCEPT !.run = "leaving"]
<1>1. /\ Acts(m, k, <<Command("leave", NoChannel, All)>>)
      /\ UNCHANGED <<vars, mode, fromHost, own, copy, transfers, faults>>
  BY DEF GraceEnds
<1>2. k \in Controller /\ Kept(m, k)
  <2>1. /\ ctl[m] \in Controller /\ Kept(m, ctl[m]) /\ "leaving" \in Run /\ TRUE \in BOOLEAN
    BY DEF Typed, ControllersTyped, Run
  <2>2. QED  BY <2>1, RunningKept
<1> HIDE DEF k
<1>3. <<Command("leave", NoChannel, All)>> \in Seq(CommandType)
  <2>1. Command("leave", NoChannel, All) \in CommandType
    BY DEF Command, CommandType
  <2>2. QED  BY <2>1, ShortQueues
<1>4. /\ fromHost' \in [MemberId -> Seq(EventType)] /\ own' \in [MemberId -> Seq(OwnType)]
      /\ copy' \in [Joiner -> SUBSET EntryType] /\ loads' \subseteq LoadType
      /\ offers' \subseteq OfferType
      /\ UNCHANGED <<vars, mode, hashing, faults>>
  BY <1>1 DEF Typed, QueuesTyped, TransfersTyped, transfers
<1>5. QED  BY <1>1, <1>2, <1>3, <1>4, TypedHandler

-----------------------------------------------------------------------------
(* Types: the transfers, and every step.                                   *)

LEMMA TypedPublishes ==
  ASSUME Typed, NEW h \in hashing, Publishes(h[1], h[2])
  PROVE  Typed'
<1>1. h[1] \in MemberId /\ h[2] \in ChannelId /\ hashing' \subseteq hashing
  BY DEF Typed, TransfersTyped, Publishes
<1>2. toHost' \in [MemberId -> Seq(CommandType)]
  <2>1. Append(toHost[h[1]], Command("publish", h[2], All)) \in Seq(CommandType)
    BY <1>1, Commands, Appended DEF Typed, QueuesTyped
  <2>2. QED  BY <1>1, <2>1 DEF Typed, QueuesTyped, Publishes
<1>3. UNCHANGED <<vars, mode, ctl, fromHost, own, copy, loads, offers, faults>>
  BY DEF Publishes
<1>4. IInv'
  BY <1>3, RoomKept DEF Typed
<1>5. QED
  BY <1>1, <1>2, <1>3, <1>4 DEF Typed, ControllersTyped, Kept, QueuesTyped, TransfersTyped

LEMMA TypedPrepareFails ==
  ASSUME Typed, NEW h \in hashing, PrepareFails(h[1], h[2])
  PROVE  Typed'
<1>1. h[1] \in MemberId /\ h[2] \in ChannelId /\ hashing' \subseteq hashing
  BY DEF Typed, TransfersTyped, PrepareFails
<1>2. toHost' \in [MemberId -> Seq(CommandType)]
  <2>1. Append(toHost[h[1]], Command("close", h[2], All)) \in Seq(CommandType)
    BY <1>1, Commands, Appended DEF Typed, QueuesTyped
  <2>2. QED  BY <1>1, <2>1 DEF Typed, QueuesTyped, PrepareFails
<1>3. UNCHANGED <<vars, mode, ctl, fromHost, own, loads>>
  BY DEF PrepareFails
<1>4. IInv'
  BY <1>3, RoomKept DEF Typed
<1>5. copy' \in [Joiner -> SUBSET EntryType]
  <2>1. {x \in Copied(h[1]) : x.on # h[2]} \in SUBSET EntryType
    BY <1>1, CopiedTyped DEF Typed, TransfersTyped
  <2>2. QED  BY <1>1, <2>1, CopiesTyped DEF Typed, TransfersTyped, PrepareFails
<1>6. offers' \subseteq OfferType
  BY BecomesTyped DEF Typed, TransfersTyped, PrepareFails
<1>7. faults' \in 0 .. MaxFaults
  BY AutomationAssumption DEF Typed, TransfersTyped, PrepareFails
<1>8. QED
  BY <1>1, <1>2, <1>3, <1>4, <1>5, <1>6, <1>7
  DEF Typed, ControllersTyped, Kept, QueuesTyped, TransfersTyped

LEMMA TypedServes ==
  ASSUME Typed, NEW d \in loads, Serves(d)
  PROVE  Typed'
<1>1. d \in LoadType
  BY DEF Typed, TransfersTyped
<1>2. /\ loads' = (loads \ {d}) \cup {[d EXCEPT !.stage = "arrived"]}
      /\ own' = [own EXCEPT ![d.from] = Append(@, Event0("progress", d.from, d.on))]
      /\ UNCHANGED <<vars, mode, ctl, toHost, fromHost, copy, hashing, offers, faults>>
  BY DEF Serves
<1>3. loads' \subseteq LoadType
  <2>1. [d EXCEPT !.stage = "arrived"] \in LoadType
    BY <1>1 DEF LoadType
  <2>2. QED  BY <1>2, <2>1 DEF Typed, TransfersTyped
<1>4. own' \in [MemberId -> Seq(OwnType)]
  <2>1. d.from \in MemberId /\ Event0("progress", d.from, d.on) \in OwnType
    BY <1>1 DEF LoadType, Event0, OwnType
  <2>2. Append(own[d.from], Event0("progress", d.from, d.on)) \in Seq(OwnType)
    BY <2>1, Appended DEF Typed, QueuesTyped
  <2>3. QED  BY <1>2, <2>1, <2>2 DEF Typed, QueuesTyped
<1>5. IInv'
  BY <1>2, RoomKept DEF Typed
<1>6. QED
  BY <1>2, <1>3, <1>4, <1>5 DEF Typed, ControllersTyped, Kept, QueuesTyped, TransfersTyped

\* A download that is over is reported to its own controller.
LEMMA TypedLoadOver ==
  ASSUME Typed, NEW d \in loads, loads' = loads \ {d},
         NEW t \in {"path_received", "error"},
         own' = [own EXCEPT ![d.by] = Append(@, Event0(t, d.by, d.on))],
         NEW as \in {"saved", "failed"}, Becomes(d.from, d.on, as),
         UNCHANGED <<vars, mode, ctl, toHost, fromHost, copy, hashing>>,
         faults' \in 0 .. MaxFaults
  PROVE  Typed'
<1>1. d \in LoadType
  BY DEF Typed, TransfersTyped
<1>2. own' \in [MemberId -> Seq(OwnType)]
  <2>1. d.by \in MemberId /\ Event0(t, d.by, d.on) \in OwnType
    BY <1>1 DEF LoadType, Event0, OwnType
  <2>2. Append(own[d.by], Event0(t, d.by, d.on)) \in Seq(OwnType)
    BY <2>1, Appended DEF Typed, QueuesTyped
  <2>3. QED  BY <2>1, <2>2 DEF Typed, QueuesTyped
<1>3. offers' \subseteq OfferType
  BY BecomesTyped DEF Typed, TransfersTyped
<1>4. IInv'
  BY RoomKept DEF Typed
<1>5. QED
  BY <1>2, <1>3, <1>4 DEF Typed, ControllersTyped, Kept, QueuesTyped, TransfersTyped

LEMMA TypedLoadSteps ==
  ASSUME Typed, NEW d \in loads, Saves(d) \/ LoadFails(d) \/ LoadDies(d)
  PROVE  Typed'
<1>1. faults \in 0 .. MaxFaults
  BY DEF Typed, TransfersTyped
<1>2. CASE Saves(d)
  BY <1>1, <1>2, TypedLoadOver DEF Saves
<1>3. ASSUME Fails(d), faults' \in 0 .. MaxFaults
      PROVE  Typed'
  BY <1>3, TypedLoadOver DEF Fails
<1>4. CASE LoadFails(d)
  BY <1>1, <1>3, <1>4, AutomationAssumption DEF LoadFails
<1>5. CASE LoadDies(d)
  BY <1>1, <1>3, <1>5 DEF LoadDies
<1>6. QED  BY <1>2, <1>4, <1>5

LEMMA TypedInit == AutomationInit => Typed
<1> SUFFICES ASSUME AutomationInit PROVE Typed
  OBVIOUS
<1>1. IInv /\ mode \in Modes
  BY IInvInit DEF AutomationInit
<1>2. ControllersTyped
  <2>1. \A run \in {"running", "absent"} : \A m \in MemberId :
          Fresh(run) \in Controller /\ Kept(m, Fresh(run))
    <3>1. Cardinality({}) = 0
      BY FS_EmptySet
    <3>2. QED  BY <3>1 DEF Fresh, Controller, Kept, Run
  <2>2. QED  BY <2>1 DEF AutomationInit, ControllersTyped
<1>3. QueuesTyped
  <2>1. Snapshot(Host, {Host}) \in EventType
    BY MemberNumbers DEF Snapshot, EventType
  <2>2. <<Snapshot(Host, {Host})>> \in Seq(EventType) /\ <<>> \in Seq(EventType)
        /\ <<>> \in Seq(CommandType) /\ <<>> \in Seq(OwnType)
    BY <2>1, ShortQueues
  <2>3. QED  BY <2>2 DEF AutomationInit, QueuesTyped
<1>4. TransfersTyped
  BY AutomationAssumption DEF AutomationInit, TransfersTyped
<1>5. QED  BY <1>1, <1>2, <1>3, <1>4 DEF Typed

LEMMA TypedNext == Typed /\ [AutomationNext]_autoVars => Typed'
<1> SUFFICES ASSUME Typed, [AutomationNext]_autoVars PROVE Typed'
  OBVIOUS
<1>1. ASSUME NEW m \in MemberId, ReadsEvent(m)
      PROVE  Typed'
  BY <1>1, TypedReadsMembers, TypedReadsLeft, TypedReadsOpened, TypedReadsAccepted,
     TypedReadsDigest, TypedReadsQuit, TypedReadsError, TypedReadsPath, TypedReadsProgress,
     TypedReadsClosed DEF ReadsEvent
<1>2. ASSUME NEW m \in MemberId, GraceEnds(m) \/ HostTakesCommand(m)
      PROVE  Typed'
  BY <1>2, TypedGraceEnds, TypedHostTakesCommand
<1>3. CASE \E h \in hashing : Publishes(h[1], h[2]) \/ PrepareFails(h[1], h[2])
  BY <1>3, TypedPublishes, TypedPrepareFails
<1>4. CASE \E d \in loads : Serves(d) \/ Saves(d) \/ LoadDies(d) \/ LoadFails(d)
  BY <1>4, TypedServes, TypedLoadSteps
<1>5. CASE JoinRoom \/ \E j \in Joiner : Crash(j)
  BY <1>5, TypedJoinRoom, TypedCrash
<1>6. CASE UNCHANGED autoVars
  <2>1. UNCHANGED <<vars, mode, ctl, toHost, fromHost, own, copy, hashing, loads, offers, faults>>
    BY <1>6 DEF autoVars, links, transfers
  <2>2. IInv'
    BY <2>1, RoomKept DEF Typed
  <2>3. QED
    BY <2>1, <2>2 DEF Typed, ControllersTyped, Kept, QueuesTyped, TransfersTyped
<1>7. QED
  BY <1>1, <1>2, <1>3, <1>4, <1>5, <1>6 DEF AutomationNext, Progress

LEMMA TypedAlways == AutomationSpec => []Typed
<1>1. AutomationInit => Typed
  BY TypedInit
<1>2. Typed /\ [AutomationNext]_autoVars => Typed'
  BY TypedNext
<1>3. QED  BY <1>1, <1>2, PTL DEF AutomationSpec

\* Type correctness of the controllers, their queues and their transfers, and the
\* agreement of a controller's books (transfer_automation.rs, AutomationState): a
\* channel id stands for one transfer and the next one is always still unused,
\* whoever joins, crashes or refuses.
THEOREM AutomationTypeCorrect == AutomationSpec => []AutomationTypeOK
<1>1. Typed => AutomationTypeOK
  <2> SUFFICES ASSUME Typed PROVE AutomationTypeOK
    OBVIOUS
  <2>1. \A m \in MemberId :
          /\ \A a, b \in ctl[m].chans : a.on = b.on => a = b
          /\ \A p, q \in ctl[m].pending : p[1] = q[1] \/ p[2] = q[2] => p = q
          /\ \A p \in ctl[m].pending : p[1] \in ctl[m].sent /\ p[2] < ctl[m].next
    <3>1. ASSUME NEW m \in MemberId
          PROVE  \A p \in ctl[m].pending : p[1] \in ctl[m].sent /\ p[2] < ctl[m].next
      <4>1. ctl[m].next \in Nat /\ Kept(m, ctl[m])
        BY ControllerFields DEF Typed, ControllersTyped
      <4>2. QED  BY <4>1 DEF Kept
    <3>2. QED  BY <3>1 DEF Typed, ControllersTyped, Kept
  <2>2. QED
    BY <2>1 DEF Typed, ControllersTyped, QueuesTyped, TransfersTyped, AutomationTypeOK
<1>2. QED  BY <1>1, TypedAlways, PTL

-----------------------------------------------------------------------------
(* The room of a lone sender s: how far each of its offers has got, told    *)
(* from the offers, the queues, the channels and the copies together.       *)

Given(s)      == 1 .. ctl[s].next - 1
Gone(q)       == ctl[q].run = "over"
Answered(c)   == \A f \in offers : f.on = c => f.as # "open" \/ Gone(f.to)
Settled(s, c) == c \in Given(s) /\ (Gone(s) \/ Answered(c))
Made(c, q)    == \E f \in offers : f.on = c /\ f.to = q
Arrived(c)    == \E d \in loads : d.on = c /\ d.stage = "arrived"
Knows(q, c)   == IF q = Host THEN c \in DOMAIN channels ELSE \E x \in copy[q] : x.on = c
Items(q)      == {q[i] : i \in DOMAIN q}

\* Members that are to come have done nothing yet.
Comings ==
  \A m \in MemberId :
    /\ Up(m) => m \in members
    /\ ctl[m].run = "absent" => m >= nextMemberIndex
    /\ m >= nextMemberIndex => ctl[m] = Fresh("absent") /\ toHost[m] = <<>>

\* Every offer is the sender's, to another member, and has an id of its own.
Counted(s) ==
  /\ \A f \in offers : f.from = s /\ f.to # s /\ f.on \in Given(s)
  /\ \A f, g \in offers : f.on = g.on => f = g

\* An open comes before whatever else is asked of its channel.
OpensFirst(q) ==
  \A i, j \in DOMAIN q : i < j /\ q[j].type = "open" => q[i].on # q[j].on
SenderAsks(s, e) ==
  /\ e.type \in {"open", "publish", "close", "leave"}
  /\ e.type = "open" => Made(e.on, e.to)
  /\ e.type = "publish" => e.on \in Given(s)
  /\ e.type = "close" => Settled(s, e.on)
\* Others only answer, and refuse only what is settled without them.
OtherAsks(s, e) ==
  e.type \in {"accept", "reject", "leave"} /\ (e.type = "reject" => Settled(s, e.on))
\* What is on the way to the host: a channel is opened first, and closed or rejected
\* only once its offer is settled.
Asked(s) ==
  /\ \A e \in Items(toHost[s]) : SenderAsks(s, e)
  /\ OpensFirst(toHost[s])
  /\ \A x \in MemberId \ {s} : \A e \in Items(toHost[x]) : OtherAsks(s, e)

Hears(s, x, e) ==
  /\ e.type = "channel_opened" => x # s /\ e.by = s /\ Made(e.on, x)
  /\ e.type = "member_left" => Gone(e.by)
  /\ e.type \in {"channel_rejected", "channel_closed"} => Settled(s, e.on)
  /\ e.type = "error" /\ x = s => Settled(s, e.on)
\* What is on the way to a member: nothing that closes a channel whose offer is not
\* settled, and no end of a download that has not come to its end.
Told(s) ==
  /\ \A x \in MemberId : \A e \in Items(fromHost[x]) : Hears(s, x, e)
  /\ \A e \in Items(own[s]) : e.type = "progress" /\ (Settled(s, e.on) \/ Arrived(e.on))

Between(s, c) ==
  /\ channels[c].opener = s /\ channels[c].kind = "file"
  /\ \E q \in MemberId : Made(c, q) /\ channels[c].participants = {s, q}
\* The engine has no channels but those of the sender's offers.
Hosted(s) == \A c \in DOMAIN channels : Between(s, c)

\* An offer that is not settled is in the engine or still asked for.
Requested(s) ==
  \A f \in offers :
     \/ Settled(s, f.on) \/ f.on \in DOMAIN channels
     \/ \E e \in Items(toHost[s]) : e.type = "open" /\ e.on = f.on

\* A download belongs to an offer, and its receiver knows the channel until it is settled.
Loading(s) ==
  /\ \A d \in loads : /\ d.from = s /\ Made(d.on, d.by)
                      /\ Settled(s, d.on) \/ Knows(d.by, d.on)
  /\ \A x \in Joiner \ {s} : \A y \in copy[x] : y.from = s /\ y.to = x
  /\ \A h \in hashing : h[1] = s /\ h[2] \in Given(s)

Out(f) == [on |-> f.on, dir |-> "out", peer |-> f.to]
\* An offer that is no longer in the sender's books is settled, or its last bytes are there.
Listing(s) ==
  Writes(ctl[s]) =>
    \A f \in offers : Settled(s, f.on) \/ Arrived(f.on) \/ Out(f) \in ctl[s].chans

\* During the grace period the books stay as they were when it began.
Parting(s) == ctl[s].run = "grace" => HasFinished(s, ctl[s])

LoneInv(s) == /\ Comings /\ Counted(s) /\ Asked(s) /\ Told(s) /\ Hosted(s)
              /\ Requested(s) /\ Loading(s) /\ Listing(s) /\ Parting(s)

-----------------------------------------------------------------------------
(* What every step lets stand.                                             *)

LEMMA ItemsOf ==
  ASSUME NEW V, NEW q \in Seq(V)
  PROVE  /\ Items(<<>>) = {} /\ Items(q) \subseteq V
         /\ q # <<>> => /\ Head(q) \in Items(q) /\ Items(Tail(q)) \subseteq Items(q)
                        /\ Items(q) \subseteq {Head(q)} \cup Items(Tail(q))
         /\ \A e \in V : Items(Append(q, e)) = Items(q) \cup {e}
<1>1. Items(<<>>) = {} /\ Items(q) \subseteq V
  BY ElementOfSeq, LenProperties DEF Items
<1>2. ASSUME q # <<>>
      PROVE  /\ Head(q) \in Items(q) /\ Items(Tail(q)) \subseteq Items(q)
             /\ Items(q) \subseteq {Head(q)} \cup Items(Tail(q))
  <2>1. /\ Tail(q) \in Seq(V) /\ Len(q) \in Nat \ {0} /\ DOMAIN q = 1 .. Len(q)
        /\ Len(Tail(q)) = Len(q) - 1 /\ DOMAIN Tail(q) = 1 .. Len(q) - 1
        /\ \A i \in 1 .. Len(q) - 1 : Tail(q)[i] = q[i + 1]
        /\ Head(q) = q[1]
    BY <1>2, HeadTailProperties, LenProperties
  <2>2. Head(q) \in Items(q)
    BY <2>1 DEF Items
  <2>3. \A i \in 1 .. Len(q) - 1 : i + 1 \in 1 .. Len(q)
    BY <2>1
  <2>4. Items(Tail(q)) \subseteq Items(q)
    BY <2>1, <2>3 DEF Items
  <2>5. ASSUME NEW i \in DOMAIN q, i # 1 PROVE q[i] \in Items(Tail(q))
    <3>1. i - 1 \in 1 .. Len(q) - 1 /\ (i - 1) + 1 = i
      BY <2>1, <2>5
    <3>2. Tail(q)[i - 1] = q[i]
      BY <2>1, <3>1
    <3>3. QED  BY <2>1, <3>1, <3>2 DEF Items
  <2>6. Items(q) \subseteq {Head(q)} \cup Items(Tail(q))
    BY <2>1, <2>5 DEF Items
  <2>7. QED  BY <2>2, <2>4, <2>6
<1>3. ASSUME NEW e \in V PROVE Items(Append(q, e)) = Items(q) \cup {e}
  <2>1. /\ Len(q) \in Nat /\ DOMAIN q = 1 .. Len(q)
        /\ DOMAIN Append(q, e) = 1 .. Len(q) + 1
        /\ \A i \in 1 .. Len(q) : Append(q, e)[i] = q[i]
        /\ Append(q, e)[Len(q) + 1] = e
    BY AppendProperties, LenProperties
  <2>2. \A i \in 1 .. Len(q) + 1 : i \in 1 .. Len(q) \/ i = Len(q) + 1
    BY <2>1
  <2>3. Items(Append(q, e)) \subseteq Items(q) \cup {e}
    BY <2>1, <2>2 DEF Items
  <2>4. \A i \in 1 .. Len(q) : i \in 1 .. Len(q) + 1
    BY <2>1
  <2>5. Len(q) + 1 \in 1 .. Len(q) + 1
    BY <2>1
  <2>6. Items(q) \cup {e} \subseteq Items(Append(q, e))
    BY <2>1, <2>4, <2>5 DEF Items
  <2>7. QED  BY <2>3, <2>6
<1>4. QED  BY <1>1, <1>2, <1>3

\* The offers are the same, but for what some have come to.
SameOffers ==
  /\ \A f \in offers : \E g \in offers' : g.from = f.from /\ g.to = f.to /\ g.on = f.on
  /\ \A g \in offers' : \E f \in offers :
       g.from = f.from /\ g.to = f.to /\ g.on = f.on /\ (g.as = f.as \/ g.as # "open")
  /\ (\A f, g \in offers : f.on = g.on => f = g) => (\A f, g \in offers' : f.on = g.on => f = g)

LEMMA OffersSame ==
  ASSUME offers \subseteq OfferType,
         \/ UNCHANGED offers
         \/ \E x \in MemberId, c \in ChannelId, as \in {"refused", "saved", "failed"} :
              Becomes(x, c, as)
  PROVE  SameOffers
<1>1. CASE UNCHANGED offers
  BY <1>1 DEF SameOffers
<1>2. ASSUME NEW x \in MemberId, NEW c \in ChannelId, NEW as \in {"refused", "saved", "failed"},
             Becomes(x, c, as)
      PROVE  SameOffers
  <2> DEFINE T(f) == IF f.from = x /\ f.on = c THEN [f EXCEPT !.as = as] ELSE f
  <2>1. offers' = {T(f) : f \in offers}
    BY <1>2 DEF Becomes
  <2>2. \A f \in offers : /\ T(f).from = f.from /\ T(f).to = f.to /\ T(f).on = f.on
                          /\ T(f).as = f.as \/ T(f).as # "open"
    BY DEF OfferType
  <2> HIDE DEF T
  <2>3. ASSUME \A f, g \in offers : f.on = g.on => f = g
        PROVE  \A f, g \in offers' : f.on = g.on => f = g
    BY <2>1, <2>2, <2>3
  <2>4. QED  BY <2>1, <2>2, <2>3 DEF SameOffers
<1>3. QED  BY <1>1, <1>2

\* What is given, gone, settled and made stays so.
Grows(s) ==
  /\ Given(s) \subseteq Given(s)'
  /\ \A q \in MemberId : Gone(q) => Gone(q)'
  /\ \A c : Settled(s, c) => Settled(s, c)'
  /\ \A c, q : Made(c, q) => Made(c, q)'

LEMMA GrowsSame ==
  ASSUME NEW s \in MemberId, offers \subseteq OfferType, SameOffers,
         Given(s) \subseteq Given(s)', \A q \in MemberId : Gone(q) => Gone(q)'
  PROVE  Grows(s)
<1>1. ASSUME NEW c, NEW q, Made(c, q) PROVE Made(c, q)'
  <2>1. PICK f \in offers : f.on = c /\ f.to = q
    BY <1>1 DEF Made
  <2>2. PICK g \in offers' : g.on = c /\ g.to = q
    BY <2>1 DEF SameOffers
  <2>3. QED  BY <2>2 DEF Made
<1>2. ASSUME NEW c, Settled(s, c) PROVE Settled(s, c)'
  <2>1. CASE Gone(s)
    BY <1>2, <2>1 DEF Settled
  <2>2. CASE Answered(c)
    <3>1. ASSUME NEW g \in offers', g.on = c
          PROVE  g.as # "open" \/ Gone(g.to)'
      <4>1. PICK f \in offers : g.to = f.to /\ g.on = f.on /\ (g.as = f.as \/ g.as # "open")
        BY <3>1 DEF SameOffers
      <4>2. f.as # "open" \/ Gone(f.to)
        BY <2>2, <3>1, <4>1 DEF Answered
      <4>3. f.to \in MemberId
        BY DEF OfferType
      <4>4. QED  BY <4>1, <4>2, <4>3
    <3>2. Answered(c)'
      BY <3>1 DEF Answered
    <3>3. QED  BY <1>2, <3>2 DEF Settled
  <2>3. QED  BY <1>2, <2>1, <2>2 DEF Settled
<1>3. QED  BY <1>1, <1>2 DEF Grows

LEMMA CountedSame ==
  ASSUME NEW s, Counted(s), SameOffers, Given(s) \subseteq Given(s)'
  PROVE  Counted(s)'
<1>1. ASSUME NEW g \in offers' PROVE g.from = s /\ g.to # s /\ g.on \in Given(s)'
  BY DEF Counted, SameOffers
<1>2. \A f, g \in offers' : f.on = g.on => f = g
  BY DEF Counted, SameOffers
<1>3. QED  BY <1>1, <1>2 DEF Counted

\* An offer that is answered, or whose receiver or maker is gone, is settled.
LEMMA SettledOffer ==
  ASSUME NEW s, Counted(s), NEW f \in offers, f.as # "open" \/ Gone(f.to) \/ Gone(s)
  PROVE  Settled(s, f.on)
BY DEF Settled, Answered, Counted

LEMMA SettledOfferNext ==
  ASSUME NEW s, Counted(s)', NEW f \in offers', f.as # "open" \/ Gone(f.to)' \/ Gone(s)'
  PROVE  Settled(s, f.on)'
BY DEF Settled, Answered, Counted

-----------------------------------------------------------------------------
(* What keeps each part of the invariant.                                  *)

\* Only m's controller and what it asks change, and m has been let in.
Moves(m) ==
  /\ m < nextMemberIndex
  /\ \A q \in MemberId \ {m} : ctl'[q] = ctl[q] /\ toHost'[q] = toHost[q]
  /\ ctl'[m].run # "absent" /\ (Gone(m) => Gone(m)') /\ (Up(m)' => Up(m))

LEMMA UpIsIn ==
  ASSUME Comings, IInv, NEW m \in MemberId, ctl[m].run # "absent"
  PROVE  m < nextMemberIndex
<1>1. nextMemberIndex \in Nat /\ m \in Nat
  BY RoomFacts, MaxMemberIndexAssumption, MemberNumbers
<1>2. ~(m >= nextMemberIndex)
  BY DEF Comings, Fresh
<1>3. QED  BY <1>1, <1>2

\* Who has asked for something has been let in.
LEMMA AskingIsIn ==
  ASSUME Comings, IInv, NEW m \in MemberId, toHost[m] # <<>>
  PROVE  m < nextMemberIndex /\ ctl[m].run # "absent"
<1>1. nextMemberIndex \in Nat /\ m \in Nat
  BY RoomFacts, MaxMemberIndexAssumption, MemberNumbers
<1>2. ~(m >= nextMemberIndex)
  BY DEF Comings
<1>3. QED  BY <1>1, <1>2 DEF Comings

LEMMA ComingsKept ==
  ASSUME Comings, IInv, NEW m \in MemberId, Moves(m), UNCHANGED <<members, nextMemberIndex>>
  PROVE  Comings'
<1>1. nextMemberIndex \in Nat /\ \A q \in MemberId : q \in Nat
  <2>1. nextMemberIndex \in Nat
    BY RoomFacts, MaxMemberIndexAssumption
  <2>2. QED  BY <2>1, MemberNumbers
<1>2. ASSUME NEW q \in MemberId, q # m
      PROVE  /\ Up(q)' => q \in members'
             /\ ctl'[q].run = "absent" => q >= nextMemberIndex'
             /\ q >= nextMemberIndex' => ctl'[q] = Fresh("absent") /\ toHost'[q] = <<>>
  BY <1>2 DEF Comings, Moves, Up
<1>3. /\ Up(m)' => m \in members' /\ ctl'[m].run # "absent" /\ ~(m >= nextMemberIndex')
  BY <1>1 DEF Comings, Moves
<1>4. ctl'[m].run # "absent" /\ ~(m >= nextMemberIndex')
  BY <1>1 DEF Moves
<1>5. QED  BY <1>2, <1>3, <1>4 DEF Comings

Shortens(q, r) == r = q \/ r = <<>> \/ (q # <<>> /\ r = Tail(q))

LEMMA ShortenedItems ==
  ASSUME NEW V, NEW q \in Seq(V), NEW r, Shortens(q, r)
  PROVE  Items(r) \subseteq Items(q)
BY ItemsOf DEF Shortens

LEMMA OpensFirstKept ==
  ASSUME NEW q \in Seq(CommandType), OpensFirst(q)
  PROVE  /\ \A r : Shortens(q, r) => OpensFirst(r)
         /\ \A e \in CommandType : e.type # "open" => OpensFirst(Append(q, e))
<1>1. Len(q) \in Nat /\ DOMAIN q = 1 .. Len(q)
  BY LenProperties
<1>2. ASSUME q # <<>> PROVE OpensFirst(Tail(q))
  <2>1. /\ DOMAIN Tail(q) = 1 .. Len(q) - 1
        /\ \A i \in 1 .. Len(q) - 1 : Tail(q)[i] = q[i + 1]
    BY <1>1, <1>2, HeadTailProperties, LenProperties
  <2>2. SUFFICES ASSUME NEW i \in 1 .. Len(q) - 1, NEW j \in 1 .. Len(q) - 1, i < j,
                        Tail(q)[j].type = "open"
                 PROVE  Tail(q)[i].on # Tail(q)[j].on
    BY <2>1 DEF OpensFirst
  <2>3. i + 1 \in 1 .. Len(q) /\ j + 1 \in 1 .. Len(q) /\ i + 1 < j + 1
    BY <1>1, <2>2
  <2>4. q[j + 1].type = "open"
    BY <2>1, <2>2
  <2>5. q[i + 1].on # q[j + 1].on
    BY <1>1, <2>3, <2>4 DEF OpensFirst
  <2>6. QED  BY <2>1, <2>5
<1>3. OpensFirst(<<>>)
  BY DEF OpensFirst
<1>4. ASSUME NEW e \in CommandType, e.type # "open" PROVE OpensFirst(Append(q, e))
  <2>1. /\ DOMAIN Append(q, e) = 1 .. Len(q) + 1
        /\ \A i \in 1 .. Len(q) : Append(q, e)[i] = q[i]
        /\ Append(q, e)[Len(q) + 1] = e
    BY <1>1, AppendProperties, LenProperties
  <2>2. SUFFICES ASSUME NEW i \in 1 .. Len(q) + 1, NEW j \in 1 .. Len(q) + 1, i < j,
                        Append(q, e)[j].type = "open"
                 PROVE  Append(q, e)[i].on # Append(q, e)[j].on
    BY <2>1 DEF OpensFirst
  <2>3. j # Len(q) + 1
    BY <1>4, <2>1, <2>2
  <2>4. i \in 1 .. Len(q) /\ j \in 1 .. Len(q)
    BY <1>1, <2>2, <2>3
  <2>5. q[j].type = "open"
    BY <2>1, <2>2, <2>4
  <2>6. q[i].on # q[j].on
    BY <1>1, <2>2, <2>4, <2>5 DEF OpensFirst
  <2>7. QED  BY <2>1, <2>4, <2>6
<1>5. QED  BY <1>2, <1>3, <1>4 DEF Shortens

LEMMA AsksKept ==
  ASSUME NEW s, Grows(s), NEW e
  PROVE  /\ SenderAsks(s, e) => SenderAsks(s, e)'
         /\ OtherAsks(s, e) => OtherAsks(s, e)'
BY DEF Grows, SenderAsks, OtherAsks

LEMMA AskedKept ==
  ASSUME toHost \in [MemberId -> Seq(CommandType)], NEW s \in MemberId, Asked(s), Grows(s),
         \A x \in MemberId :
           \/ Shortens(toHost[x], toHost'[x])
           \/ \E e \in CommandType :
                /\ toHost'[x] = Append(toHost[x], e) /\ e.type # "open"
                /\ IF x = s THEN SenderAsks(s, e)' ELSE OtherAsks(s, e)'
  PROVE  Asked(s)'
<1>1. ASSUME NEW x \in MemberId, NEW e \in Items(toHost'[x])
      PROVE  \/ e \in Items(toHost[x])
             \/ IF x = s THEN SenderAsks(s, e)' ELSE OtherAsks(s, e)'
  <2>1. toHost[x] \in Seq(CommandType)
    OBVIOUS
  <2>2. CASE Shortens(toHost[x], toHost'[x])
    BY <1>1, <2>1, <2>2, ShortenedItems
  <2>3. ASSUME NEW f \in CommandType, toHost'[x] = Append(toHost[x], f),
               IF x = s THEN SenderAsks(s, f)' ELSE OtherAsks(s, f)'
        PROVE  \/ e \in Items(toHost[x])
               \/ IF x = s THEN SenderAsks(s, e)' ELSE OtherAsks(s, e)'
    <3>1. e \in Items(toHost[x]) \cup {f}
      BY <1>1, <2>1, <2>3, ItemsOf
    <3>2. QED  BY <2>3, <3>1
  <2>4. QED  BY <2>2, <2>3
<1>2. ASSUME NEW e \in Items(toHost'[s]) PROVE SenderAsks(s, e)'
  <2>1. e \in Items(toHost[s]) => SenderAsks(s, e)
    BY DEF Asked
  <2>2. QED  BY <1>1, <2>1, AsksKept
<1>3. ASSUME NEW x \in MemberId \ {s}, NEW e \in Items(toHost'[x]) PROVE OtherAsks(s, e)'
  <2>1. e \in Items(toHost[x]) => OtherAsks(s, e)
    BY DEF Asked
  <2>2. QED  BY <1>1, <2>1, AsksKept
<1>4. OpensFirst(toHost'[s])
  BY OpensFirstKept DEF Asked
<1>5. QED  BY <1>2, <1>3, <1>4 DEF Asked, OpensFirst, Items

LEMMA HearsKept ==
  ASSUME NEW s, Grows(s), NEW x, NEW e \in EventType, Hears(s, x, e)
  PROVE  Hears(s, x, e)'
<1>1. e.type = "member_left" => e.by \in MemberId
  BY DEF EventType
<1>2. QED  BY <1>1 DEF Grows, Hears

LEMMA ToldKept ==
  ASSUME QueuesTyped, NEW s \in MemberId, Told(s), Grows(s),
         \A x \in MemberId :
           \/ Shortens(fromHost[x], fromHost'[x])
           \/ \E e \in EventType : /\ fromHost'[x] = Append(fromHost[x], e) \/ fromHost'[x] = <<e>>
                                  /\ Hears(s, x, e)',
         \/ Shortens(own[s], own'[s])
         \/ \E e \in OwnType : /\ own'[s] = Append(own[s], e) /\ e.type = "progress"
                               /\ Settled(s, e.on)' \/ Arrived(e.on)',
         \A c : Arrived(c) => Arrived(c)' \/ Settled(s, c)'
  PROVE  Told(s)'
<1>1. ASSUME NEW x \in MemberId, NEW e \in Items(fromHost'[x])
      PROVE  Hears(s, x, e)'
  <2>1. fromHost[x] \in Seq(EventType) /\ Items(fromHost[x]) \subseteq EventType
    BY ItemsOf DEF QueuesTyped
  <2>2. CASE e \in Items(fromHost[x])
    BY <2>1, <2>2, HearsKept DEF Told
  <2>3. CASE Shortens(fromHost[x], fromHost'[x])
    BY <1>1, <2>1, <2>2, <2>3, ShortenedItems
  <2>4. ASSUME NEW f \in EventType, Hears(s, x, f)',
               fromHost'[x] = Append(fromHost[x], f) \/ fromHost'[x] = <<f>>
        PROVE  Hears(s, x, e)'
    <3>1. CASE fromHost'[x] = Append(fromHost[x], f)
      <4>1. e \in Items(fromHost[x]) \cup {f}
        BY <1>1, <2>1, <3>1, ItemsOf
      <4>2. QED  BY <2>2, <2>4, <4>1
    <3>2. CASE fromHost'[x] = <<f>>
      <4>1. e = f
        BY <1>1, <3>2 DEF Items
      <4>2. QED  BY <2>4, <4>1
    <3>3. QED  BY <2>4, <3>1, <3>2
  <2>5. QED  BY <2>3, <2>4
<1>2. ASSUME NEW e \in Items(own'[s])
      PROVE  e.type = "progress" /\ (Settled(s, e.on)' \/ Arrived(e.on)')
  <2>1. own[s] \in Seq(OwnType)
    BY DEF QueuesTyped
  <2>2. CASE e \in Items(own[s])
    BY <2>2 DEF Told, Grows
  <2>3. CASE Shortens(own[s], own'[s])
    BY <1>2, <2>1, <2>2, <2>3, ShortenedItems
  <2>4. ASSUME NEW f \in OwnType, own'[s] = Append(own[s], f), f.type = "progress",
               Settled(s, f.on)' \/ Arrived(f.on)'
        PROVE  e.type = "progress" /\ (Settled(s, e.on)' \/ Arrived(e.on)')
    <3>1. e \in Items(own[s]) \cup {f}
      BY <1>2, <2>1, <2>4, ItemsOf
    <3>2. QED  BY <2>2, <2>4, <3>1
  <2>5. QED  BY <2>3, <2>4
<1>3. QED  BY <1>1, <1>2 DEF Told, Items

LEMMA HostedKept ==
  ASSUME NEW s, Hosted(s), Grows(s),
         \A c \in DOMAIN channels' :
           /\ c \in DOMAIN channels /\ channels'[c].opener = channels[c].opener
           /\ channels'[c].kind = channels[c].kind
           /\ channels'[c].participants = channels[c].participants
  PROVE  Hosted(s)'
BY DEF Hosted, Between, Grows

LEMMA RequestedKept ==
  ASSUME NEW s, Requested(s), SameOffers, Grows(s),
         \A f \in offers : f.on \in DOMAIN channels
                             => f.on \in DOMAIN channels' \/ Settled(s, f.on)',
         \A e \in Items(toHost[s]) : e.type = "open"
           => \/ e \in Items(toHost'[s]) \/ e.on \in DOMAIN channels' \/ Settled(s, e.on)'
  PROVE  Requested(s)'
<1>1. ASSUME NEW g \in offers'
      PROVE  \/ Settled(s, g.on)' \/ g.on \in DOMAIN channels'
             \/ \E e \in Items(toHost'[s]) : e.type = "open" /\ e.on = g.on
  <2>1. PICK f \in offers : f.on = g.on
    BY DEF SameOffers
  <2>2. CASE Settled(s, f.on)
    BY <2>1, <2>2 DEF Grows
  <2>3. CASE f.on \in DOMAIN channels
    BY <2>1, <2>3
  <2>4. CASE \E e \in Items(toHost[s]) : e.type = "open" /\ e.on = f.on
    BY <2>1, <2>4
  <2>5. QED  BY <2>2, <2>3, <2>4 DEF Requested
<1>2. QED  BY <1>1 DEF Requested, Items

LEMMA LoadingKept ==
  ASSUME NEW s, Loading(s), Grows(s),
         \A d \in loads' :
           \/ \E b \in loads : d.by = b.by /\ d.on = b.on /\ d.from = b.from
           \/ /\ d.from = s /\ Made(d.on, d.by)'
              /\ Settled(s, d.on)' \/ Knows(d.by, d.on)',
         \A d \in loads : Knows(d.by, d.on) => Knows(d.by, d.on)' \/ Settled(s, d.on)',
         \A x \in Joiner \ {s} : \A y \in copy'[x] :
           \/ \E z \in copy[x] : y.from = z.from /\ y.to = z.to
           \/ y.from = s /\ y.to = x,
         \A h \in hashing' : h \in hashing \/ (h[1] = s /\ h[2] \in Given(s)')
  PROVE  Loading(s)'
<1>1. ASSUME NEW d \in loads'
      PROVE  d.from = s /\ Made(d.on, d.by)' /\ (Settled(s, d.on)' \/ Knows(d.by, d.on)')
  <2>1. ASSUME NEW b \in loads, d.by = b.by, d.on = b.on, d.from = b.from
        PROVE  d.from = s /\ Made(d.on, d.by)' /\ (Settled(s, d.on)' \/ Knows(d.by, d.on)')
    <3>1. b.from = s /\ Made(b.on, b.by) /\ (Settled(s, b.on) \/ Knows(b.by, b.on))
      BY DEF Loading
    <3>2. Made(b.on, b.by)' /\ (Settled(s, b.on)' \/ Knows(b.by, b.on)')
      BY <3>1 DEF Grows
    <3>3. QED  BY <2>1, <3>1, <3>2
  <2>2. QED  BY <2>1
<1>2. \A x \in Joiner \ {s} : \A y \in copy'[x] : y.from = s /\ y.to = x
  BY DEF Loading
<1>3. \A h \in hashing' : h[1] = s /\ h[2] \in Given(s)'
  BY DEF Loading, Grows
<1>4. QED  BY <1>1, <1>2, <1>3 DEF Loading

LEMMA ListingKept ==
  ASSUME NEW s, Listing(s), SameOffers, Grows(s),
         Writes(ctl[s])' => Writes(ctl[s]),
         \A f \in offers : Writes(ctl[s])' /\ Out(f) \in ctl[s].chans
           => Out(f) \in ctl'[s].chans \/ Settled(s, f.on)' \/ Arrived(f.on)',
         \A c : Arrived(c) => Arrived(c)' \/ Settled(s, c)'
  PROVE  Listing(s)'
<1>1. ASSUME NEW g \in offers', Writes(ctl[s])'
      PROVE  Settled(s, g.on)' \/ Arrived(g.on)' \/ Out(g) \in ctl'[s].chans
  <2>1. PICK f \in offers : f.on = g.on /\ f.to = g.to
    BY DEF SameOffers
  <2>2. Out(f) = Out(g)
    BY <2>1 DEF Out
  <2>3. Settled(s, f.on) \/ Arrived(f.on) \/ Out(f) \in ctl[s].chans
    BY <1>1 DEF Listing
  <2>4. QED  BY <1>1, <2>1, <2>2, <2>3 DEF Grows
<1>2. QED  BY <1>1 DEF Listing, Out

-----------------------------------------------------------------------------
(* Kinds of steps.                                                         *)

LEMMA FinishedKept ==
  ASSUME NEW s, UNCHANGED mode, ctl'[s] = ctl[s], Parting(s)
  PROVE  Parting(s)'
BY DEF Parting, HasFinished

\* m handles something and lets the offers of s stand.
HandlesAside(s, m) ==
  /\ Moves(m) /\ SameOffers /\ UNCHANGED <<vars, mode, hashing>> /\ own'[s] = own[s]
  /\ Shortens(fromHost[m], fromHost'[m])
  /\ \A x \in MemberId \ {m} : fromHost'[x] = fromHost[x]
  /\ \/ toHost'[m] = toHost[m]
     \/ \E e \in CommandType : toHost'[m] = Append(toHost[m], e) /\ OtherAsks(s, e)'
  /\ \A x \in Joiner \ {m} : copy'[x] = copy[x]
  /\ m \in Joiner => \A y \in copy'[m] : \/ \E z \in copy[m] : y.from = z.from /\ y.to = z.to
                                         \/ y.from = s /\ y.to = m
  /\ loads \subseteq loads'
  /\ \A d \in loads' \ loads : d.from = s /\ Made(d.on, d.by) /\ Knows(d.by, d.on)'
  /\ m \in Joiner => \A d \in loads : d.by = m /\ Knows(m, d.on)
                       => Knows(m, d.on)' \/ Settled(s, d.on) \/ Settled(s, d.on)'

LEMMA OtherHandler ==
  ASSUME Typed, NEW s \in MemberId, LoneInv(s), NEW m \in MemberId \ {s}, HandlesAside(s, m)
  PROVE  LoneInv(s)'
<1> USE DEF HandlesAside
<1>1. /\ Comings /\ Counted(s) /\ Asked(s) /\ Told(s) /\ Hosted(s)
      /\ Requested(s) /\ Loading(s) /\ Listing(s) /\ Parting(s)
  BY DEF LoneInv
<1>2. /\ IInv /\ QueuesTyped /\ toHost \in [MemberId -> Seq(CommandType)]
      /\ offers \subseteq OfferType /\ loads \subseteq LoadType
      /\ UNCHANGED <<members, channels, nextMemberIndex>>
  BY DEF Typed, QueuesTyped, TransfersTyped, vars
<1>3. ctl'[s] = ctl[s] /\ toHost'[s] = toHost[s]
  BY DEF Moves
<1>4. Given(s)' = Given(s) /\ \A q \in MemberId : Gone(q) => Gone(q)'
  BY <1>3 DEF Given, Moves, Gone
<1>5. Grows(s)
  BY <1>2, <1>4, GrowsSame
<1>6. Comings'
  BY <1>1, <1>2, ComingsKept
<1>7. Counted(s)'
  BY <1>1, <1>4, CountedSame
<1>8. Asked(s)'
  <2>1. ASSUME NEW x \in MemberId
        PROVE  \/ Shortens(toHost[x], toHost'[x])
               \/ \E e \in CommandType :
                    /\ toHost'[x] = Append(toHost[x], e) /\ e.type # "open"
                    /\ IF x = s THEN SenderAsks(s, e)' ELSE OtherAsks(s, e)'
    <3>1. CASE x # m
      BY <3>1 DEF Moves, Shortens
    <3>2. CASE x = m
      BY <3>2 DEF Shortens, OtherAsks
    <3>3. QED  BY <3>1, <3>2
  <2>2. QED  BY <1>1, <1>2, <1>5, <2>1, AskedKept
<1>9. \A c : Arrived(c) => Arrived(c)'
  BY DEF Arrived
<1>10. Told(s)'
  <2>1. \A x \in MemberId : Shortens(fromHost[x], fromHost'[x])
    BY DEF Shortens
  <2>2. Shortens(own[s], own'[s])
    BY DEF Shortens
  <2>3. QED  BY <1>1, <1>2, <1>5, <1>9, <2>1, <2>2, ToldKept
<1>11. Hosted(s)'
  BY <1>1, <1>2, <1>5, HostedKept
<1>12. Requested(s)'
  BY <1>1, <1>2, <1>3, <1>5, RequestedKept
<1>13. Loading(s)'
  <2>1. ASSUME NEW d \in loads'
        PROVE  \/ \E b \in loads : d.by = b.by /\ d.on = b.on /\ d.from = b.from
               \/ /\ d.from = s /\ Made(d.on, d.by)'
                  /\ Settled(s, d.on)' \/ Knows(d.by, d.on)'
    BY <1>5 DEF Grows
  <2>2. ASSUME NEW d \in loads, Knows(d.by, d.on)
        PROVE  Knows(d.by, d.on)' \/ Settled(s, d.on)'
    <3>1. d.by \in MemberId
      BY <1>2 DEF LoadType
    <3>2. CASE d.by = Host
      BY <1>2, <2>2, <3>2 DEF Knows
    <3>3. CASE d.by # Host /\ d.by # m
      <4>1. copy'[d.by] = copy[d.by]
        BY <3>1, <3>3 DEF Joiner
      <4>2. QED  BY <2>2, <3>3, <4>1 DEF Knows
    <3>4. CASE d.by # Host /\ d.by = m
      <4>1. Knows(m, d.on)' \/ Settled(s, d.on) \/ Settled(s, d.on)'
        BY <2>2, <3>4 DEF Joiner
      <4>2. QED  BY <1>5, <3>4, <4>1 DEF Grows
    <3>5. QED  BY <3>2, <3>3, <3>4
  <2>3. ASSUME NEW x \in Joiner \ {s}, NEW y \in copy'[x]
        PROVE  \/ \E z \in copy[x] : y.from = z.from /\ y.to = z.to
               \/ y.from = s /\ y.to = x
    BY <2>3
  <2>4. \A h \in hashing' : h \in hashing
    OBVIOUS
  <2>5. QED  BY <1>1, <1>5, <2>1, <2>2, <2>3, <2>4, LoadingKept
<1>14. Listing(s)'
  <2>1. Writes(ctl[s])' => Writes(ctl[s])
    BY <1>3 DEF Writes
  <2>2. QED  BY <1>1, <1>3, <1>5, <1>9, <2>1, ListingKept
<1>15. Parting(s)'
  BY <1>1, <1>3, FinishedKept
<1>16. QED
  BY <1>6, <1>7, <1>8, <1>10, <1>11, <1>12, <1>13, <1>14, <1>15 DEF LoneInv

\* A download is never the sender's own.
LEMMA OthersLoad ==
  ASSUME NEW s, Counted(s), Loading(s), NEW d \in loads
  PROVE  d.by # s
BY DEF Counted, Loading, Made

\* s handles something and makes no new offers.
HandlesOwn(s) ==
  /\ Moves(s) /\ UNCHANGED <<vars, mode, loads, offers, hashing>> /\ ctl'[s].next = ctl[s].next
  /\ \A x \in MemberId \ {s} : fromHost'[x] = fromHost[x]
  /\ Shortens(fromHost[s], fromHost'[s]) /\ Shortens(own[s], own'[s])
  /\ \A x \in Joiner \ {s} : copy'[x] = copy[x]
  /\ \/ toHost'[s] = toHost[s]
     \/ \E e \in CommandType : toHost'[s] = Append(toHost[s], e) /\ e.type = "leave"
  /\ Writes(ctl[s])' => Writes(ctl[s])
  /\ \A f \in offers : Writes(ctl[s])' /\ Out(f) \in ctl[s].chans
       => Out(f) \in ctl'[s].chans \/ Settled(s, f.on) \/ Arrived(f.on)
  /\ Parting(s)'

LEMMA OwnHandler ==
  ASSUME Typed, NEW s \in MemberId, LoneInv(s), HandlesOwn(s)
  PROVE  LoneInv(s)'
<1> USE DEF HandlesOwn
<1>1. /\ Comings /\ Counted(s) /\ Asked(s) /\ Told(s) /\ Hosted(s)
      /\ Requested(s) /\ Loading(s) /\ Listing(s)
  BY DEF LoneInv
<1>2. /\ IInv /\ QueuesTyped /\ toHost \in [MemberId -> Seq(CommandType)]
      /\ offers \subseteq OfferType /\ loads \subseteq LoadType
      /\ UNCHANGED <<members, channels, nextMemberIndex>>
  BY DEF Typed, QueuesTyped, TransfersTyped, vars
<1>3. SameOffers
  BY <1>2, OffersSame
<1>4. Given(s)' = Given(s) /\ \A q \in MemberId : Gone(q) => Gone(q)'
  BY DEF Given, Moves, Gone
<1>5. Grows(s)
  BY <1>2, <1>3, <1>4, GrowsSame
<1>6. Comings'
  BY <1>1, <1>2, ComingsKept
<1>7. Counted(s)'
  BY <1>1, <1>3, <1>4, CountedSame
<1>8. Asked(s)'
  <2>1. ASSUME NEW x \in MemberId
        PROVE  \/ Shortens(toHost[x], toHost'[x])
               \/ \E e \in CommandType :
                    /\ toHost'[x] = Append(toHost[x], e) /\ e.type # "open"
                    /\ IF x = s THEN SenderAsks(s, e)' ELSE OtherAsks(s, e)'
    <3>1. CASE x # s
      BY <3>1 DEF Moves, Shortens
    <3>2. CASE x = s
      BY <3>2 DEF Shortens, SenderAsks
    <3>3. QED  BY <3>1, <3>2
  <2>2. QED  BY <1>1, <1>2, <1>5, <2>1, AskedKept
<1>9. \A c : Arrived(c) => Arrived(c)'
  BY DEF Arrived
<1>10. Told(s)'
  <2>1. \A x \in MemberId : Shortens(fromHost[x], fromHost'[x])
    BY DEF Shortens
  <2>2. QED  BY <1>1, <1>2, <1>5, <1>9, <2>1, ToldKept
<1>11. Hosted(s)'
  BY <1>1, <1>2, <1>5, HostedKept
<1>12. Requested(s)'
  <2>1. toHost[s] \in Seq(CommandType)
    BY <1>2
  <2>2. Items(toHost[s]) \subseteq Items(toHost'[s])
    <3>1. ASSUME NEW e \in CommandType, toHost'[s] = Append(toHost[s], e)
          PROVE  Items(toHost[s]) \subseteq Items(toHost'[s])
      <4>1. Items(Append(toHost[s], e)) = Items(toHost[s]) \cup {e}
        BY <2>1, ItemsOf
      <4>2. QED  BY <3>1, <4>1
    <3>2. QED  BY <3>1
  <2>3. QED  BY <1>1, <1>2, <1>3, <1>5, <2>2, RequestedKept
<1>13. Loading(s)'
  <2>1. ASSUME NEW d \in loads, Knows(d.by, d.on)
        PROVE  Knows(d.by, d.on)' \/ Settled(s, d.on)'
    <3>1. d.by \in MemberId /\ d.by # s
      BY <1>1, <1>2, OthersLoad DEF LoadType
    <3>2. CASE d.by = Host
      BY <1>2, <2>1, <3>2 DEF Knows
    <3>3. CASE d.by # Host
      <4>1. copy'[d.by] = copy[d.by]
        BY <3>1, <3>3 DEF Joiner
      <4>2. QED  BY <2>1, <3>3, <4>1 DEF Knows
    <3>4. QED  BY <3>2, <3>3
  <2>2. ASSUME NEW d \in loads'
        PROVE  \E b \in loads : d.by = b.by /\ d.on = b.on /\ d.from = b.from
    OBVIOUS
  <2>3. \A h \in hashing' : h \in hashing
    OBVIOUS
  <2>4. \A x \in Joiner \ {s} : \A y \in copy'[x] :
          \E z \in copy[x] : y.from = z.from /\ y.to = z.to
    OBVIOUS
  <2>5. QED  BY <1>1, <1>5, <2>1, <2>2, <2>3, <2>4, LoadingKept
<1>14. Listing(s)'
  <2>1. ASSUME NEW f \in offers, Writes(ctl[s])', Out(f) \in ctl[s].chans
        PROVE  Out(f) \in ctl'[s].chans \/ Settled(s, f.on)' \/ Arrived(f.on)'
    BY <1>5, <1>9, <2>1 DEF Grows
  <2>2. QED  BY <1>1, <1>3, <1>5, <1>9, <2>1, ListingKept
<1>15. QED
  BY <1>6, <1>7, <1>8, <1>10, <1>11, <1>12, <1>13, <1>14 DEF LoneInv

\* A transfer goes on: the hash, the bytes or the end of a download.
Transfers(s) ==
  /\ SameOffers
  /\ toHost' = toHost \/ Up(s)
  /\ UNCHANGED <<vars, mode, ctl, fromHost>> /\ hashing' \subseteq hashing
  /\ \A x \in MemberId \ {s} : toHost'[x] = toHost[x]
  /\ \/ toHost'[s] = toHost[s]
     \/ \E e \in CommandType : /\ toHost'[s] = Append(toHost[s], e)
                               /\ e.type # "open" /\ SenderAsks(s, e)'
  /\ \/ own'[s] = own[s]
     \/ \E e \in OwnType : /\ own'[s] = Append(own[s], e) /\ e.type = "progress"
                           /\ Settled(s, e.on)' \/ Arrived(e.on)'
  /\ \A c : Arrived(c) => Arrived(c)' \/ Settled(s, c)'
  /\ \A d \in loads' : \E b \in loads : d.by = b.by /\ d.on = b.on /\ d.from = b.from
  /\ \A x \in Joiner \ {s} : copy'[x] = copy[x]

LEMMA TransferStep ==
  ASSUME Typed, NEW s \in MemberId, LoneInv(s), Transfers(s)
  PROVE  LoneInv(s)'
<1> USE DEF Transfers
<1>1. /\ Comings /\ Counted(s) /\ Asked(s) /\ Told(s) /\ Hosted(s)
      /\ Requested(s) /\ Loading(s) /\ Listing(s) /\ Parting(s)
  BY DEF LoneInv
<1>2. /\ IInv /\ QueuesTyped /\ toHost \in [MemberId -> Seq(CommandType)]
      /\ offers \subseteq OfferType /\ loads \subseteq LoadType
      /\ UNCHANGED <<members, channels, nextMemberIndex>>
  BY DEF Typed, QueuesTyped, TransfersTyped, vars
<1>3. Given(s)' = Given(s) /\ \A q \in MemberId : Gone(q) => Gone(q)'
  BY DEF Given, Gone
<1>4. Grows(s)
  BY <1>2, <1>3, GrowsSame
<1>5. Comings'
  <2>1. CASE toHost' = toHost
    BY <1>1, <1>2, <2>1 DEF Comings, Up
  <2>2. CASE Up(s)
    <3>1. ctl[s].run # "absent"
      BY <2>2 DEF Up
    <3>2. s < nextMemberIndex
      BY <1>1, <1>2, <3>1, UpIsIn
    <3>3. Moves(s)
      BY <3>1, <3>2 DEF Moves, Gone, Up
    <3>4. QED  BY <1>1, <1>2, <3>3, ComingsKept
  <2>3. QED  BY <2>1, <2>2
<1>6. Counted(s)'
  BY <1>1, <1>3, CountedSame
<1>7. Asked(s)'
  <2>1. ASSUME NEW x \in MemberId
        PROVE  \/ Shortens(toHost[x], toHost'[x])
               \/ \E e \in CommandType :
                    /\ toHost'[x] = Append(toHost[x], e) /\ e.type # "open"
                    /\ IF x = s THEN SenderAsks(s, e)' ELSE OtherAsks(s, e)'
    <3>1. CASE x # s
      BY <3>1 DEF Shortens
    <3>2. CASE x = s
      BY <3>2 DEF Shortens
    <3>3. QED  BY <3>1, <3>2
  <2>2. QED  BY <1>1, <1>2, <1>4, <2>1, AskedKept
<1>8. Told(s)'
  <2>1. \A x \in MemberId : Shortens(fromHost[x], fromHost'[x])
    BY DEF Shortens
  <2>2. \/ Shortens(own[s], own'[s])
        \/ \E e \in OwnType : /\ own'[s] = Append(own[s], e) /\ e.type = "progress"
                              /\ Settled(s, e.on)' \/ Arrived(e.on)'
    BY DEF Shortens
  <2>3. QED  BY <1>1, <1>2, <1>4, <2>1, <2>2, ToldKept
<1>9. Hosted(s)'
  BY <1>1, <1>2, <1>4, HostedKept
<1>10. Requested(s)'
  <2>1. toHost[s] \in Seq(CommandType)
    BY <1>2
  <2>2. Items(toHost[s]) \subseteq Items(toHost'[s])
    <3>1. ASSUME NEW e \in CommandType, toHost'[s] = Append(toHost[s], e)
          PROVE  Items(toHost[s]) \subseteq Items(toHost'[s])
      <4>1. Items(Append(toHost[s], e)) = Items(toHost[s]) \cup {e}
        BY <2>1, ItemsOf
      <4>2. QED  BY <3>1, <4>1
    <3>2. QED  BY <3>1
  <2>3. QED  BY <1>1, <1>2, <1>4, <2>2, RequestedKept
<1>11. Loading(s)'
  <2>1. ASSUME NEW d \in loads, Knows(d.by, d.on)
        PROVE  Knows(d.by, d.on)' \/ Settled(s, d.on)'
    <3>1. d.by \in MemberId /\ d.by # s
      BY <1>1, <1>2, OthersLoad DEF LoadType
    <3>2. CASE d.by = Host
      BY <1>2, <2>1, <3>2 DEF Knows
    <3>3. CASE d.by # Host
      <4>1. copy'[d.by] = copy[d.by]
        BY <3>1, <3>3 DEF Joiner
      <4>2. QED  BY <2>1, <3>3, <4>1 DEF Knows
    <3>4. QED  BY <3>2, <3>3
  <2>2. \A h \in hashing' : h \in hashing
    OBVIOUS
  <2>3. \A x \in Joiner \ {s} : \A y \in copy'[x] :
          \E z \in copy[x] : y.from = z.from /\ y.to = z.to
    OBVIOUS
  <2>4. QED  BY <1>1, <1>4, <2>1, <2>2, <2>3, LoadingKept
<1>12. Listing(s)'
  BY <1>1, <1>4, ListingKept
<1>13. Parting(s)'
  BY <1>1, FinishedKept
<1>14. QED
  BY <1>5, <1>6, <1>7, <1>8, <1>9, <1>10, <1>11, <1>12, <1>13 DEF LoneInv

\* The host takes a command of m that does not end m.
HostTakes(s, m) ==
  /\ SameOffers /\ toHost[m] # <<>> /\ toHost' = [toHost EXCEPT ![m] = Tail(toHost[m])]
  /\ UNCHANGED <<members, nextMemberIndex, mode, ctl, own, copy>>
  /\ \A x \in MemberId :
       \/ fromHost'[x] = fromHost[x]
       \/ \E e \in EventType : fromHost'[x] = Append(fromHost[x], e) /\ Hears(s, x, e)'
  /\ Hosted(s)'
  /\ \A f \in offers : f.on \in DOMAIN channels
       => f.on \in DOMAIN channels' \/ Settled(s, f.on)'
  /\ \A c : m = s /\ Head(toHost[s]).type = "open" /\ Head(toHost[s]).on = c
       => c \in DOMAIN channels' \/ Settled(s, c)'
  /\ loads \subseteq loads'
  /\ \A d \in loads' \ loads : d.from = s /\ Made(d.on, d.by) /\ Knows(d.by, d.on)'
  /\ \A h \in hashing' : h \in hashing \/ (h[1] = s /\ h[2] \in Given(s))

LEMMA EngineStep ==
  ASSUME Typed, NEW s \in MemberId, LoneInv(s), NEW m \in MemberId, HostTakes(s, m)
  PROVE  LoneInv(s)'
<1> USE DEF HostTakes
<1>1. /\ Comings /\ Counted(s) /\ Asked(s) /\ Told(s) /\ Hosted(s)
      /\ Requested(s) /\ Loading(s) /\ Listing(s) /\ Parting(s)
  BY DEF LoneInv
<1>2. /\ IInv /\ QueuesTyped /\ toHost \in [MemberId -> Seq(CommandType)]
      /\ offers \subseteq OfferType /\ loads \subseteq LoadType
  BY DEF Typed, QueuesTyped, TransfersTyped
<1>3. Given(s)' = Given(s) /\ \A q \in MemberId : Gone(q) => Gone(q)'
  BY DEF Given, Gone
<1>4. Grows(s)
  BY <1>2, <1>3, GrowsSame
<1>5. Comings'
  <2>1. m < nextMemberIndex /\ ctl[m].run # "absent"
    BY <1>1, <1>2, AskingIsIn
  <2>2. Moves(m)
    BY <1>2, <2>1 DEF Moves, Gone, Up
  <2>3. QED  BY <1>1, <1>2, <2>2, ComingsKept
<1>6. Counted(s)'
  BY <1>1, <1>3, CountedSame
<1>7. Asked(s)'
  <2>1. \A x \in MemberId : Shortens(toHost[x], toHost'[x])
    BY <1>2 DEF Shortens
  <2>2. QED  BY <1>1, <1>2, <1>4, <2>1, AskedKept
<1>8. \A c : Arrived(c) => Arrived(c)'
  BY DEF Arrived
<1>9. Told(s)'
  <2>1. \A x \in MemberId :
          \/ Shortens(fromHost[x], fromHost'[x])
          \/ \E e \in EventType : fromHost'[x] = Append(fromHost[x], e) /\ Hears(s, x, e)'
    BY DEF Shortens
  <2>2. Shortens(own[s], own'[s])
    BY DEF Shortens
  <2>3. QED  BY <1>1, <1>2, <1>4, <1>8, <2>1, <2>2, ToldKept
<1>10. Requested(s)'
  <2>1. ASSUME NEW e \in Items(toHost[s]), e.type = "open"
        PROVE  \/ e \in Items(toHost'[s]) \/ e.on \in DOMAIN channels' \/ Settled(s, e.on)'
    <3>1. CASE m # s
      <4>1. toHost'[s] = toHost[s]
        BY <1>2, <3>1
      <4>2. QED  BY <2>1, <4>1 DEF Items
    <3>2. CASE m = s
      <4>1. toHost[s] \in Seq(CommandType) /\ toHost[s] # <<>> /\ toHost'[s] = Tail(toHost[s])
        BY <1>2, <3>2
      <4>2. e = Head(toHost[s]) \/ e \in Items(toHost'[s])
        BY <2>1, <4>1, ItemsOf
      <4>3. CASE e = Head(toHost[s])
        <5>1. e.on \in DOMAIN channels' \/ Settled(s, e.on)'
          BY <2>1, <3>2, <4>3
        <5>2. QED  BY <5>1
      <4>4. CASE e \in Items(toHost'[s])
        BY <4>4
      <4>5. QED  BY <4>2, <4>3, <4>4
    <3>3. QED  BY <3>1, <3>2
  <2>2. QED  BY <1>1, <1>4, <2>1, RequestedKept
<1>11. Loading(s)'
  <2>1. ASSUME NEW d \in loads, Knows(d.by, d.on)
        PROVE  Knows(d.by, d.on)' \/ Settled(s, d.on)'
    <3>1. CASE d.by = Host
      <4>1. PICK f \in offers : f.on = d.on
        BY <1>1 DEF Loading, Made
      <4>2. d.on \in DOMAIN channels
        BY <2>1, <3>1 DEF Knows
      <4>3. QED  BY <3>1, <4>1, <4>2 DEF Knows
    <3>2. CASE d.by # Host
      BY <2>1, <3>2 DEF Knows
    <3>3. QED  BY <3>1, <3>2
  <2>2. ASSUME NEW d \in loads'
        PROVE  \/ \E b \in loads : d.by = b.by /\ d.on = b.on /\ d.from = b.from
               \/ /\ d.from = s /\ Made(d.on, d.by)'
                  /\ Settled(s, d.on)' \/ Knows(d.by, d.on)'
    BY <1>4 DEF Grows
  <2>3. \A x \in Joiner \ {s} : \A y \in copy'[x] :
          \E z \in copy[x] : y.from = z.from /\ y.to = z.to
    OBVIOUS
  <2>4. \A h \in hashing' : h \in hashing \/ (h[1] = s /\ h[2] \in Given(s)')
    BY <1>3
  <2>5. QED  BY <1>1, <1>4, <2>1, <2>2, <2>3, <2>4, LoadingKept
<1>12. Listing(s)'
  BY <1>1, <1>4, <1>8, ListingKept
<1>13. Parting(s)'
  BY <1>1, FinishedKept
<1>14. QED
  BY <1>5, <1>6, <1>7, <1>9, <1>10, <1>11, <1>12, <1>13 DEF LoneInv

\* A channel is lost in a leave only when one of its two members leaves.
LEMMA LostWithMember ==
  ASSUME NEW s, Counted(s), Hosted(s), NEW m, NEW f \in offers, f.on \in DOMAIN channels,
         ~HasCompany(channels[f.on].participants \ {m})
  PROVE  m = s \/ m = f.to
<1>1. PICK q \in MemberId : Made(f.on, q) /\ channels[f.on].participants = {s, q}
  BY DEF Hosted, Between
<1>2. q = f.to /\ q # s
  BY <1>1 DEF Made, Counted
<1>3. QED  BY <1>1, <1>2 DEF HasCompany

\* m's program ends, in one of the ways it can.
ComesToAnEnd(m) ==
  /\ Ends(m) /\ m < nextMemberIndex
  /\ UNCHANGED vars \/ Leave(m)
  /\ toHost'[m] = <<>> /\ \A q \in MemberId \ {m} : toHost'[q] = toHost[q]
  /\ \A x \in MemberId :
       \/ fromHost'[x] = fromHost[x] \/ fromHost'[x] = <<>>
       \/ \E e \in EventType : /\ fromHost'[x] = Append(fromHost[x], e)
                               /\ e.type = "room_closed" \/ (e.type = "member_left" /\ e.by = m)

LEMMA EndsStep ==
  ASSUME Typed, NEW s \in MemberId, LoneInv(s), NEW m \in MemberId, ComesToAnEnd(m)
  PROVE  LoneInv(s)'
<1> USE DEF ComesToAnEnd
<1>1. /\ Comings /\ Counted(s) /\ Asked(s) /\ Told(s) /\ Hosted(s)
      /\ Requested(s) /\ Loading(s) /\ Listing(s) /\ Parting(s)
  BY DEF LoneInv
<1>2. /\ IInv /\ QueuesTyped /\ toHost \in [MemberId -> Seq(CommandType)]
      /\ ctl \in [MemberId -> Controller] /\ own \in [MemberId -> Seq(OwnType)]
      /\ offers \subseteq OfferType /\ loads \subseteq LoadType
  BY DEF Typed, ControllersTyped, QueuesTyped, TransfersTyped
<1>3. /\ ctl' = [ctl EXCEPT ![m] = [ctl[m] EXCEPT !.run = "over"]]
      /\ own' = [own EXCEPT ![m] = <<>>] /\ loads' = {d \in loads : d.by # m}
      /\ hashing' = {h \in hashing : h[1] # m}
      /\ copy' = [j \in Joiner |-> IF j = m THEN {} ELSE copy[j]]
      /\ mode' = mode /\ offers' = offers
  BY DEF Ends
<1>4. /\ \A q \in MemberId \ {m} : ctl'[q] = ctl[q]
      /\ ctl'[m].run = "over" /\ ctl'[m].next = ctl[m].next
  BY <1>2, <1>3 DEF Controller
<1>5. SameOffers
  BY <1>2, <1>3, OffersSame
<1>6. /\ Given(s)' = Given(s) /\ \A q \in MemberId : Gone(q) => Gone(q)'
      /\ Gone(m)' /\ ~Up(m)'
  BY <1>4 DEF Given, Gone, Up
<1>7. Grows(s)
  BY <1>2, <1>5, <1>6, GrowsSame
<1>8. Counted(s)'
  BY <1>1, <1>5, <1>6, CountedSame
<1>9. Moves(m)
  BY <1>4, <1>6 DEF Moves
<1>10. /\ nextMemberIndex' = nextMemberIndex
       /\ members \ {m} \subseteq members'
       /\ \A c \in DOMAIN channels' :
            /\ c \in DOMAIN channels /\ channels'[c].opener = channels[c].opener
            /\ channels'[c].kind = channels[c].kind
       /\ \/ channels' = channels
          \/ /\ \A c \in DOMAIN channels' :
                  /\ HasCompany(channels[c].participants \ {m})
                  /\ channels'[c].participants = channels[c].participants \ {m}
             /\ \A c \in DOMAIN channels \ DOMAIN channels' :
                  ~HasCompany(channels[c].participants \ {m})
  <2>1. CASE UNCHANGED vars
    BY <2>1 DEF vars
  <2>2. CASE Leave(m) /\ m \in members \ {Host}
    <3>1. /\ nextMemberIndex' = nextMemberIndex /\ members' = members \ {m}
          /\ channels' = WithoutMember(m)
      BY <2>2 DEF Leave
    <3>2. DOMAIN channels' = {d \in DOMAIN channels : HasCompany(channels[d].participants \ {m})}
      BY <3>1 DEF WithoutMember
    <3>3. ASSUME NEW c \in DOMAIN channels'
          PROVE  /\ c \in DOMAIN channels /\ channels'[c].opener = channels[c].opener
                 /\ channels'[c].kind = channels[c].kind
                 /\ channels'[c].participants = channels[c].participants \ {m}
      <4>1. c \in DOMAIN channels /\ channels[c] \in Channel
        BY <1>2, <3>2, RoomFacts
      <4>2. channels'[c] = [channels[c] EXCEPT !.participants = @ \ {m}]
        BY <3>1, <3>2 DEF WithoutMember
      <4>3. QED  BY <4>1, <4>2 DEF Channel
    <3>4. QED  BY <3>1, <3>2, <3>3
  <2>3. CASE Leave(m) /\ m \notin members \ {Host}
    BY <2>3 DEF Leave, Refused, room
  <2>4. QED  BY <2>1, <2>2, <2>3
<1>11. Comings'
  <2>1. nextMemberIndex \in Nat /\ m \in Nat
    <3>1. nextMemberIndex \in Nat
      BY <1>2, RoomFacts, MaxMemberIndexAssumption
    <3>2. QED  BY <3>1, MemberNumbers
  <2>2. ASSUME NEW q \in MemberId, q # m
        PROVE  /\ Up(q)' => q \in members'
               /\ ctl'[q].run = "absent" => q >= nextMemberIndex'
               /\ q >= nextMemberIndex' => ctl'[q] = Fresh("absent") /\ toHost'[q] = <<>>
    BY <1>1, <1>4, <1>10, <2>2 DEF Comings, Up
  <2>3. ~(m >= nextMemberIndex') /\ ctl'[m].run # "absent"
    BY <1>4, <1>10, <2>1
  <2>4. QED  BY <1>6, <2>2, <2>3 DEF Comings
<1>12. Asked(s)'
  <2>1. \A x \in MemberId : Shortens(toHost[x], toHost'[x])
    BY DEF Shortens
  <2>2. QED  BY <1>1, <1>2, <1>7, <2>1, AskedKept
<1>13. \A c : Arrived(c) => Arrived(c)' \/ Settled(s, c)'
  <2>1. ASSUME NEW d \in loads, d.by = m
        PROVE  Settled(s, d.on)'
    <3>1. PICK f \in offers : f.on = d.on /\ f.to = d.by
      BY <1>1 DEF Loading, Made
    <3>2. f \in offers' /\ Gone(f.to)'
      BY <1>3, <1>6, <2>1, <3>1
    <3>3. QED  BY <1>8, <3>1, <3>2, SettledOfferNext
  <2>2. QED  BY <1>3, <2>1 DEF Arrived
<1>14. Told(s)'
  <2>1. \A x \in MemberId :
           \/ Shortens(fromHost[x], fromHost'[x])
           \/ \E e \in EventType : fromHost'[x] = Append(fromHost[x], e) /\ Hears(s, x, e)'
    BY <1>6 DEF Shortens, Hears
  <2>2. Shortens(own[s], own'[s])
    BY <1>2, <1>3 DEF Shortens
  <2>3. QED  BY <1>1, <1>2, <1>7, <1>13, <2>1, <2>2, ToldKept
<1>15. ASSUME NEW f \in offers, f.on \in DOMAIN channels
       PROVE  f.on \in DOMAIN channels' \/ Settled(s, f.on)'
  <2>1. CASE f.on \notin DOMAIN channels'
    <3>1. ~HasCompany(channels[f.on].participants \ {m})
      BY <1>10, <1>15, <2>1
    <3>2. m = s \/ m = f.to
      BY <1>1, <1>15, <3>1, LostWithMember
    <3>3. f \in offers' /\ (Gone(f.to)' \/ Gone(s)')
      BY <1>3, <1>6, <3>2
    <3>4. QED  BY <1>8, <3>3, SettledOfferNext
  <2>2. QED  BY <2>1
<1>16. Hosted(s)'
  <2>1. ASSUME NEW c \in DOMAIN channels'
        PROVE  channels'[c].participants = channels[c].participants
    <3>1. PICK q \in MemberId : Made(c, q) /\ channels[c].participants = {s, q}
      BY <1>1, <1>10 DEF Hosted, Between
    <3>2. CASE HasCompany({s, q} \ {m})
      <4>1. m # s /\ m # q
        BY <3>2 DEF HasCompany
      <4>2. channels[c].participants \ {m} = channels[c].participants
        BY <3>1, <4>1
      <4>3. QED  BY <1>10, <4>2
    <3>3. QED  BY <1>10, <3>1, <3>2
  <2>2. QED  BY <1>1, <1>7, <1>10, <2>1, HostedKept
<1>17. Requested(s)'
  <2>1. ASSUME NEW e \in Items(toHost[s]), e.type = "open"
        PROVE  \/ e \in Items(toHost'[s]) \/ e.on \in DOMAIN channels' \/ Settled(s, e.on)'
    <3>1. CASE m = s
      <4>1. PICK f \in offers : f.on = e.on
        BY <1>1, <2>1 DEF Asked, SenderAsks, Made
      <4>2. f \in offers' /\ Gone(s)'
        BY <1>3, <1>6, <3>1
      <4>3. QED  BY <1>8, <4>1, <4>2, SettledOfferNext
    <3>2. CASE m # s
      BY <2>1, <3>2
    <3>3. QED  BY <3>1, <3>2
  <2>2. QED  BY <1>1, <1>5, <1>7, <1>15, <2>1, RequestedKept
<1>18. Loading(s)'
  <2>1. ASSUME NEW d \in loads, Knows(d.by, d.on)
        PROVE  Knows(d.by, d.on)' \/ Settled(s, d.on)'
    <3>1. PICK f \in offers : f.on = d.on /\ f.to = d.by
      BY <1>1 DEF Loading, Made
    <3>2. CASE d.by = m
      <4>1. f \in offers' /\ Gone(f.to)'
        BY <1>3, <1>6, <3>1, <3>2
      <4>2. QED  BY <1>8, <3>1, <4>1, SettledOfferNext
    <3>3. CASE d.by = Host
      <4>1. f.on \in DOMAIN channels
        BY <2>1, <3>1, <3>3 DEF Knows
      <4>2. QED  BY <1>15, <3>1, <3>3, <4>1 DEF Knows
    <3>4. CASE d.by # m /\ d.by # Host
      <4>1. d.by \in Joiner
        BY <1>2, <3>4 DEF LoadType, Joiner
      <4>2. copy'[d.by] = copy[d.by]
        BY <1>3, <3>4, <4>1
      <4>3. QED  BY <2>1, <3>4, <4>2 DEF Knows
    <3>5. QED  BY <3>2, <3>3, <3>4
  <2>2. \A d \in loads' : \E b \in loads : d.by = b.by /\ d.on = b.on /\ d.from = b.from
    BY <1>3
  <2>3. \A x \in Joiner \ {s} : \A y \in copy'[x] :
          \E z \in copy[x] : y.from = z.from /\ y.to = z.to
    BY <1>3
  <2>4. \A h \in hashing' : h \in hashing
    BY <1>3
  <2>5. QED  BY <1>1, <1>7, <2>1, <2>2, <2>3, <2>4, LoadingKept
<1>19. Listing(s)'
  <2>1. CASE m = s
    BY <1>4, <2>1 DEF Listing, Writes
  <2>2. CASE m # s
    <3>1. ctl'[s] = ctl[s]
      BY <1>4, <2>2
    <3>2. QED  BY <1>1, <1>5, <1>7, <1>13, <3>1, ListingKept
  <2>3. QED  BY <2>1, <2>2
<1>20. Parting(s)'
  <2>1. CASE m = s
    BY <1>4, <2>1 DEF Parting
  <2>2. CASE m # s
    BY <1>1, <1>3, <1>4, <2>2, FinishedKept
  <2>3. QED  BY <2>1, <2>2
<1>21. QED
  BY <1>8, <1>11, <1>12, <1>14, <1>16, <1>17, <1>18, <1>19, <1>20 DEF LoneInv

-----------------------------------------------------------------------------
(* The handlers, once more.                                                *)

LEMMA ListedRun ==
  ASSUME NEW k \in Controller, NEW c, NEW q
  PROVE  Listed(k, c, q).run = k.run
BY DEF Listed, Controller

\* What a handler that writes at most one command does to its member.
LEMMA HandlerMoves ==
  ASSUME Typed, Comings, NEW m \in MemberId, Up(m), NEW k \in Controller, k.run # "absent",
         NEW e \in CommandType, Acts(m, k, <<>>) \/ Acts(m, k, <<e>>)
  PROVE  /\ Moves(m)
         /\ toHost'[m] = toHost[m] \/ (Writes(ctl[m]) /\ toHost'[m] = Append(toHost[m], e))
         /\ Acts(m, k, <<>>) => ctl'[m] = k /\ toHost'[m] = toHost[m]
         /\ Writes(ctl[m]) /\ Acts(m, k, <<e>>)
              => ctl'[m] = k /\ toHost'[m] = Append(toHost[m], e)
         /\ ctl'[m] = k \/ (~Writes(ctl[m]) /\ ctl'[m] = [ctl[m] EXCEPT !.run = "failed"])
<1>1. /\ ctl \in [MemberId -> Controller] /\ toHost \in [MemberId -> Seq(CommandType)]
      /\ toHost[m] \in Seq(CommandType) /\ ctl[m] \in Controller
      /\ <<>> \in Seq(CommandType) /\ <<e>> \in Seq(CommandType) /\ <<e>> # <<>>
  BY ShortQueues DEF Typed, ControllersTyped, QueuesTyped
<1>2. toHost[m] \o <<>> = toHost[m] /\ toHost[m] \o <<e>> = Append(toHost[m], e)
  BY <1>1, ConcatEmptySeq, AppendIsConcat
<1>3. m < nextMemberIndex
  BY UpIsIn DEF Typed, Up
<1>4. [ctl[m] EXCEPT !.run = "failed"].run = "failed"
  BY <1>1 DEF Controller
<1>5. CASE Acts(m, k, <<>>)
  <2>1. /\ \A q \in MemberId \ {m} : ctl'[q] = ctl[q] /\ toHost'[q] = toHost[q]
        /\ ctl'[m] = k /\ toHost'[m] = toHost[m] \o <<>>
    BY <1>1, <1>5, ActsEffect
  <2>2. Moves(m)
    BY <1>3, <2>1 DEF Moves, Up, Gone
  <2>3. Acts(m, k, <<e>>) /\ Writes(ctl[m]) => toHost'[m] = Append(toHost[m], e)
    BY <1>1, <1>2, ActsEffect
  <2>4. QED  BY <1>2, <2>1, <2>2, <2>3
<1>6. CASE Acts(m, k, <<e>>)
  <2> DEFINE cs == <<e>>
  <2>0. cs \in Seq(CommandType) /\ cs # <<>> /\ Acts(m, k, cs)
    BY <1>1, <1>6
  <2> HIDE DEF cs
  <2>a. /\ \A q \in MemberId \ {m} : ctl'[q] = ctl[q] /\ toHost'[q] = toHost[q]
        /\ \/ Writes(ctl[m]) /\ ctl'[m] = k /\ toHost'[m] = toHost[m] \o cs
           \/ /\ ~Writes(ctl[m]) /\ ctl'[m] = [ctl[m] EXCEPT !.run = "failed"]
              /\ toHost' = toHost
    BY <1>1, <2>0, ActsEffect
  <2>1. /\ \A q \in MemberId \ {m} : ctl'[q] = ctl[q] /\ toHost'[q] = toHost[q]
        /\ \/ Writes(ctl[m]) /\ ctl'[m] = k /\ toHost'[m] = toHost[m] \o <<e>>
           \/ /\ ~Writes(ctl[m]) /\ ctl'[m] = [ctl[m] EXCEPT !.run = "failed"]
              /\ toHost' = toHost
    BY <2>a DEF cs
  <2>2. Moves(m)
    BY <1>3, <1>4, <2>1 DEF Moves, Up, Gone
  <2>3. Acts(m, k, <<>>) => ctl'[m] = k /\ toHost'[m] = toHost[m]
    BY <1>1, <1>2, ActsEffect
  <2>4. QED  BY <1>2, <2>1, <2>2, <2>3
<1>7. QED  BY <1>5, <1>6

\* What is read was heard.
LEMMA HeardHead ==
  ASSUME QueuesTyped, NEW s \in MemberId, Told(s), NEW m \in MemberId, NEW types,
         TakesFromHost(m, types)
  PROVE  /\ Head(fromHost[m]) \in EventType /\ Head(fromHost[m]).type \in types
         /\ Hears(s, m, Head(fromHost[m]))
         /\ Shortens(fromHost[m], fromHost'[m]) /\ own' = own
         /\ \A x \in MemberId \ {m} : fromHost'[x] = fromHost[x]
         /\ ctl[m].run \in {"running", "leaving"} /\ Up(m)
<1>1. fromHost[m] \in Seq(EventType) /\ fromHost[m] # <<>> /\ fromHost \in [MemberId -> Seq(EventType)]
  BY DEF QueuesTyped, TakesFromHost
<1>2. Head(fromHost[m]) \in Items(fromHost[m])
  BY <1>1, ItemsOf
<1>3. Hears(s, m, Head(fromHost[m]))
  BY <1>2 DEF Told
<1>4. fromHost'[m] = Tail(fromHost[m]) /\ \A x \in MemberId \ {m} : fromHost'[x] = fromHost[x]
  BY <1>1 DEF TakesFromHost
<1>5. QED
  BY <1>1, <1>3, <1>4, TakenTyped DEF TakesFromHost, Shortens, Reads, Up

LEMMA HeardOwn ==
  ASSUME QueuesTyped, NEW s \in MemberId, Told(s), NEW m \in MemberId, NEW types,
         TakesOwn(m, types)
  PROVE  /\ Head(own[m]) \in OwnType /\ Head(own[m]).type \in types
         /\ m = s => /\ Head(own[m]).type = "progress"
                     /\ Settled(s, Head(own[m]).on) \/ Arrived(Head(own[m]).on)
         /\ Shortens(own[m], own'[m]) /\ fromHost' = fromHost
         /\ \A x \in MemberId \ {m} : own'[x] = own[x]
         /\ ctl[m].run \in {"running", "leaving"} /\ Up(m)
<1>1. own[m] \in Seq(OwnType) /\ own[m] # <<>> /\ own \in [MemberId -> Seq(OwnType)]
  BY DEF QueuesTyped, TakesOwn
<1>2. Head(own[m]) \in Items(own[m])
  BY <1>1, ItemsOf
<1>3. m = s => /\ Head(own[m]).type = "progress"
               /\ Settled(s, Head(own[m]).on) \/ Arrived(Head(own[m]).on)
  BY <1>2 DEF Told
<1>4. own'[m] = Tail(own[m]) /\ \A x \in MemberId \ {m} : own'[x] = own[x]
  BY <1>1 DEF TakesOwn
<1>5. QED
  BY <1>1, <1>3, <1>4, TakenOwnTyped DEF TakesOwn, Shortens, Reads, Up

\* Nothing but m's copy of the room changes.
LEMMA CopiesElsewhere ==
  ASSUME NEW m, NEW new, Copies(m, new)
  PROVE  /\ \A x \in Joiner \ {m} : copy'[x] = copy[x]
         /\ m \in Joiner => copy'[m] = new
BY DEF Copies

LEMMA OwnCopied ==
  ASSUME NEW m \in Joiner
  PROVE  Copied(m) = copy[m] /\ m # Host
BY MemberNumbers DEF Copied

\* The copy of another controller's machine may lose what is settled.
KeepsCopy(s, m) ==
  m \in Joiner \ {s} =>
    /\ \A y \in copy'[m] : \E z \in copy[m] : y.from = z.from /\ y.to = z.to
    /\ \A d \in loads : d.by = m /\ Knows(m, d.on) => Knows(m, d.on)' \/ Settled(s, d.on)
\* The books of s may lose the offers that are settled or have arrived.
KeepsOffers(s, k) ==
  \A f \in offers : Out(f) \in ctl[s].chans
                      => Out(f) \in k.chans \/ Settled(s, f.on) \/ Arrived(f.on)
\* m has read something, and nothing of it concerns anybody else.
TakesNote(m) ==
  /\ \A x \in MemberId \ {m} : fromHost'[x] = fromHost[x] /\ own'[x] = own[x]
  /\ Shortens(fromHost[m], fromHost'[m]) /\ Shortens(own[m], own'[m])
  /\ \A x \in Joiner \ {m} : copy'[x] = copy[x]
  /\ UNCHANGED <<vars, mode, transfers>>

\* Another controller that only takes note of what it hears, or leaves.
LEMMA OtherListener ==
  ASSUME Typed, NEW s \in MemberId, LoneInv(s), NEW m \in MemberId \ {s}, Up(m),
         NEW k \in Controller, k.run # "absent",
         Acts(m, k, <<>>) \/ Acts(m, k, <<Command("leave", NoChannel, All)>>),
         TakesNote(m), KeepsCopy(s, m)
  PROVE  LoneInv(s)'
<1> DEFINE e == Command("leave", NoChannel, All)
<1>1. e \in CommandType /\ OtherAsks(s, e)'
  BY DEF Command, CommandType, OtherAsks
<1>2. Comings /\ offers \subseteq OfferType /\ UNCHANGED <<hashing, loads, offers>>
  BY DEF LoneInv, Typed, TransfersTyped, TakesNote, transfers
<1>3. Moves(m) /\ (toHost'[m] = toHost[m] \/ toHost'[m] = Append(toHost[m], e))
  <2>1. Acts(m, k, <<>>) \/ Acts(m, k, <<e>>)
    OBVIOUS
  <2> HIDE DEF e
  <2>2. QED  BY <1>1, <1>2, <2>1, HandlerMoves
<1> HIDE DEF e
<1>4. SameOffers
  BY <1>2, OffersSame
<1>5. HandlesAside(s, m)
  BY <1>1, <1>2, <1>3, <1>4 DEF HandlesAside, TakesNote, KeepsCopy
<1>6. QED  BY <1>5, OtherHandler

\* Any controller that takes note of what it hears, and may have done its work then.
LEMMA Listener ==
  ASSUME Typed, NEW s \in MemberId, LoneInv(s), NEW m \in MemberId, Reads(m),
         NEW k \in Controller, Kept(m, k), k.run = ctl[m].run, k.next = ctl[m].next,
         NEW l \in {k, Finishing(m, k)}, Acts(m, l, <<>>),
         TakesNote(m), KeepsCopy(s, m), m = s => KeepsOffers(s, k)
  PROVE  LoneInv(s)'
<1>1. /\ l \in Controller /\ l.next = k.next /\ l.chans = k.chans
      /\ l.run = k.run \/ (l.run = "grace" /\ Writes(k) /\ HasFinished(m, k))
      /\ l.pending = k.pending /\ l.sent = k.sent /\ l.closed = k.closed
  BY FinishingKept
<1>2. k.run \in {"running", "leaving"} /\ Up(m) /\ l.run # "absent"
  BY <1>1 DEF Reads, Up
<1>3. CASE m # s
  BY <1>1, <1>2, <1>3, OtherListener
<1>4. CASE m = s
  <2>1. Comings /\ UNCHANGED <<hashing, loads, offers>> /\ mode' = mode
    BY DEF LoneInv, TakesNote, transfers
  <2>2. Moves(m) /\ ctl'[m] = l /\ toHost'[m] = toHost[m]
    <3>1. Command("leave", NoChannel, All) \in CommandType
      BY DEF Command, CommandType
    <3>2. QED  BY <1>1, <1>2, <2>1, <3>1, HandlerMoves
  <2>3. Parting(s)'
    <3>1. ASSUME l.run = "grace" PROVE HasFinished(s, l)
      <4>1. HasFinished(s, k)
        BY <1>1, <1>2, <1>4, <3>1
      <4>2. QED  BY <1>1, <4>1 DEF HasFinished
    <3>2. QED  BY <1>4, <2>1, <2>2, <3>1 DEF Parting, HasFinished
  <2>4. Writes(ctl[s])' => Writes(ctl[s])
    BY <1>1, <1>4, <2>2 DEF Writes
  <2>5. \A f \in offers : Out(f) \in ctl[s].chans
          => Out(f) \in ctl'[s].chans \/ Settled(s, f.on) \/ Arrived(f.on)
    BY <1>1, <1>4, <2>2 DEF KeepsOffers
  <2>6. HandlesOwn(s)
    BY <1>1, <1>4, <2>1, <2>2, <2>3, <2>4, <2>5 DEF HandlesOwn, TakesNote
  <2>7. QED  BY <2>6, OwnHandler
<1>5. QED  BY <1>3, <1>4

-----------------------------------------------------------------------------
(* What is heard of others, and of transfers.                              *)

\* A copy keeps what is not settled.
LEMMA CopyKept ==
  ASSUME Typed, NEW s \in MemberId, LoneInv(s), NEW m \in MemberId, NEW new, Copies(m, new),
         \A y \in new : \E z \in Copied(m) : y.from = z.from /\ y.to = z.to,
         m # s => \A x \in Copied(m) : x.from = s /\ x.to = m /\ Made(x.on, m)
                    => (\E y \in new : y.on = x.on) \/ Settled(s, x.on)
  PROVE  KeepsCopy(s, m) /\ \A x \in Joiner \ {m} : copy'[x] = copy[x]
<1>1. /\ \A x \in Joiner \ {m} : copy'[x] = copy[x]
      /\ m \in Joiner => copy'[m] = new /\ Copied(m) = copy[m] /\ m # Host
  BY CopiesElsewhere, OwnCopied
<1>2. ASSUME m \in Joiner \ {s}, NEW d \in loads, d.by = m, Knows(m, d.on)
      PROVE  Knows(m, d.on)' \/ Settled(s, d.on)
  <2>1. Made(d.on, m)
    BY <1>2 DEF LoneInv, Loading
  <2>2. PICK x \in copy[m] : x.on = d.on
    BY <1>1, <1>2 DEF Knows
  <2>3. x.from = s /\ x.to = m
    BY <1>2, <2>2 DEF LoneInv, Loading
  <2>4. (\E y \in new : y.on = d.on) \/ Settled(s, d.on)
    BY <1>1, <1>2, <2>1, <2>2, <2>3
  <2>5. QED  BY <1>1, <1>2, <2>4 DEF Knows
<1>3. QED  BY <1>1, <1>2 DEF KeepsCopy

\* Nothing is lost to s when somebody has gone but what it offered to them.
LEMMA GoneSettles ==
  ASSUME NEW s \in MemberId, LoneInv(s), NEW f \in offers, Gone(f.to) \/ Gone(s)
  PROVE  Settled(s, f.on)
BY SettledOffer DEF LoneInv

LEMMA LoneReadsLeft ==
  ASSUME Typed, NEW s \in MemberId, LoneInv(s), NEW m \in MemberId, ReadsLeft(m)
  PROVE  LoneInv(s)'
<1> DEFINE e == Head(fromHost[m])
           k == WithoutPeer(e.by, ctl[m])
           new == {x \in Copied(m) : e.by \notin {x.from, x.to}}
<1>1. /\ TakesFromHost(m, {"member_left"}) /\ Acts(m, Finishing(m, k), <<>>)
      /\ Copies(m, new) /\ UNCHANGED <<vars, mode, transfers, faults>>
  BY DEF ReadsLeft
<1>2. /\ Reads(m) /\ Up(m) /\ Gone(e.by) /\ Shortens(fromHost[m], fromHost'[m]) /\ own' = own
      /\ \A x \in MemberId \ {m} : fromHost'[x] = fromHost[x]
  <2>1. e.type = "member_left" /\ Hears(s, m, e)
    BY <1>1, HeardHead DEF Typed, LoneInv
  <2>2. QED  BY <1>1, <2>1, HeardHead DEF Typed, LoneInv, Hears, TakesFromHost
<1>3. /\ k \in Controller /\ Kept(m, k) /\ k.run = ctl[m].run /\ k.next = ctl[m].next
      /\ k.chans = {ch \in ctl[m].chans : ch.peer # e.by}
  BY WithoutPeerKept DEF Typed, ControllersTyped
<1> HIDE DEF k
<1>4. KeepsCopy(s, m) /\ \A x \in Joiner \ {m} : copy'[x] = copy[x]
  <2>1. ASSUME NEW x \in Copied(m), m # s, x.from = s, x.to = m, Made(x.on, m)
        PROVE  (\E y \in new : y.on = x.on) \/ Settled(s, x.on)
    <3>1. CASE e.by \notin {s, m}
      BY <2>1, <3>1
    <3>2. CASE e.by = s
      <4>1. PICK f \in offers : f.on = x.on
        BY <2>1 DEF Made
      <4>2. QED  BY <1>2, <3>2, <4>1, GoneSettles
    <3>3. e.by # m
      BY <1>2 DEF Up, Gone
    <3>4. QED  BY <3>1, <3>2, <3>3
  <2>2. \A y \in new : y \in Copied(m)
    OBVIOUS
  <2> HIDE DEF new
  <2>3. QED  BY <1>1, <2>1, <2>2, CopyKept
<1>5. KeepsOffers(s, k) \/ m # s
  <2>1. ASSUME NEW f \in offers, m = s, Out(f) \in ctl[s].chans, Out(f) \notin k.chans
        PROVE  Settled(s, f.on)
    <3>1. Out(f).peer = e.by
      BY <1>3, <2>1
    <3>2. f.to = e.by
      BY <3>1 DEF Out
    <3>3. QED  BY <1>2, <3>2, GoneSettles
  <2>2. QED  BY <2>1 DEF KeepsOffers
<1>6. TakesNote(m)
  BY <1>1, <1>2, <1>4 DEF TakesNote, Shortens
<1>7. QED  BY <1>1, <1>2, <1>3, <1>4, <1>5, <1>6, Listener

LEMMA LoneReadsAccepted ==
  ASSUME Typed, NEW s \in MemberId, LoneInv(s), NEW m \in MemberId, ReadsAccepted(m)
  PROVE  LoneInv(s)'
<1> DEFINE e == Head(fromHost[m])
           P == ctl[m].pending \ {<<e.by, e.on>>}
           k == [ctl[m] EXCEPT !.pending = P]
<1>1. /\ TakesFromHost(m, {"channel_accepted"}) /\ Acts(m, k, <<>>)
      /\ UNCHANGED <<vars, mode, copy, transfers, faults>>
  BY DEF ReadsAccepted
<1>2. /\ Reads(m) /\ Shortens(fromHost[m], fromHost'[m]) /\ own' = own
      /\ \A x \in MemberId \ {m} : fromHost'[x] = fromHost[x]
  BY <1>1, HeardHead DEF Typed, LoneInv, TakesFromHost
<1>3. /\ k \in Controller /\ Kept(m, k) /\ k.run = ctl[m].run /\ k.next = ctl[m].next
      /\ k.chans = ctl[m].chans
  <2>1. /\ ctl[m] \in Controller /\ Kept(m, ctl[m]) /\ P \in SUBSET ctl[m].pending
        /\ {} \in SUBSET ctl[m].chans
    BY DEF Typed, ControllersTyped
  <2> HIDE DEF P
  <2>2. k \in Controller /\ Kept(m, k)
    BY <2>1, ShrinkingKept
  <2>3. QED  BY <2>1, <2>2 DEF Controller
<1> HIDE DEF k
<1>4. KeepsOffers(s, k) \/ m # s
  BY <1>3 DEF KeepsOffers
<1>5. KeepsCopy(s, m) /\ TakesNote(m)
  <2>1. copy' = copy /\ \A d \in loads : Knows(m, d.on) => Knows(m, d.on)'
    BY <1>1 DEF Knows, vars
  <2>2. QED  BY <1>1, <1>2, <2>1 DEF KeepsCopy, TakesNote, Shortens
<1>6. QED  BY <1>1, <1>2, <1>3, <1>4, <1>5, Listener

LEMMA LoneReadsDigest ==
  ASSUME Typed, NEW s \in MemberId, LoneInv(s), NEW m \in MemberId, ReadsDigest(m)
  PROVE  LoneInv(s)'
<1> DEFINE e == Head(fromHost[m])
           k == ctl[m]
           new == {IF x.on = e.on THEN [x EXCEPT !.digest = TRUE] ELSE x : x \in Copied(m)}
<1>1. /\ TakesFromHost(m, {"channel_transfer"}) /\ Copies(m, new)
      /\ UNCHANGED <<vars, mode, ctl, toHost, transfers, faults>>
  BY DEF ReadsDigest
<1>2. /\ Reads(m) /\ Shortens(fromHost[m], fromHost'[m]) /\ own' = own
      /\ \A x \in MemberId \ {m} : fromHost'[x] = fromHost[x]
  BY <1>1, HeardHead DEF Typed, LoneInv, TakesFromHost
<1>3. k \in Controller /\ Kept(m, k) /\ Acts(m, k, <<>>)
  <2>1. /\ ctl \in [MemberId -> Controller] /\ toHost \in [MemberId -> Seq(CommandType)]
        /\ Kept(m, k)
    BY DEF Typed, ControllersTyped, QueuesTyped
  <2>2. toHost[m] \o <<>> = toHost[m]
    BY <2>1, ConcatEmptySeq
  <2>3. ctl' = [ctl EXCEPT ![m] = k] /\ toHost' = [toHost EXCEPT ![m] = toHost[m] \o <<>>]
    BY <1>1, <2>1, <2>2
  <2>4. QED  BY <2>1, <2>3 DEF Acts
<1>4. KeepsCopy(s, m) /\ \A x \in Joiner \ {m} : copy'[x] = copy[x]
  <2> DEFINE T(x) == IF x.on = e.on THEN [x EXCEPT !.digest = TRUE] ELSE x
  <2>1. Copied(m) \subseteq EntryType
    BY CopiedTyped DEF Typed, TransfersTyped
  <2>2. \A x \in Copied(m) : T(x).on = x.on /\ T(x).from = x.from /\ T(x).to = x.to
    BY <2>1 DEF EntryType
  <2>3. new = {T(x) : x \in Copied(m)}
    OBVIOUS
  <2> HIDE DEF new, T
  <2>4. /\ \A y \in new : \E z \in Copied(m) : y.from = z.from /\ y.to = z.to
        /\ \A x \in Copied(m) : \E y \in new : y.on = x.on
    BY <2>2, <2>3
  <2>5. QED  BY <1>1, <2>4, CopyKept
<1>5. KeepsOffers(s, k) \/ m # s
  BY DEF KeepsOffers
<1>6. TakesNote(m)
  BY <1>1, <1>2, <1>4 DEF TakesNote, Shortens
<1>7. QED  BY <1>2, <1>3, <1>4, <1>5, <1>6, Listener

LEMMA LoneReadsQuit ==
  ASSUME Typed, NEW s \in MemberId, LoneInv(s), NEW m \in MemberId, ReadsQuit(m)
  PROVE  LoneInv(s)'
<1> DEFINE e == Head(fromHost[m])
           C == ctl[m].chans \ OnChannel(e.on, ctl[m])
           P == ctl[m].pending \ {<<e.by, e.on>>}
           k == [ctl[m] EXCEPT !.chans = C, !.pending = P]
           new == {x \in Copied(m) : x.on # e.on \/ e.by \notin {x.from, x.to}}
<1>1. /\ TakesFromHost(m, {"channel_rejected", "channel_closed"})
      /\ Acts(m, Finishing(m, k), <<>>) /\ Copies(m, new)
      /\ UNCHANGED <<vars, mode, transfers, faults>>
  BY DEF ReadsQuit
<1>2. /\ Reads(m) /\ Settled(s, e.on) /\ Shortens(fromHost[m], fromHost'[m]) /\ own' = own
      /\ \A x \in MemberId \ {m} : fromHost'[x] = fromHost[x]
  BY <1>1, HeardHead DEF Typed, LoneInv, TakesFromHost, Hears
<1>3. /\ k \in Controller /\ Kept(m, k) /\ k.run = ctl[m].run /\ k.next = ctl[m].next
      /\ k.chans = C
  <2>1. /\ ctl[m] \in Controller /\ Kept(m, ctl[m]) /\ P \in SUBSET ctl[m].pending
        /\ C \in SUBSET ctl[m].chans
    BY DEF Typed, ControllersTyped
  <2> HIDE DEF P, C
  <2>2. k \in Controller /\ Kept(m, k)
    BY <2>1, ShrinkingKept
  <2>3. QED  BY <2>1, <2>2 DEF Controller
<1> HIDE DEF k
<1>4. KeepsCopy(s, m) /\ \A x \in Joiner \ {m} : copy'[x] = copy[x]
  <2>1. \A x \in Copied(m) : x \in new \/ x.on = e.on
    OBVIOUS
  <2>2. \A x \in Copied(m) : (\E y \in new : y.on = x.on) \/ Settled(s, x.on)
    BY <1>2, <2>1
  <2>3. \A y \in new : y \in Copied(m)
    OBVIOUS
  <2> HIDE DEF new
  <2>4. QED  BY <1>1, <2>2, <2>3, CopyKept
<1>5. KeepsOffers(s, k) \/ m # s
  BY <1>2, <1>3 DEF KeepsOffers, OnChannel, Out
<1>6. TakesNote(m)
  BY <1>1, <1>2, <1>4 DEF TakesNote, Shortens
<1>7. QED  BY <1>1, <1>2, <1>3, <1>4, <1>5, <1>6, Listener

\* A handler that reads an event and leaves the copies alone.
LEMMA NoteWithoutCopy ==
  ASSUME Typed, NEW s \in MemberId, LoneInv(s), NEW m \in MemberId, NEW types,
         TakesFromHost(m, types) \/ TakesOwn(m, types),
         UNCHANGED <<vars, mode, copy, transfers>>
  PROVE  Reads(m) /\ TakesNote(m) /\ KeepsCopy(s, m)
<1>1. Told(s) /\ QueuesTyped
  BY DEF Typed, LoneInv
<1>2. ASSUME TakesFromHost(m, types)
      PROVE  /\ Reads(m) /\ Shortens(fromHost[m], fromHost'[m]) /\ Shortens(own[m], own'[m])
             /\ \A x \in MemberId \ {m} : fromHost'[x] = fromHost[x] /\ own'[x] = own[x]
  BY <1>1, <1>2, HeardHead DEF TakesFromHost, Shortens
<1>3. ASSUME TakesOwn(m, types)
      PROVE  /\ Reads(m) /\ Shortens(fromHost[m], fromHost'[m]) /\ Shortens(own[m], own'[m])
             /\ \A x \in MemberId \ {m} : fromHost'[x] = fromHost[x] /\ own'[x] = own[x]
  BY <1>1, <1>3, HeardOwn DEF TakesOwn, Shortens
<1>4. Reads(m) /\ TakesNote(m)
  BY <1>2, <1>3 DEF TakesNote
<1>5. \A d \in loads : Knows(m, d.on) => Knows(m, d.on)'
  BY DEF Knows, vars
<1>6. QED  BY <1>4, <1>5 DEF KeepsCopy

LEMMA LoneReadsError ==
  ASSUME Typed, NEW s \in MemberId, LoneInv(s), NEW m \in MemberId, ReadsError(m)
  PROVE  LoneInv(s)'
<1>1. PICK c \in ChannelId :
        /\ \/ TakesFromHost(m, {"error"}) /\ c = Head(fromHost[m]).on
           \/ TakesOwn(m, {"error"}) /\ c = Head(own[m]).on
        /\ Acts(m, Finishing(m, [ctl[m] EXCEPT !.chans = @ \ OnChannel(c, ctl[m])]), <<>>)
        /\ UNCHANGED <<vars, mode, copy, transfers, faults>>
  BY DEF ReadsError
<1> DEFINE C == ctl[m].chans \ OnChannel(c, ctl[m])
           k == [ctl[m] EXCEPT !.chans = C]
<1>2. Reads(m) /\ TakesNote(m) /\ KeepsCopy(s, m)
  BY <1>1, NoteWithoutCopy
<1>3. m = s => Settled(s, c)
  <2>1. CASE TakesFromHost(m, {"error"}) /\ c = Head(fromHost[m]).on
    BY <2>1, HeardHead DEF Typed, LoneInv, Hears
  <2>2. CASE TakesOwn(m, {"error"})
    BY <2>2, HeardOwn DEF Typed, LoneInv
  <2>3. QED  BY <1>1, <2>1, <2>2
<1>4. /\ k \in Controller /\ Kept(m, k) /\ k.run = ctl[m].run /\ k.next = ctl[m].next
      /\ k.chans = C /\ Acts(m, Finishing(m, k), <<>>)
  <2>1. /\ ctl[m] \in Controller /\ Kept(m, ctl[m]) /\ {} \in SUBSET ctl[m].pending
        /\ C \in SUBSET ctl[m].chans
    BY DEF Typed, ControllersTyped
  <2>2. Acts(m, Finishing(m, k), <<>>)
    BY <1>1
  <2> HIDE DEF C
  <2>3. k \in Controller /\ Kept(m, k)
    BY <2>1, ShrinkingKept
  <2>4. QED  BY <2>1, <2>2, <2>3 DEF Controller
<1> HIDE DEF k
<1>5. KeepsOffers(s, k) \/ m # s
  BY <1>3, <1>4 DEF KeepsOffers, OnChannel, Out
<1>6. QED  BY <1>2, <1>4, <1>5, Listener

LEMMA LoneReadsProgress ==
  ASSUME Typed, NEW s \in MemberId, LoneInv(s), NEW m \in MemberId, ReadsProgress(m)
  PROVE  LoneInv(s)'
<1> DEFINE e == Head(own[m])
           sent == {ch \in OnChannel(e.on, ctl[m]) : ch.dir = "out"}
           C == ctl[m].chans \ sent
           k == [ctl[m] EXCEPT !.chans = C]
<1>1. /\ TakesOwn(m, {"progress"})
      /\ Acts(m, k, <<>>) \/ Acts(m, Finishing(m, k), <<>>)
      /\ UNCHANGED <<vars, mode, copy, transfers, faults>>
  BY DEF ReadsProgress
<1>2. Reads(m) /\ TakesNote(m) /\ KeepsCopy(s, m)
  BY <1>1, NoteWithoutCopy
<1>3. m = s => Settled(s, e.on) \/ Arrived(e.on)
  BY <1>1, HeardOwn DEF Typed, LoneInv
<1>4. /\ k \in Controller /\ Kept(m, k) /\ k.run = ctl[m].run /\ k.next = ctl[m].next
      /\ k.chans = C
  <2>1. /\ ctl[m] \in Controller /\ Kept(m, ctl[m]) /\ {} \in SUBSET ctl[m].pending
        /\ C \in SUBSET ctl[m].chans
    BY DEF Typed, ControllersTyped
  <2> HIDE DEF C
  <2>2. k \in Controller /\ Kept(m, k)
    BY <2>1, ShrinkingKept
  <2>3. QED  BY <2>1, <2>2 DEF Controller
<1>5. Acts(m, k, <<>>) \/ Acts(m, Finishing(m, k), <<>>)
  BY <1>1
<1> HIDE DEF k
<1>6. KeepsOffers(s, k) \/ m # s
  BY <1>3, <1>4 DEF KeepsOffers, OnChannel, Out
<1>7. QED  BY <1>2, <1>4, <1>5, <1>6, Listener

LEMMA LoneReadsPath ==
  ASSUME Typed, NEW s \in MemberId, LoneInv(s), NEW m \in MemberId, ReadsPath(m)
  PROVE  LoneInv(s)'
<1> DEFINE C == ctl[m].chans \ OnChannel(Head(own[m]).on, ctl[m])
           l == [ctl[m] EXCEPT !.chans = C]
           k == [l EXCEPT !.done = TRUE, !.run = "leaving"]
<1>1. /\ TakesOwn(m, {"path_received"})
      /\ Acts(m, k, <<Command("leave", NoChannel, All)>>) \/ Acts(m, l, <<>>)
      /\ UNCHANGED <<vars, mode, copy, transfers, faults>>
  BY DEF ReadsPath
<1>2. Reads(m) /\ TakesNote(m) /\ KeepsCopy(s, m)
  BY <1>1, NoteWithoutCopy
<1>3. m # s /\ Up(m)
  BY <1>1, <1>2, HeardOwn DEF Typed, LoneInv
<1>4. l \in Controller /\ l.run # "absent"
  <2>1. /\ ctl[m] \in Controller /\ Kept(m, ctl[m]) /\ {} \in SUBSET ctl[m].pending
        /\ C \in SUBSET ctl[m].chans
    BY DEF Typed, ControllersTyped
  <2> HIDE DEF C
  <2>2. l \in Controller
    BY <2>1, ShrinkingKept
  <2>3. l.run = ctl[m].run
    BY <2>1 DEF Controller
  <2>4. QED  BY <1>3, <2>2, <2>3 DEF Up
<1>5. Acts(m, k, <<Command("leave", NoChannel, All)>>) \/ Acts(m, l, <<>>)
  BY <1>1
<1> HIDE DEF l
<1>6. k \in Controller /\ k.run # "absent"
  BY <1>4 DEF Controller, Run
<1> HIDE DEF k
<1>7. QED  BY <1>2, <1>3, <1>4, <1>5, <1>6, OtherListener

-----------------------------------------------------------------------------
(* What is heard of offers.                                                *)

LEMMA BecomesSettled ==
  ASSUME NEW s \in MemberId, offers \subseteq OfferType, Counted(s), NEW c, c \in Given(s)',
         NEW as \in {"refused", "saved", "failed"}, Becomes(s, c, as)
  PROVE  Settled(s, c)'
<1>1. ASSUME NEW g \in offers', g.on = c PROVE g.as # "open"
  <2>1. PICK f \in offers : g = IF f.from = s /\ f.on = c THEN [f EXCEPT !.as = as] ELSE f
    BY DEF Becomes
  <2>2. f.on = c /\ f.from = s
    BY <1>1, <2>1 DEF OfferType, Counted
  <2>3. QED  BY <2>1, <2>2 DEF OfferType
<1>2. Answered(c)'
  BY <1>1 DEF Answered
<1>3. QED  BY <1>2 DEF Settled

LEMMA LoneReadsOpened ==
  ASSUME Typed, NEW s \in MemberId, LoneInv(s), NEW m \in MemberId, ReadsOpened(m)
  PROVE  LoneInv(s)'
<1> DEFINE e == Head(fromHost[m])
<1>1. PICK c \in ChannelId, q \in MemberId : c = e.on /\ q = e.by
  <2>1. e \in EventType /\ e.type = "channel_opened"
    BY HeardHead DEF ReadsOpened, Typed, LoneInv
  <2>2. QED  BY <2>1 DEF EventType
<1> DEFINE k == Listed(ctl[m], c, q)
           kept == {x \in Copied(m) : x.on # c}
           new == Entry(c, q, m)
           load == [by |-> m, on |-> c, from |-> q, stage |-> "asked"]
           yes == Command("accept", c, All)
           no == Command("reject", c, All)
<1>2. /\ TakesFromHost(m, {"channel_opened"})
      /\ \/ /\ Acts(m, k, <<yes>>)
            /\ Copies(m, kept \cup {new})
            /\ loads' = IF m # Host /\ Writes(k) THEN loads \cup {load} ELSE loads
            /\ UNCHANGED offers
         \/ /\ Acts(m, k, <<no>>)
            /\ Copies(m, IF Writes(k) THEN kept ELSE kept \cup {new})
            /\ IF Writes(k) THEN Becomes(q, c, "refused") ELSE UNCHANGED offers
            /\ UNCHANGED loads
      /\ UNCHANGED <<vars, mode, hashing, faults>>
  BY <1>1 DEF ReadsOpened, Listed
<1>3. /\ m # s /\ q = s /\ Made(c, m) /\ own' = own /\ Up(m)
      /\ Shortens(fromHost[m], fromHost'[m])
      /\ \A x \in MemberId \ {m} : fromHost'[x] = fromHost[x]
  <2>1. e.type = "channel_opened" /\ Hears(s, m, e)
    BY <1>2, HeardHead DEF Typed, LoneInv
  <2>2. m # s /\ q = s /\ Made(c, m)
    BY <1>1, <2>1 DEF Hears
  <2>3. QED  BY <1>2, <2>2, HeardHead DEF Typed, LoneInv, TakesFromHost
<1>4. k \in Controller /\ k.run # "absent" /\ k.run = ctl[m].run
  <2>1. k \in Controller /\ k.run = ctl[m].run
    BY ListedKept DEF Typed, ControllersTyped
  <2>2. QED  BY <1>3, <2>1 DEF Up
<1>5. Writes(k) <=> Writes(ctl[m])
  BY <1>4 DEF Writes
<1>6. yes \in CommandType /\ yes.type = "accept" /\ no \in CommandType /\ no.type = "reject"
      /\ no.on = c
  BY Commands DEF Command
<1>7. new.on = c /\ new.from = q /\ new.to = m
  BY DEF Entry
<1>8. load.by = m /\ load.on = c /\ load.from = q
  OBVIOUS
<1>9. Comings /\ Counted(s) /\ offers \subseteq OfferType
  BY DEF LoneInv, Typed, TransfersTyped
<1> HIDE DEF k, new, load, yes, no, e
<1>10. Moves(m)
  <2>1. Acts(m, k, <<yes>>) \/ Acts(m, k, <<no>>)
    BY <1>2
  <2>2. Acts(m, k, <<yes>>) => Moves(m)
    BY <1>3, <1>4, <1>6, <1>9, HandlerMoves
  <2>3. Acts(m, k, <<no>>) => Moves(m)
    BY <1>3, <1>4, <1>6, <1>9, HandlerMoves
  <2>4. QED  BY <2>1, <2>2, <2>3
<1>11. SameOffers
  <2>1. UNCHANGED offers \/ Becomes(q, c, "refused")
    BY <1>2
  <2>2. QED  BY <1>9, <2>1, OffersSame
<1>12. c \in Given(s) /\ Given(s)' = Given(s)
  <2>1. ctl'[s] = ctl[s]
    BY <1>3, <1>10 DEF Moves
  <2>2. QED  BY <1>3, <1>9, <2>1 DEF Made, Counted, Given
<1>13. m \in Joiner => Copied(m) = copy[m] /\ m # Host
  BY OwnCopied
<1>14. CASE /\ Acts(m, k, <<yes>>)
            /\ Copies(m, kept \cup {new})
            /\ loads' = IF m # Host /\ Writes(k) THEN loads \cup {load} ELSE loads
  <2>1. \/ toHost'[m] = toHost[m]
        \/ \E b \in CommandType : toHost'[m] = Append(toHost[m], b) /\ OtherAsks(s, b)'
    <3>1. toHost'[m] = toHost[m] \/ toHost'[m] = Append(toHost[m], yes)
      BY <1>4, <1>6, <1>3, <1>9, <1>14, HandlerMoves
    <3>2. OtherAsks(s, yes)'
      BY <1>6 DEF OtherAsks, yes, Command
    <3>3. QED  BY <1>6, <3>1, <3>2
  <2>2. /\ \A x \in Joiner \ {m} : copy'[x] = copy[x]
        /\ m \in Joiner => copy'[m] = kept \cup {new}
    BY <1>14, CopiesElsewhere
  <2>3. m \in Joiner => \A y \in copy'[m] : \/ \E z \in copy[m] : y.from = z.from /\ y.to = z.to
                                            \/ y.from = s /\ y.to = m
    BY <1>3, <1>7, <1>13, <2>2
  <2>4. m \in Joiner => \A a : Knows(m, a) => Knows(m, a)'
    <3>1. m \in Joiner => \A x \in copy[m] : \E y \in copy'[m] : y.on = x.on
      BY <1>7, <1>13, <2>2
    <3>2. QED  BY <1>13, <3>1 DEF Knows
  <2>5. \A d \in loads' \ loads : d.from = s /\ Made(d.on, d.by) /\ Knows(d.by, d.on)'
    <3>1. ASSUME NEW d \in loads' \ loads PROVE d = load /\ m \in Joiner
      BY <1>14, <3>1 DEF Joiner
    <3>2. m \in Joiner => Knows(m, c)'
      BY <1>7, <1>13, <2>2 DEF Knows
    <3>3. QED  BY <1>3, <1>8, <3>1, <3>2
  <2>6. loads \subseteq loads'
    BY <1>14
  <2>7. HandlesAside(s, m)
    BY <1>2, <1>3, <1>10, <1>11, <2>1, <2>2, <2>3, <2>4, <2>5, <2>6 DEF HandlesAside
  <2>8. QED  BY <1>3, <2>7, OtherHandler
<1>15. CASE /\ Acts(m, k, <<no>>)
            /\ Copies(m, IF Writes(k) THEN kept ELSE kept \cup {new})
            /\ IF Writes(k) THEN Becomes(q, c, "refused") ELSE UNCHANGED offers
            /\ UNCHANGED loads
  <2>1. Writes(k) => Settled(s, c)'
    BY <1>3, <1>9, <1>12, <1>15, BecomesSettled
  <2>2. \/ toHost'[m] = toHost[m]
        \/ \E b \in CommandType : toHost'[m] = Append(toHost[m], b) /\ OtherAsks(s, b)'
    <3>1. toHost'[m] = toHost[m] \/ (Writes(k) /\ toHost'[m] = Append(toHost[m], no))
      BY <1>4, <1>5, <1>6, <1>3, <1>9, <1>15, HandlerMoves
    <3>2. Writes(k) => OtherAsks(s, no)'
      BY <1>6, <2>1 DEF OtherAsks, no, Command
    <3>3. QED  BY <1>6, <3>1, <3>2
  <2>3. /\ \A x \in Joiner \ {m} : copy'[x] = copy[x]
        /\ m \in Joiner => copy'[m] = IF Writes(k) THEN kept ELSE kept \cup {new}
    BY <1>15, CopiesElsewhere
  <2>4. m \in Joiner => \A y \in copy'[m] : \/ \E z \in copy[m] : y.from = z.from /\ y.to = z.to
                                            \/ y.from = s /\ y.to = m
    BY <1>3, <1>7, <1>13, <2>3
  <2>5. m \in Joiner => \A a : Knows(m, a) => Knows(m, a)' \/ Settled(s, a)'
    <3>1. m \in Joiner => \A x \in copy[m] :
                            (\E y \in copy'[m] : y.on = x.on) \/ (x.on = c /\ Writes(k))
      BY <1>7, <1>13, <2>3
    <3>2. QED  BY <1>13, <2>1, <3>1 DEF Knows
  <2>6. loads' = loads
    BY <1>15
  <2>7. HandlesAside(s, m)
    BY <1>2, <1>3, <1>10, <1>11, <2>2, <2>3, <2>4, <2>5, <2>6 DEF HandlesAside
  <2>8. QED  BY <1>3, <2>7, OtherHandler
<1>16. QED  BY <1>2, <1>14, <1>15

-----------------------------------------------------------------------------
(* The others' snapshots, and how programs end.                            *)

\* Who sends nothing offers nothing.
LEMMA OthersOfferNothing ==
  ASSUME Typed, NEW s \in MemberId, LoneInv(s), NEW m \in MemberId \ {s}, mode[m] \notin Sender,
         ReadsMembers(m)
  PROVE  LoneInv(s)'
<1> DEFINE k == Finishing(m, Closing(m, Offering(ctl[m], Addressed(m))))
<1>1. /\ TakesFromHost(m, {"member_snapshot", "member_joined"})
      /\ Acts(m, k, Opens(m))
      /\ offers' = IF Writes(ctl[m])
                   THEN offers \cup {[from |-> m, to |-> x.to, on |-> x.on, as |-> "open"]
                                     : x \in Entries(m)}
                   ELSE offers
      /\ IF Writes(ctl[m]) /\ m # Host
         THEN /\ Copies(m, WithEntries(copy[m], Entries(m)))
              /\ hashing' = hashing \cup {<<m, x.on>> : x \in Entries(m)}
         ELSE UNCHANGED <<copy, hashing>>
      /\ UNCHANGED <<vars, mode, loads, faults>>
  BY ReadsMembersEffect DEF Typed
<1>2. /\ ctl[m] \in Controller /\ Kept(m, ctl[m])
      /\ Addressed(m) \subseteq MemberId \ ({m} \cup ctl[m].sent)
      /\ \A x \in Entries(m) : x.to \in Addressed(m)
  BY <1>1, EntriesMade DEF Typed
<1>3. Addressed(m) = {}
  BY DEF Addressed, Targets
<1>4. Entries(m) = {}
  BY <1>2, <1>3
<1>5. Opens(m) = <<>>
  <2>1. Opens(m) \in Seq(CommandType) /\ Len(Opens(m)) = 0
    BY <1>2, <1>3, OpeningCommands, FS_EmptySet DEF Opens
  <2>2. QED  BY <2>1, EmptySeq
<1>6. k \in Controller /\ k.run # "absent"
  <2>1. /\ Offering(ctl[m], Addressed(m)) \in Controller
        /\ Kept(m, Offering(ctl[m], Addressed(m)))
        /\ Offering(ctl[m], Addressed(m)).run = ctl[m].run
    BY <1>2, OfferingKept
  <2>2. PICK l \in Controller : l = Closing(m, Offering(ctl[m], Addressed(m)))
    BY <2>1, ClosingKept
  <2>3. Kept(m, l) /\ l.run = ctl[m].run
    BY <2>1, <2>2, ClosingKept
  <2>4. k \in Controller /\ (k.run = l.run \/ k.run = "grace")
    BY <2>2, <2>3, FinishingKept
  <2>5. QED  BY <1>1, <2>3, <2>4 DEF TakesFromHost, Reads
<1> HIDE DEF k
<1>7. /\ Reads(m) /\ Up(m) /\ Shortens(fromHost[m], fromHost'[m]) /\ own' = own
      /\ \A x \in MemberId \ {m} : fromHost'[x] = fromHost[x]
  BY <1>1, HeardHead DEF Typed, LoneInv, TakesFromHost
<1>8. offers' = offers /\ hashing' = hashing
  BY <1>1, <1>4
<1>9. \A x \in Joiner : copy'[x] = copy[x]
  <2>1. CASE Writes(ctl[m]) /\ m # Host
    <3>1. WithEntries(copy[m], {}) = copy[m]
      BY DEF WithEntries
    <3>2. m \in Joiner /\ Copies(m, copy[m])
      BY <1>1, <1>4, <2>1, <3>1 DEF Joiner
    <3>3. QED  BY <3>2 DEF Copies
  <2>2. CASE ~(Writes(ctl[m]) /\ m # Host)
    BY <1>1, <2>2
  <2>3. QED  BY <2>1, <2>2
<1>10. TakesNote(m)
  BY <1>1, <1>7, <1>8, <1>9 DEF TakesNote, Shortens, transfers
<1>11. KeepsCopy(s, m)
  <2>1. m \in Joiner => \A d \in loads : Knows(m, d.on) => Knows(m, d.on)'
    BY <1>9, OwnCopied DEF Knows
  <2>2. QED  BY <1>9, <2>1 DEF KeepsCopy
<1>12. Acts(m, k, <<>>)
  BY <1>1, <1>5
<1>13. QED  BY <1>6, <1>7, <1>10, <1>11, <1>12, OtherListener

LEMMA LoneReadsClosed ==
  ASSUME Typed, NEW s \in MemberId, LoneInv(s), NEW m \in MemberId, ReadsClosed(m)
  PROVE  LoneInv(s)'
<1>1. /\ Up(m) /\ Ends(m) /\ UNCHANGED vars
      /\ fromHost' = [fromHost EXCEPT ![m] = <<>>] /\ toHost' = [toHost EXCEPT ![m] = <<>>]
  BY DEF ReadsClosed
<1>2. m < nextMemberIndex
  BY <1>1, UpIsIn DEF LoneInv, Typed, Up
<1>3. ComesToAnEnd(m)
  BY <1>1, <1>2 DEF ComesToAnEnd, Typed, QueuesTyped
<1>4. QED  BY <1>3, EndsStep

\* The members that are told of a leave are told of that member.
LEMMA LeaversKnown ==
  ASSUME Typed, NEW m \in MemberId, NEW S,
         fromHost' = [q \in MemberId |->
           IF q = m THEN <<>>
           ELSE IF q \in S THEN Append(fromHost[q], Event0("member_left", m, NoChannel))
           ELSE fromHost[q]]
  PROVE  \A x \in MemberId :
           \/ fromHost'[x] = fromHost[x] \/ fromHost'[x] = <<>>
           \/ \E e \in EventType : /\ fromHost'[x] = Append(fromHost[x], e)
                                   /\ e.type = "room_closed" \/ (e.type = "member_left" /\ e.by = m)
<1> DEFINE e == Event0("member_left", m, NoChannel)
<1>1. e \in EventType /\ e.type = "member_left" /\ e.by = m
  BY DEF Event0, EventType
<1> HIDE DEF e
<1>2. QED  BY <1>1 DEF e

LEMMA LoneCrash ==
  ASSUME Typed, NEW s \in MemberId, LoneInv(s), NEW j \in Joiner, Crash(j)
  PROVE  LoneInv(s)'
<1>1. j \in MemberId
  BY MemberNumbers
<1>2. Up(j) /\ Ends(j) /\ Leave(j) /\ toHost' = [toHost EXCEPT ![j] = <<>>]
  BY DEF Crash
<1>3. j < nextMemberIndex
  BY <1>1, <1>2, UpIsIn DEF LoneInv, Typed, Up
<1>4. \A x \in MemberId :
        \/ fromHost'[x] = fromHost[x] \/ fromHost'[x] = <<>>
        \/ \E e \in EventType : /\ fromHost'[x] = Append(fromHost[x], e)
                                /\ e.type = "room_closed" \/ (e.type = "member_left" /\ e.by = j)
  BY <1>1, LeaversKnown DEF Crash
<1>5. ComesToAnEnd(j)
  BY <1>1, <1>2, <1>3, <1>4 DEF ComesToAnEnd, Typed, QueuesTyped
<1>6. QED  BY <1>1, <1>5, EndsStep

LEMMA LoneTakesLeave ==
  ASSUME Typed, NEW s \in MemberId, LoneInv(s), NEW m \in MemberId, toHost[m] # <<>>,
         toHost' = [toHost EXCEPT ![m] = <<>>], HostTakesLeave(m)
  PROVE  LoneInv(s)'
<1>1. m < nextMemberIndex
  BY AskingIsIn DEF LoneInv, Typed
<1>2. Ends(m) /\ (UNCHANGED vars \/ Leave(m))
  BY DEF HostTakesLeave
<1>3. \A x \in MemberId :
        \/ fromHost'[x] = fromHost[x] \/ fromHost'[x] = <<>>
        \/ \E e \in EventType : /\ fromHost'[x] = Append(fromHost[x], e)
                                /\ e.type = "room_closed" \/ (e.type = "member_left" /\ e.by = m)
  <2>1. CASE m = Host
    <3> DEFINE e == Event0("room_closed", Host, NoChannel)
    <3>1. e \in EventType /\ e.type = "room_closed"
      BY MemberNumbers DEF Event0, EventType
    <3>2. fromHost' = [q \in MemberId |->
            IF q \in members \ {Host} THEN Append(fromHost[q], e) ELSE <<>>]
      BY <2>1 DEF HostTakesLeave
    <3> HIDE DEF e
    <3>3. QED  BY <3>1, <3>2
  <2>2. CASE m # Host
    BY <2>2, LeaversKnown DEF HostTakesLeave
  <2>3. QED  BY <2>1, <2>2
<1>4. ComesToAnEnd(m)
  BY <1>1, <1>2, <1>3 DEF ComesToAnEnd, Typed, QueuesTyped
<1>5. QED  BY <1>4, EndsStep

\* The sleep is over: whoever has nothing left to send asks to leave.
LEMMA LoneGraceEnds ==
  ASSUME Typed, NEW s \in MemberId, LoneInv(s), NEW m \in MemberId, GraceEnds(m)
  PROVE  LoneInv(s)'
<1> DEFINE e == Command("leave", NoChannel, All)
           k == [ctl[m] EXCEPT !.run = "leaving"]
<1>1. /\ ctl[m].run = "grace" /\ Acts(m, k, <<e>>)
      /\ UNCHANGED <<vars, mode, fromHost, own, copy, transfers, faults>>
  BY DEF GraceEnds
<1>2. e \in CommandType /\ e.type = "leave"
  BY DEF Command, CommandType
<1>3. /\ ctl[m] \in Controller /\ k \in Controller /\ k.run = "leaving"
      /\ k.next = ctl[m].next
  BY DEF Typed, ControllersTyped, Controller, Run
<1>4. Comings /\ Up(m) /\ Writes(ctl[m])
  BY <1>1 DEF LoneInv, Up, Writes
<1> HIDE DEF e, k
<1>5. Moves(m) /\ ctl'[m] = k /\ toHost'[m] = Append(toHost[m], e)
  BY <1>1, <1>2, <1>3, <1>4, HandlerMoves
<1>6. TakesNote(m)
  BY <1>1 DEF TakesNote, Shortens
<1>7. CASE m = s
  <2>1. Parting(s)' /\ ~Writes(ctl[s])'
    BY <1>3, <1>5, <1>7 DEF Parting, Writes
  <2>2. HandlesOwn(s)
    BY <1>2, <1>3, <1>5, <1>6, <1>7, <2>1 DEF HandlesOwn, TakesNote, transfers
  <2>3. QED  BY <2>2, OwnHandler
<1>8. CASE m # s
  <2>1. \A d \in loads : Knows(m, d.on) => Knows(m, d.on)'
    BY <1>1 DEF Knows, vars
  <2>2. KeepsCopy(s, m)
    BY <1>1, <2>1 DEF KeepsCopy
  <2>3. Acts(m, k, <<Command("leave", NoChannel, All)>>)
    BY <1>1 DEF e
  <2>4. QED  BY <1>3, <1>4, <1>6, <1>8, <2>2, <2>3, OtherListener
<1>9. QED  BY <1>7, <1>8

-----------------------------------------------------------------------------
(* The engine's answers.                                                   *)

\* Everybody who is told anything in this step may be told it.
Heard(s) ==
  \A x \in MemberId :
    \/ fromHost'[x] = fromHost[x]
    \/ \E e \in EventType : fromHost'[x] = Append(fromHost[x], e) /\ Hears(s, x, e)'

LEMMA Deliveries ==
  ASSUME Typed, NEW s \in MemberId, NEW m \in MemberId,
         NEW t \in {"channel_opened", "channel_accepted", "channel_rejected",
                    "channel_closed", "channel_transfer"},
         NEW b \in MemberId, NEW c \in ChannelId,
         reply'.event = t, reply'.by = b, reply'.on = c, Delivered(m),
         \A x \in MemberId : x \in reply'.to => Hears(s, x, Event0(t, b, c))',
         ~reply'.ok => Hears(s, m, Event0("error", m, c))'
  PROVE  Heard(s)
<1> DEFINE e == Event0(t, b, c)
           err == Event0("error", m, c)
<1>1. e \in EventType /\ err \in EventType
  BY RoomEvents
<1>2. fromHost' = [q \in MemberId |->
        IF q \in reply'.to THEN Append(fromHost[q], e)
        ELSE IF q = m /\ ~reply'.ok THEN Append(fromHost[q], err)
        ELSE fromHost[q]]
  BY DEF Delivered
<1>3. /\ \A x \in MemberId : x \in reply'.to => Hears(s, x, e)'
      /\ ~reply'.ok => Hears(s, m, err)'
  OBVIOUS
<1> HIDE DEF e, err
<1>4. QED  BY <1>1, <1>2, <1>3 DEF Heard

\* What may be told of a channel that nothing is known of.
LEMMA HearsOf ==
  ASSUME NEW s, NEW x, NEW b, NEW c
  PROVE  /\ \A t \in {"channel_accepted", "channel_transfer"} : Hears(s, x, Event0(t, b, c))'
         /\ x # s => Hears(s, x, Event0("error", b, c))'
         /\ Settled(s, c)' => \A t \in {"channel_rejected", "channel_closed", "error"} :
                                Hears(s, x, Event0(t, b, c))'
BY DEF Hears, Event0

\* What is asked of the host, and by whom.
Asks(s, m, e) ==
  /\ toHost[m] # <<>> /\ e = Head(toHost[m])
  /\ IF m = s THEN SenderAsks(s, e) ELSE OtherAsks(s, e)
  /\ toHost' = [toHost EXCEPT ![m] = Tail(toHost[m])]
  /\ UNCHANGED <<mode, ctl, own, copy>>

LEMMA AskingGrows ==
  ASSUME Typed, NEW s \in MemberId, NEW m, NEW e, Asks(s, m, e), SameOffers
  PROVE  Grows(s) /\ Given(s)' = Given(s)
<1>1. Given(s)' = Given(s) /\ \A q \in MemberId : Gone(q) => Gone(q)'
  BY DEF Given, Gone, Asks
<1>2. QED  BY <1>1, GrowsSame DEF Typed, TransfersTyped

LEMMA LoneTakesOpen ==
  ASSUME Typed, NEW s \in MemberId, LoneInv(s), NEW m \in MemberId, NEW e \in CommandType,
         Asks(s, m, e), e.type = "open",
         OpenChannel(m, e.on, "file", e.to, "provisional"),
         hashing' = IF m = Host /\ reply'.ok THEN hashing \cup {<<m, e.on>>} ELSE hashing,
         IF reply'.ok THEN UNCHANGED offers ELSE Becomes(m, e.on, "refused"),
         Delivered(m), UNCHANGED loads
  PROVE  LoneInv(s)'
<1>1. /\ m = s /\ Made(e.on, e.to)
  BY DEF Asks, SenderAsks, OtherAsks
<1>2. PICK c \in ChannelId, to \in MemberId : c = e.on /\ to = e.to
  BY CommandForms
<1>3. /\ Comings /\ Counted(s) /\ Hosted(s) /\ offers \subseteq OfferType
      /\ Made(c, to) /\ to # s /\ c \in Given(s)
  BY <1>1, <1>2 DEF LoneInv, Typed, TransfersTyped, Made, Counted
<1>4. SameOffers
  BY <1>2, <1>3, OffersSame
<1>5. Grows(s) /\ Given(s)' = Given(s)
  BY <1>4, AskingGrows
<1>6. reply'.event = "channel_opened" /\ reply'.by = s /\ reply'.on = c
  BY <1>1, <1>2, Answers
<1>7. CASE reply'.ok
  <2>1. /\ channels' = [d \in DOMAIN channels \cup {c} |->
              IF d = c
              THEN [opener |-> s, kind |-> "file", participants |-> Audience(s, to),
                    transfer |-> "provisional"]
              ELSE channels[d]]
        /\ reply'.to = Audience(s, to) \ {s} /\ c \notin DOMAIN channels
        /\ UNCHANGED <<members, nextMemberIndex>>
    BY <1>1, <1>2, <1>7 DEF OpenChannel, Refused, Routed
  <2>2. Audience(s, to) = {s, to}
    BY MemberNumbers DEF Audience
  <2>3. Made(c, to)' /\ offers' = offers
    BY <1>3, <1>5, <1>7 DEF Grows
  <2>4. Heard(s)
    <3>1. ASSUME NEW x \in MemberId, x \in reply'.to
          PROVE  Hears(s, x, Event0("channel_opened", s, c))'
      <4>1. x = to
        BY <2>1, <2>2, <3>1
      <4>2. QED  BY <1>3, <2>3, <4>1 DEF Hears, Event0
    <3>2. QED  BY <1>1, <1>6, <1>7, <3>1, Deliveries
  <2>5. Hosted(s)'
    <3>1. ASSUME NEW d \in DOMAIN channels' PROVE Between(s, d)'
      <4>1. CASE d = c
        BY <2>1, <2>2, <2>3, <4>1 DEF Between
      <4>2. CASE d # c
        <5>1. d \in DOMAIN channels /\ channels'[d] = channels[d]
          BY <2>1, <3>1, <4>2
        <5>2. Between(s, d)
          BY <1>3, <5>1 DEF Hosted
        <5>3. QED  BY <1>5, <5>1, <5>2 DEF Between, Grows
      <4>3. QED  BY <4>1, <4>2
    <3>2. QED  BY <3>1 DEF Hosted, Between
  <2>6. DOMAIN channels \subseteq DOMAIN channels' /\ c \in DOMAIN channels'
    BY <2>1
  <2>7. \A h \in hashing' : h \in hashing \/ (h[1] = s /\ h[2] \in Given(s))
    BY <1>1, <1>2, <1>3
  <2>8. HostTakes(s, m)
    BY <1>1, <1>2, <1>4, <2>1, <2>4, <2>5, <2>6, <2>7 DEF HostTakes, Asks, Heard
  <2>9. QED  BY <2>8, EngineStep
<1>8. CASE ~reply'.ok
  <2>1. UNCHANGED <<members, channels, nextMemberIndex>> /\ reply'.to = {}
    BY <1>8 DEF OpenChannel, Routed, Refused, room
  <2>2. Settled(s, c)'
    BY <1>1, <1>2, <1>3, <1>5, <1>8, BecomesSettled
  <2>3. Heard(s)
    <3>1. Hears(s, s, Event0("error", s, c))'
      BY <2>2, HearsOf
    <3>2. QED  BY <1>1, <1>6, <2>1, <3>1, Deliveries
  <2>4. Hosted(s)'
    BY <1>3, <1>5, <2>1, HostedKept
  <2>5. \A h \in hashing' : h \in hashing
    BY <1>8
  <2>6. HostTakes(s, m)
    BY <1>1, <1>2, <1>4, <2>1, <2>2, <2>3, <2>4, <2>5 DEF HostTakes, Asks, Heard
  <2>7. QED  BY <2>6, EngineStep
<1>9. QED  BY <1>7, <1>8

LEMMA LoneTakesAccept ==
  ASSUME Typed, NEW s \in MemberId, LoneInv(s), NEW m \in MemberId, NEW e \in CommandType,
         Asks(s, m, e), e.type = "accept", AcceptChannel(m, e.on),
         loads' = IF m = Host /\ reply'.ok
                  THEN loads \cup {[by |-> m, on |-> e.on, stage |-> "asked",
                                    from |-> channels[e.on].opener]}
                  ELSE loads,
         Delivered(m), UNCHANGED <<hashing, offers>>
  PROVE  LoneInv(s)'
<1>1. m # s
  BY DEF Asks, SenderAsks
<1>2. PICK c \in ChannelId : c = e.on
  BY CommandForms
<1>3. Hosted(s) /\ offers \subseteq OfferType
  BY DEF LoneInv, Typed, TransfersTyped
<1>4. SameOffers
  BY <1>3, OffersSame
<1>5. Grows(s)
  BY <1>4, AskingGrows
<1>6. reply'.event = "channel_accepted" /\ reply'.by = m /\ reply'.on = c
  BY <1>2, Answers
<1>7. UNCHANGED <<members, channels, nextMemberIndex>> /\ (reply'.ok => MayUse(m, c))
  BY <1>2 DEF AcceptChannel, Routed, Refused, room
<1>8. Heard(s)
  BY <1>1, <1>6, HearsOf, Deliveries
<1>9. Hosted(s)'
  BY <1>3, <1>5, <1>7, HostedKept
<1>10. \A d \in loads' \ loads : d.from = s /\ Made(d.on, d.by) /\ Knows(d.by, d.on)'
  <2>1. ASSUME NEW d \in loads' \ loads
        PROVE  d.from = s /\ Made(d.on, d.by) /\ Knows(d.by, d.on)'
    <3>1. /\ m = Host /\ reply'.ok
          /\ d.by = Host /\ d.on = c /\ d.from = channels[c].opener
      BY <1>2, <2>1
    <3>2. c \in DOMAIN channels /\ Host \in channels[c].participants
      BY <1>7, <3>1 DEF MayUse
    <3>3. PICK q \in MemberId : Made(c, q) /\ channels[c].participants = {s, q}
      BY <1>3, <3>2 DEF Hosted, Between
    <3>4. q = Host /\ channels[c].opener = s
      BY <1>1, <1>3, <3>1, <3>2, <3>3 DEF Hosted, Between
    <3>5. Knows(d.by, d.on)'
      BY <1>7, <3>1, <3>2 DEF Knows
    <3>6. QED  BY <3>1, <3>3, <3>4, <3>5
  <2>2. QED  BY <2>1
<1>11. loads \subseteq loads'
  OBVIOUS
<1>12. HostTakes(s, m)
  BY <1>1, <1>4, <1>7, <1>8, <1>9, <1>10, <1>11 DEF HostTakes, Asks, Heard
<1>13. QED  BY <1>12, EngineStep

\* A channel of two is gone when one of them quits.
LEMMA QuitEnds ==
  ASSUME NEW s \in MemberId, Hosted(s), Counted(s), NEW m \in MemberId, NEW c, NEW event,
         Quit(event, m, c)
  PROVE  /\ \A d \in DOMAIN channels' : d \in DOMAIN channels /\ channels'[d] = channels[d]
         /\ \A d \in DOMAIN channels : d \in DOMAIN channels' \/ d = c
         /\ UNCHANGED <<members, nextMemberIndex>>
<1>1. CASE MayUse(m, c)
  <2>1. c \in DOMAIN channels /\ m \in channels[c].participants
    BY <1>1 DEF MayUse
  <2>2. PICK q \in MemberId : channels[c].participants = {s, q}
    BY <1>1, <2>1 DEF Hosted, Between
  <2>3. ~HasCompany(channels[c].participants \ {m})
    BY <2>1, <2>2 DEF HasCompany
  <2>4. channels' = [d \in DOMAIN channels \ {c} |-> channels[d]]
    BY <1>1, <2>3 DEF Quit, WithoutParticipant
  <2>5. UNCHANGED <<members, nextMemberIndex>>
    BY <1>1 DEF Quit
  <2>6. QED  BY <2>4, <2>5
<1>2. CASE ~MayUse(m, c)
  BY <1>2 DEF Quit, Refused, room
<1>3. QED  BY <1>1, <1>2

LEMMA LoneTakesQuit ==
  ASSUME Typed, NEW s \in MemberId, LoneInv(s), NEW m \in MemberId, NEW e \in CommandType,
         Asks(s, m, e), e.type \in {"reject", "close"},
         NEW t \in {"channel_rejected", "channel_closed"}, Quit(t, m, e.on),
         Delivered(m) \/ UNCHANGED fromHost, UNCHANGED transfers
  PROVE  LoneInv(s)'
<1>1. PICK c \in ChannelId : c = e.on
  BY CommandForms
<1>2. Settled(s, c)
  BY <1>1 DEF Asks, SenderAsks, OtherAsks
<1>3. Hosted(s) /\ Counted(s) /\ offers \subseteq OfferType /\ UNCHANGED <<hashing, loads, offers>>
  BY DEF LoneInv, Typed, TransfersTyped, transfers
<1>4. SameOffers
  BY <1>3, OffersSame
<1>5. Grows(s) /\ Settled(s, c)'
  BY <1>2, <1>4, AskingGrows DEF Grows
<1>6. reply'.event = t /\ reply'.by = m /\ reply'.on = c
  BY <1>1 DEF Quit, Routed, Refused
<1>7. /\ \A d \in DOMAIN channels' : d \in DOMAIN channels /\ channels'[d] = channels[d]
      /\ \A d \in DOMAIN channels : d \in DOMAIN channels' \/ d = c
      /\ UNCHANGED <<members, nextMemberIndex>>
  BY <1>1, <1>3, QuitEnds
<1>8. Heard(s)
  <2>1. CASE Delivered(m)
    BY <1>5, <1>6, <2>1, HearsOf, Deliveries
  <2>2. QED  BY <2>1 DEF Heard
<1>9. Hosted(s)'
  BY <1>3, <1>5, <1>7, HostedKept
<1>10. \A f \in offers : f.on \in DOMAIN channels => f.on \in DOMAIN channels' \/ Settled(s, f.on)'
  BY <1>5, <1>7
<1>11. \A d : ~(m = s /\ Head(toHost[s]).type = "open" /\ Head(toHost[s]).on = d)
  BY DEF Asks
<1>12. HostTakes(s, m)
  BY <1>3, <1>4, <1>7, <1>8, <1>9, <1>10, <1>11 DEF HostTakes, Asks, Heard
<1>13. QED  BY <1>12, EngineStep

\* A digest is refused only when the offer is settled: its channel is there
\* from the open, which has been taken, to the end of either side.
LEMMA RefusedIsSettled ==
  ASSUME Typed, NEW s \in MemberId, LoneInv(s), NEW e \in CommandType, Asks(s, s, e),
         e.type = "publish", ~(s \in members /\ e.on \in DOMAIN channels)
  PROVE  Settled(s, e.on)
<1>1. toHost[s] \in Seq(CommandType) /\ toHost[s] # <<>> /\ e = Head(toHost[s])
  BY DEF Typed, QueuesTyped, Asks
<1>2. e.on \in Given(s)
  BY DEF Asks, SenderAsks
<1>3. CASE s \notin members
  <2>1. ctl[s].run # "absent"
    BY <1>1, AskingIsIn DEF LoneInv, Typed
  <2>2. Gone(s)
    BY <1>3, <2>1 DEF LoneInv, Comings, Up, Gone
  <2>3. QED  BY <1>2, <2>2 DEF Settled
<1>4. ASSUME e.on \notin DOMAIN channels, NEW f \in offers, f.on = e.on
      PROVE  Settled(s, e.on)
  <2>1. \A b \in Items(toHost[s]) : ~(b.type = "open" /\ b.on = e.on)
    <3>1. /\ Len(toHost[s]) \in Nat /\ DOMAIN toHost[s] = 1 .. Len(toHost[s])
          /\ e = toHost[s][1] /\ 1 \in DOMAIN toHost[s]
      <4>1. Len(toHost[s]) \in Nat /\ DOMAIN toHost[s] = 1 .. Len(toHost[s])
        BY <1>1, LenProperties
      <4>2. e = toHost[s][1] /\ Len(toHost[s]) # 0
        BY <1>1, HeadTailProperties, EmptySeq
      <4>3. QED  BY <4>1, <4>2
    <3>2. ASSUME NEW i \in DOMAIN toHost[s], toHost[s][i].type = "open", toHost[s][i].on = e.on
          PROVE  FALSE
      <4>1. i # 1
        BY <3>1, <3>2
      <4>2. 1 < i
        BY <3>1, <4>1
      <4>3. OpensFirst(toHost[s])
        BY DEF LoneInv, Asked
      <4>4. QED  BY <3>1, <3>2, <4>2, <4>3 DEF OpensFirst
    <3>3. QED  BY <3>2 DEF Items
  <2>2. QED  BY <1>4, <2>1 DEF LoneInv, Requested
<1>5. ASSUME ~\E f \in offers : f.on = e.on
      PROVE  Settled(s, e.on)
  BY <1>2, <1>5 DEF Settled, Answered
<1>6. QED  BY <1>3, <1>4, <1>5

LEMMA LoneTakesPublish ==
  ASSUME Typed, NEW s \in MemberId, LoneInv(s), NEW m \in MemberId, NEW e \in CommandType,
         Asks(s, m, e), e.type = "publish", UpdateChannelTransfer(m, e.on, "digest"),
         Delivered(m) \/ UNCHANGED fromHost, UNCHANGED transfers
  PROVE  LoneInv(s)'
<1>1. m = s
  BY DEF Asks, OtherAsks
<1>2. PICK c \in ChannelId : c = e.on
  BY CommandForms
<1>3. /\ IInv /\ Hosted(s) /\ offers \subseteq OfferType /\ UNCHANGED <<hashing, loads, offers>>
  BY DEF LoneInv, Typed, TransfersTyped, transfers
<1>4. SameOffers
  BY <1>3, OffersSame
<1>5. Grows(s)
  BY <1>4, AskingGrows
<1>6. reply'.event = "channel_transfer" /\ reply'.by = s /\ reply'.on = c
  BY <1>1, <1>2, Answers
<1>7. /\ DOMAIN channels' = DOMAIN channels /\ UNCHANGED <<members, nextMemberIndex>>
      /\ \A d \in DOMAIN channels :
           /\ channels'[d].opener = channels[d].opener /\ channels'[d].kind = channels[d].kind
           /\ channels'[d].participants = channels[d].participants
      /\ ~reply'.ok => ~(s \in members /\ c \in DOMAIN channels)
  <2> DEFINE Allowed == /\ s \in members /\ c \in DOMAIN channels
                        /\ channels[c].opener = s /\ channels[c].kind = "file"
  <2>1. CASE Allowed
    <3>1. channels[c] \in Channel
      BY <1>3, <2>1, RoomFacts
    <3>2. /\ channels' = [channels EXCEPT ![c].transfer = "digest"]
          /\ UNCHANGED <<members, nextMemberIndex>> /\ reply'.ok
      BY <1>1, <1>2, <2>1 DEF UpdateChannelTransfer, Routed
    <3>3. QED  BY <3>1, <3>2 DEF Channel
  <2>2. CASE ~Allowed
    <3>1. UNCHANGED <<members, channels, nextMemberIndex>>
      BY <1>1, <1>2, <2>2 DEF UpdateChannelTransfer, Refused, room
    <3>2. ~(s \in members /\ c \in DOMAIN channels)
      BY <1>3, <2>2 DEF Hosted, Between
    <3>3. QED  BY <3>1, <3>2
  <2>3. QED  BY <2>1, <2>2
<1>8. ~reply'.ok => Settled(s, c)'
  <2>1. ~reply'.ok => Settled(s, c)
    BY <1>1, <1>2, <1>7, RefusedIsSettled
  <2>2. QED  BY <1>5, <2>1 DEF Grows
<1>9. Heard(s)
  <2>1. CASE Delivered(m)
    BY <1>1, <1>6, <1>8, <2>1, HearsOf, Deliveries
  <2>2. QED  BY <2>1 DEF Heard
<1>10. Hosted(s)'
  BY <1>3, <1>5, <1>7, HostedKept
<1>11. \A d : ~(m = s /\ Head(toHost[s]).type = "open" /\ Head(toHost[s]).on = d)
  BY <1>1 DEF Asks
<1>12. HostTakes(s, m)
  BY <1>3, <1>4, <1>7, <1>9, <1>10, <1>11 DEF HostTakes, Asks, Heard
<1>13. QED  BY <1>12, EngineStep

LEMMA LoneTakesCommand ==
  ASSUME Typed, NEW s \in MemberId, LoneInv(s), NEW m \in MemberId, HostTakesCommand(m)
  PROVE  LoneInv(s)'
<1>1. toHost[m] \in Seq(CommandType) /\ toHost[m] # <<>>
  BY DEF Typed, QueuesTyped, HostTakesCommand
<1>2. PICK e \in CommandType : e = Head(toHost[m])
  BY <1>1, HeadIsTyped
<1>3. CASE e.type = "leave"
  <2>1. toHost' = [toHost EXCEPT ![m] = <<>>] /\ HostTakesLeave(m)
    BY <1>2, <1>3 DEF HostTakesCommand
  <2>2. QED  BY <1>1, <2>1, LoneTakesLeave
<1>4. CASE e.type # "leave"
  <2>1. Asks(s, m, e)
    <3>1. e \in Items(toHost[m])
      BY <1>1, <1>2, ItemsOf
    <3>2. IF m = s THEN SenderAsks(s, e) ELSE OtherAsks(s, e)
      BY <3>1 DEF LoneInv, Asked
    <3>3. QED  BY <1>2, <1>4, <3>2 DEF HostTakesCommand, Asks
  <2>2. \/ /\ e.type = "open"
           /\ OpenChannel(m, e.on, "file", e.to, "provisional")
           /\ hashing' = IF m = Host /\ reply'.ok THEN hashing \cup {<<m, e.on>>} ELSE hashing
           /\ IF reply'.ok THEN UNCHANGED offers ELSE Becomes(m, e.on, "refused")
           /\ Delivered(m)
           /\ UNCHANGED loads
        \/ /\ e.type = "accept"
           /\ AcceptChannel(m, e.on)
           /\ loads' = IF m = Host /\ reply'.ok
                       THEN loads \cup {[by |-> m, on |-> e.on, stage |-> "asked",
                                         from |-> channels[e.on].opener]}
                       ELSE loads
           /\ Delivered(m)
           /\ UNCHANGED <<hashing, offers>>
        \/ /\ \/ e.type = "reject" /\ Quit("channel_rejected", m, e.on)
              \/ e.type = "close" /\ Quit("channel_closed", m, e.on)
              \/ e.type = "publish" /\ UpdateChannelTransfer(m, e.on, "digest")
           /\ Delivered(m) \/ UNCHANGED fromHost
           /\ UNCHANGED transfers
    BY <1>2, <1>4 DEF HostTakesCommand, RejectChannel, CloseChannel
  <2>3. QED
    BY <2>1, <2>2, LoneTakesOpen, LoneTakesAccept, LoneTakesQuit, LoneTakesPublish
<1>5. QED  BY <1>3, <1>4

-----------------------------------------------------------------------------
(* Newcomers and transfers.                                                *)

LEMMA LoneJoinRoom ==
  ASSUME Typed, NEW s \in MemberId, LoneInv(s), JoinRoom
  PROVE  LoneInv(s)'
<1>1. /\ Comings /\ Counted(s) /\ Asked(s) /\ Told(s) /\ Hosted(s)
      /\ Requested(s) /\ Loading(s) /\ Listing(s) /\ Parting(s)
  BY DEF LoneInv
<1>2. /\ IInv /\ QueuesTyped /\ toHost \in [MemberId -> Seq(CommandType)]
      /\ ctl \in [MemberId -> Controller] /\ offers \subseteq OfferType /\ loads \subseteq LoadType
  BY DEF Typed, ControllersTyped, QueuesTyped, TransfersTyped
<1>3. PICK j \in MemberId : j = nextMemberIndex
  <2>1. nextMemberIndex \in 2 .. MaxMemberIndex + 1 /\ nextMemberIndex <= MaxMemberIndex
    BY <1>2, RoomFacts DEF JoinRoom, Join
  <2>2. QED  BY <2>1, MaxMemberIndexAssumption DEF MemberId
<1>4. /\ members' = members \cup {j} /\ nextMemberIndex' = j + 1 /\ channels' = channels
      /\ ctl' = [ctl EXCEPT ![j] = [ctl[j] EXCEPT !.run = "running"]]
      /\ fromHost' = [q \in MemberId |->
           IF q = j THEN <<Snapshot(j, members')>>
           ELSE IF q \in members THEN Append(fromHost[q], Event0("member_joined", j, NoChannel))
           ELSE fromHost[q]]
      /\ UNCHANGED <<mode, toHost, own, copy, hashing, loads, offers>>
  BY <1>3 DEF JoinRoom, Join, transfers
<1>5. /\ j \in Nat /\ \A q \in MemberId : q \in Nat
  BY MemberNumbers
<1>6. ctl[j] = Fresh("absent")
  BY <1>1, <1>3, <1>5 DEF Comings
<1>7. /\ \A q \in MemberId \ {j} : ctl'[q] = ctl[q]
      /\ ctl'[j].run = "running" /\ ctl'[j].next = ctl[j].next /\ ctl[j].next = 1
  BY <1>2, <1>4, <1>6 DEF Controller, Fresh
<1>8. Given(s)' = Given(s) /\ \A q \in MemberId : Gone(q) => Gone(q)'
  <2>1. ctl[j].run = "absent"
    BY <1>6 DEF Fresh
  <2>2. \A q \in MemberId : ctl'[q].next = ctl[q].next
    BY <1>7
  <2>3. \A q \in MemberId : ctl[q].run = "over" => ctl'[q].run = "over"
    BY <1>7, <2>1
  <2>4. QED  BY <2>2, <2>3 DEF Given, Gone
<1>9. SameOffers
  BY <1>2, <1>4, OffersSame
<1>10. Grows(s)
  BY <1>2, <1>8, <1>9, GrowsSame
<1>11. Comings'
  <2>1. ASSUME NEW q \in MemberId
        PROVE  /\ Up(q)' => q \in members'
               /\ ctl'[q].run = "absent" => q >= nextMemberIndex'
               /\ q >= nextMemberIndex' => ctl'[q] = Fresh("absent") /\ toHost'[q] = <<>>
    <3>1. CASE q = j
      BY <1>4, <1>5, <1>7, <3>1
    <3>2. CASE q # j
      <4>1. ctl'[q] = ctl[q] /\ toHost'[q] = toHost[q] /\ q \in Nat
        BY <1>4, <1>5, <1>7, <3>2
      <4>2. q >= j => q >= j + 1
        BY <1>5, <3>2, <4>1
      <4>3. q >= j + 1 => q >= j
        BY <1>5, <4>1
      <4>4. QED  BY <1>1, <1>3, <1>4, <4>1, <4>2, <4>3 DEF Comings, Up
    <3>3. QED  BY <3>1, <3>2
  <2>2. QED  BY <2>1 DEF Comings
<1>12. Counted(s)'
  BY <1>1, <1>8, <1>9, CountedSame
<1>13. Asked(s)'
  <2>1. \A x \in MemberId : Shortens(toHost[x], toHost'[x])
    BY <1>4 DEF Shortens
  <2>2. QED  BY <1>1, <1>2, <1>10, <2>1, AskedKept
<1>14. \A c : Arrived(c) => Arrived(c)'
  BY <1>4 DEF Arrived
<1>15. Told(s)'
  <2>0. PICK roster \in SUBSET MemberId : roster = members'
    BY <1>2, <1>4, RoomFacts
  <2> DEFINE a == Snapshot(j, roster)
             b == Event0("member_joined", j, NoChannel)
  <2>2. a \in EventType /\ b \in EventType
    <3>1. 1 \in ChannelId
      BY Membership, MaxMemberIndexAssumption
    <3>2. QED  BY <3>1, RoomEvents
  <2>3. \A x : Hears(s, x, a)' /\ Hears(s, x, b)'
    <3>1. a.type = "member_snapshot" /\ b.type = "member_joined"
      BY DEF Snapshot, Event0
    <3> HIDE DEF a, b
    <3>2. QED  BY <3>1 DEF Hears
  <2>4. fromHost' = [q \in MemberId |->
          IF q = j THEN <<a>> ELSE IF q \in members THEN Append(fromHost[q], b)
          ELSE fromHost[q]]
    BY <1>4, <2>0
  <2>5. \A x \in MemberId : \/ fromHost'[x] = fromHost[x] \/ fromHost'[x] = <<a>>
                            \/ fromHost'[x] = Append(fromHost[x], b)
    <3> HIDE DEF a, b
    <3>1. QED  BY <2>4
  <2>6. ASSUME NEW x \in MemberId
        PROVE  \/ Shortens(fromHost[x], fromHost'[x])
               \/ \E e \in EventType : /\ fromHost'[x] = Append(fromHost[x], e) \/ fromHost'[x] = <<e>>
                                       /\ Hears(s, x, e)'
    <3>1. Hears(s, x, a)' /\ Hears(s, x, b)'
      BY <2>3
    <3> HIDE DEF a, b
    <3>2. QED  BY <2>2, <2>5, <3>1 DEF Shortens
  <2>7. Shortens(own[s], own'[s])
    BY <1>4 DEF Shortens
  <2> HIDE DEF a, b
  <2>8. QED  BY <1>1, <1>2, <1>10, <1>14, <2>6, <2>7, ToldKept
<1>16. Hosted(s)'
  BY <1>1, <1>4, <1>10, HostedKept
<1>17. Requested(s)'
  BY <1>1, <1>4, <1>9, <1>10, RequestedKept
<1>18. Loading(s)'
  <2>1. \A d \in loads : Knows(d.by, d.on) => Knows(d.by, d.on)'
    BY <1>4 DEF Knows
  <2>2. \A d \in loads' : \E b \in loads : d.by = b.by /\ d.on = b.on /\ d.from = b.from
    BY <1>4
  <2>3. \A x \in Joiner \ {s} : \A y \in copy'[x] : \E z \in copy[x] : y.from = z.from /\ y.to = z.to
    BY <1>4
  <2>4. \A h \in hashing' : h \in hashing
    BY <1>4
  <2>5. QED  BY <1>1, <1>10, <2>1, <2>2, <2>3, <2>4, LoadingKept
<1>19. CASE s = j
  <2>1. Given(s) = {}
    BY <1>7, <1>19 DEF Given
  <2>2. offers' = {}
    BY <1>1, <1>4, <2>1 DEF Counted
  <2>3. Listing(s)' /\ Parting(s)'
    BY <1>7, <1>19, <2>2 DEF Listing, Parting
  <2>4. QED
    BY <1>11, <1>12, <1>13, <1>15, <1>16, <1>17, <1>18, <2>3 DEF LoneInv
<1>20. CASE s # j
  <2>1. ctl'[s] = ctl[s]
    BY <1>7, <1>20
  <2>2. Listing(s)'
    BY <1>1, <1>9, <1>10, <1>14, <2>1, ListingKept
  <2>3. Parting(s)'
    BY <1>1, <1>4, <2>1, FinishedKept
  <2>4. QED
    BY <1>11, <1>12, <1>13, <1>15, <1>16, <1>17, <1>18, <2>2, <2>3 DEF LoneInv
<1>21. QED  BY <1>19, <1>20

\* Nothing that is asked before or during a step changes what is given.
LEMMA GivenStays ==
  ASSUME NEW s, UNCHANGED ctl
  PROVE  Given(s)' = Given(s)
BY DEF Given

LEMMA LonePublishes ==
  ASSUME Typed, NEW s \in MemberId, LoneInv(s), NEW h \in hashing, Publishes(h[1], h[2])
  PROVE  LoneInv(s)'
<1>1. h[1] = s /\ h[2] \in Given(s) /\ h[2] \in ChannelId /\ offers \subseteq OfferType
  BY DEF LoneInv, Loading, Typed, TransfersTyped
<1>2. PICK c \in ChannelId : c = h[2]
  BY <1>1
<1> DEFINE e == Command("publish", c, All)
<1>3. e \in CommandType /\ e.type = "publish" /\ e.on = c
  BY Commands DEF Command
<1>4. /\ Up(s) /\ hashing' \subseteq hashing
      /\ toHost' = toHost \/ toHost' = [toHost EXCEPT ![s] = Append(toHost[s], e)]
      /\ UNCHANGED <<vars, mode, ctl, fromHost, own, copy, loads, offers>>
  BY <1>1, <1>2 DEF Publishes
<1>5. Given(s)' = Given(s)
  BY <1>4, GivenStays
<1> HIDE DEF e
<1>6. SenderAsks(s, e)'
  BY <1>1, <1>2, <1>3, <1>5 DEF SenderAsks
<1>7. SameOffers
  BY <1>1, <1>4, OffersSame
<1>8. \A c1 : Arrived(c1) => Arrived(c1)'
  BY <1>4 DEF Arrived
<1>9. Transfers(s)
  BY <1>3, <1>4, <1>6, <1>7, <1>8 DEF Transfers, Typed, QueuesTyped
<1>10. QED  BY <1>9, TransferStep

LEMMA LonePrepareFails ==
  ASSUME Typed, NEW s \in MemberId, LoneInv(s), NEW h \in hashing, PrepareFails(h[1], h[2])
  PROVE  LoneInv(s)'
<1>1. h[1] = s /\ h[2] \in Given(s) /\ h[2] \in ChannelId /\ offers \subseteq OfferType /\ Counted(s)
  BY DEF LoneInv, Loading, Typed, TransfersTyped
<1>2. PICK c \in ChannelId : c = h[2]
  BY <1>1
<1> DEFINE e == Command("close", c, All)
<1>3. e \in CommandType /\ e.type = "close" /\ e.on = c
  BY Commands DEF Command
<1>4. /\ Up(s) /\ hashing' \subseteq hashing
      /\ toHost' = toHost \/ toHost' = [toHost EXCEPT ![s] = Append(toHost[s], e)]
      /\ \A x \in Joiner \ {s} : copy'[x] = copy[x]
      /\ Becomes(s, c, "failed")
      /\ UNCHANGED <<vars, mode, ctl, fromHost, own, loads>>
  BY <1>1, <1>2, CopiesElsewhere DEF PrepareFails
<1>5. Given(s)' = Given(s)
  BY <1>4, GivenStays
<1>6. Settled(s, c)'
  BY <1>1, <1>2, <1>4, <1>5, BecomesSettled
<1> HIDE DEF e
<1>7. SenderAsks(s, e)'
  BY <1>3, <1>6 DEF SenderAsks
<1>8. SameOffers
  BY <1>1, <1>4, OffersSame
<1>9. \A c1 : Arrived(c1) => Arrived(c1)'
  BY <1>4 DEF Arrived
<1>10. Transfers(s)
  BY <1>3, <1>4, <1>7, <1>8, <1>9 DEF Transfers, Typed, QueuesTyped
<1>11. QED  BY <1>10, TransferStep

LEMMA LoneServes ==
  ASSUME Typed, NEW s \in MemberId, LoneInv(s), NEW d \in loads, Serves(d)
  PROVE  LoneInv(s)'
<1>1. d \in LoadType /\ d.from = s /\ offers \subseteq OfferType
  BY DEF LoneInv, Loading, Typed, TransfersTyped
<1> DEFINE served == [d EXCEPT !.stage = "arrived"]
           e == Event0("progress", s, d.on)
<1>2. /\ d.stage = "asked" /\ loads' = (loads \ {d}) \cup {served}
      /\ own' = [own EXCEPT ![s] = Append(own[s], e)]
      /\ UNCHANGED <<vars, mode, ctl, toHost, fromHost, copy, hashing, offers>>
  BY <1>1 DEF Serves
<1>3. /\ served.on = d.on /\ served.by = d.by /\ served.from = d.from
      /\ served.stage = "arrived"
  BY <1>1 DEF LoadType
<1>4. e \in OwnType /\ e.type = "progress" /\ e.on = d.on
  BY <1>1 DEF Event0, OwnType, LoadType
<1> HIDE DEF served, e
<1>5. Arrived(d.on)'
  BY <1>2, <1>3 DEF Arrived
<1>6. Arrived(e.on)'
  <2>1. \E b \in loads' : b.on = e.on /\ b.stage = "arrived"
    BY <1>2, <1>3, <1>4
  <2>2. QED  BY <2>1 DEF Arrived, e, Event0
<1>7. \A c : Arrived(c) => Arrived(c)'
  BY <1>2 DEF Arrived
<1>8. SameOffers
  BY <1>1, <1>2, OffersSame
<1>9. own'[s] = Append(own[s], e)
  BY <1>2 DEF Typed, QueuesTyped
<1>10. \A b \in loads' : \E a \in loads : b.by = a.by /\ b.on = a.on /\ b.from = a.from
  BY <1>2, <1>3
<1>11. Transfers(s)
  BY <1>2, <1>4, <1>6, <1>7, <1>8, <1>9, <1>10 DEF Transfers
<1>12. QED  BY <1>11, TransferStep

\* A download that is over settles its offer.
LEMMA LoneLoadOver ==
  ASSUME Typed, NEW s \in MemberId, LoneInv(s), NEW d \in loads, loads' = loads \ {d},
         NEW b, own' = [own EXCEPT ![d.by] = b],
         NEW as \in {"saved", "failed"}, Becomes(d.from, d.on, as),
         UNCHANGED <<vars, mode, ctl, toHost, fromHost, copy, hashing>>
  PROVE  LoneInv(s)'
<1>1. /\ d.from = s /\ Made(d.on, d.by) /\ offers \subseteq OfferType /\ Counted(s)
      /\ d \in LoadType
  BY DEF LoneInv, Loading, Typed, TransfersTyped
<1>2. d.by # s /\ d.on \in Given(s)
  BY <1>1 DEF Made, Counted
<1>3. PICK c \in ChannelId : c = d.on
  BY <1>1 DEF LoadType
<1>4. Given(s)' = Given(s)
  BY GivenStays
<1>5. Settled(s, c)'
  BY <1>1, <1>2, <1>3, <1>4, BecomesSettled
<1>6. SameOffers
  BY <1>1, <1>3, OffersSame
<1>7. \A a : Arrived(a) => Arrived(a)' \/ a = c
  BY <1>3 DEF Arrived
<1>8. own'[s] = own[s]
  BY <1>2 DEF Typed, QueuesTyped
<1>9. Transfers(s)
  BY <1>5, <1>6, <1>7, <1>8 DEF Transfers
<1>10. QED  BY <1>9, TransferStep

LEMMA LoneLoadSteps ==
  ASSUME Typed, NEW s \in MemberId, LoneInv(s), NEW d \in loads,
         Saves(d) \/ LoadFails(d) \/ LoadDies(d)
  PROVE  LoneInv(s)'
<1>1. CASE Saves(d)
  BY <1>1, LoneLoadOver DEF Saves
<1>2. CASE Fails(d)
  BY <1>2, LoneLoadOver DEF Fails
<1>3. QED  BY <1>1, <1>2 DEF LoadFails, LoadDies

-----------------------------------------------------------------------------
(* The lone sender's own offers.                                           *)

LEMMA ItemsOfBoth ==
  ASSUME NEW V, NEW q \in Seq(V), NEW r \in Seq(V)
  PROVE  /\ Items(q \o r) = Items(q) \cup Items(r)
         /\ Len(q) \in Nat /\ Len(r) \in Nat /\ DOMAIN (q \o r) = 1 .. Len(q) + Len(r)
         /\ \A i \in 1 .. Len(q) + Len(r) :
              IF i <= Len(q) THEN (q \o r)[i] = q[i] ELSE (q \o r)[i] = r[i - Len(q)]
<1>1. /\ Len(q) \in Nat /\ Len(r) \in Nat
      /\ DOMAIN q = 1 .. Len(q) /\ DOMAIN r = 1 .. Len(r)
  BY LenProperties
<1>2. /\ DOMAIN (q \o r) = 1 .. Len(q) + Len(r)
      /\ \A i \in 1 .. Len(q) + Len(r) :
           IF i <= Len(q) THEN (q \o r)[i] = q[i] ELSE (q \o r)[i] = r[i - Len(q)]
  <2>1. /\ q \o r \in Seq(V) /\ Len(q \o r) = Len(q) + Len(r)
        /\ \A i \in 1 .. Len(q) + Len(r) :
             (q \o r)[i] = IF i <= Len(q) THEN q[i] ELSE r[i - Len(q)]
    BY ConcatProperties
  <2>2. DOMAIN (q \o r) = 1 .. Len(q \o r)
    BY <2>1, LenProperties
  <2>3. QED  BY <2>1, <2>2
<1>3. ASSUME NEW i \in 1 .. Len(q) + Len(r) PROVE (q \o r)[i] \in Items(q) \cup Items(r)
  <2>1. CASE i <= Len(q)
    BY <1>1, <1>2, <2>1 DEF Items
  <2>2. CASE ~(i <= Len(q))
    <3>1. i - Len(q) \in 1 .. Len(r)
      BY <1>1, <2>2
    <3>2. QED  BY <1>1, <1>2, <2>2, <3>1 DEF Items
  <2>3. QED  BY <2>1, <2>2
<1>4. ASSUME NEW i \in 1 .. Len(q) PROVE q[i] \in Items(q \o r)
  <2>1. i \in 1 .. Len(q) + Len(r) /\ i <= Len(q)
    BY <1>1
  <2>2. QED  BY <1>2, <2>1 DEF Items
<1>5. ASSUME NEW i \in 1 .. Len(r) PROVE r[i] \in Items(q \o r)
  <2>1. /\ i + Len(q) \in 1 .. Len(q) + Len(r) /\ ~(i + Len(q) <= Len(q))
        /\ (i + Len(q)) - Len(q) = i
    BY <1>1
  <2>2. (q \o r)[i + Len(q)] = r[i]
    BY <1>2, <2>1
  <2>3. QED  BY <1>2, <2>1, <2>2 DEF Items
<1>6. Items(q \o r) \subseteq Items(q) \cup Items(r)
  BY <1>2, <1>3 DEF Items
<1>7. Items(q) \subseteq Items(q \o r) /\ Items(r) \subseteq Items(q \o r)
  BY <1>1, <1>4, <1>5 DEF Items
<1>8. QED  BY <1>1, <1>2, <1>6, <1>7

\* The n members of ts get the numbers id from a on, and o asks for their channels.
Numbering(ts, id, o, a, n) ==
  /\ a \in Nat \ {0} /\ n \in Nat
  /\ id \in [ts -> a .. a + n - 1] /\ \A x, y \in ts : id[x] = id[y] => x = y
  /\ o \in Seq(CommandType) /\ Len(o) = n
  /\ \A i \in 1 .. n : /\ o[i].type = "open" /\ o[i].to \in ts
                       /\ o[i].on = a + i - 1 /\ o[i].on = id[o[i].to]
  /\ \A x \in ts : \E i \in 1 .. n : o[i].on = id[x]

\* s offers its payload to them.
MakesOffers(s, ts, id, o, a, n) ==
  /\ ts \subseteq MemberId \ {s} /\ Numbering(ts, id, o, a, n)
  /\ Moves(s) /\ Writes(ctl[s]) /\ ctl[s].next = a /\ ctl'[s].next = a + n
  /\ \A ch \in ctl[s].chans : ch.on \in 1 .. a - 1 => ch \in ctl'[s].chans
  /\ \A x \in ts : [on |-> id[x], dir |-> "out", peer |-> x] \in ctl'[s].chans
  /\ Parting(s)'
  /\ toHost'[s] = toHost[s] \o o
  /\ offers' = offers \cup {[from |-> s, to |-> x, on |-> id[x], as |-> "open"] : x \in ts}
  /\ hashing' \subseteq hashing \cup {<<s, id[x]>> : x \in ts}
  /\ \A x \in Joiner \ {s} : copy'[x] = copy[x]
  /\ Shortens(fromHost[s], fromHost'[s]) /\ own'[s] = own[s]
  /\ \A x \in MemberId \ {s} : fromHost'[x] = fromHost[x]
  /\ UNCHANGED <<vars, mode, loads>>

\* The numbers are new.
LEMMA NewNumbers ==
  ASSUME NEW s \in MemberId, Counted(s), NEW ts, NEW id, NEW o, NEW a, NEW n,
         MakesOffers(s, ts, id, o, a, n)
  PROVE  /\ Given(s) = 1 .. a - 1 /\ Given(s)' = 1 .. a + n - 1 /\ Given(s) \subseteq Given(s)'
         /\ \A x \in ts : id[x] \notin Given(s) /\ id[x] \in Given(s)'
         /\ \A f \in offers : f.on \in Given(s)
         /\ \A g \in offers' : \/ g \in offers
                               \/ \E x \in ts : /\ g.from = s /\ g.to = x /\ g.on = id[x]
                                                /\ g.as = "open"
         /\ offers \subseteq offers'
         /\ \A x \in ts : \E g \in offers' : g.on = id[x] /\ g.to = x
<1>1. /\ a \in Nat \ {0} /\ n \in Nat /\ \A x \in ts : id[x] \in a .. a + n - 1
      /\ ctl[s].next = a /\ ctl'[s].next = a + n
      /\ offers' = offers \cup {[from |-> s, to |-> x, on |-> id[x], as |-> "open"] : x \in ts}
  BY DEF MakesOffers, Numbering
<1>2. Given(s) = 1 .. a - 1 /\ Given(s)' = 1 .. a + n - 1 /\ Given(s) \subseteq Given(s)'
  <2>1. Given(s) = 1 .. a - 1 /\ Given(s)' = 1 .. (a + n) - 1
    BY <1>1 DEF Given
  <2>2. 1 .. a - 1 \subseteq 1 .. (a + n) - 1
    BY <1>1
  <2>3. Given(s) \subseteq Given(s)'
    <3>1. ASSUME NEW c \in Given(s) PROVE c \in Given(s)'
      BY <1>1 DEF Given
    <3>2. QED  BY <3>1
  <2>4. (a + n) - 1 = a + n - 1
    BY <1>1
  <2>5. QED  BY <2>1, <2>3, <2>4
<1>3. ASSUME NEW x \in ts PROVE id[x] \notin 1 .. a - 1 /\ id[x] \in 1 .. a + n - 1
  BY <1>1
<1>4. \A x \in ts : id[x] \notin Given(s) /\ id[x] \in Given(s)'
  BY <1>2, <1>3
<1>5. \A f \in offers : f.on \in Given(s)
  BY DEF Counted
<1>6. ASSUME NEW x \in ts PROVE \E g \in offers' : g.on = id[x] /\ g.to = x
  <2> DEFINE g == [from |-> s, to |-> x, on |-> id[x], as |-> "open"]
  <2>1. g \in offers' /\ g.on = id[x] /\ g.to = x
    BY <1>1
  <2> HIDE DEF g
  <2>2. QED  BY <2>1
<1>7. \A g \in offers' : \/ g \in offers
                         \/ \E x \in ts : /\ g.from = s /\ g.to = x /\ g.on = id[x]
                                          /\ g.as = "open"
  BY <1>1
<1>8. QED  BY <1>1, <1>2, <1>4, <1>5, <1>6, <1>7

LEMMA NewOffersGrow ==
  ASSUME Typed, NEW s \in MemberId, Counted(s), NEW ts, NEW id, NEW o, NEW a, NEW n,
         MakesOffers(s, ts, id, o, a, n)
  PROVE  Grows(s) /\ Counted(s)'
<1>1. /\ Given(s) \subseteq Given(s)'
      /\ \A x \in ts : id[x] \notin Given(s) /\ id[x] \in Given(s)'
      /\ \A f \in offers : f.on \in Given(s)
      /\ \A g \in offers' : \/ g \in offers
                            \/ \E x \in ts : /\ g.from = s /\ g.to = x /\ g.on = id[x]
                                             /\ g.as = "open"
      /\ offers \subseteq offers'
  BY NewNumbers
<1>2. \A q \in MemberId : Gone(q) => Gone(q)'
  BY DEF MakesOffers, Moves, Gone
<1>3. ASSUME NEW c, Settled(s, c) PROVE Settled(s, c)'
  <2>1. c \in Given(s) /\ c \in Given(s)' /\ (Gone(s) \/ Answered(c))
    BY <1>1, <1>3 DEF Settled
  <2>2. ASSUME Answered(c) PROVE Answered(c)'
    <3>1. ASSUME NEW g \in offers', g.on = c PROVE g.as # "open" \/ Gone(g.to)'
      <4>1. g \in offers
        BY <1>1, <2>1, <3>1
      <4>2. g.to \in MemberId
        BY <4>1 DEF Typed, TransfersTyped, OfferType
      <4>3. g.as # "open" \/ Gone(g.to)
        BY <2>2, <3>1, <4>1 DEF Answered
      <4>4. QED  BY <1>2, <4>2, <4>3
    <3>2. QED  BY <3>1 DEF Answered
  <2>3. QED  BY <1>2, <2>1, <2>2 DEF Settled
<1>4. \A c, q : Made(c, q) => Made(c, q)'
  BY <1>1 DEF Made
<1>5. Grows(s)
  BY <1>1, <1>2, <1>3, <1>4 DEF Grows
<1>6. Counted(s)'
  <2>1. ts \subseteq MemberId \ {s} /\ \A x, y \in ts : id[x] = id[y] => x = y
    BY DEF MakesOffers, Numbering
  <2>2. ASSUME NEW g \in offers' PROVE g.from = s /\ g.to # s /\ g.on \in Given(s)'
    BY <1>1, <2>1 DEF Counted
  <2>3. ASSUME NEW f \in offers', NEW g \in offers', f.on = g.on PROVE f = g
    <3>1. CASE f \in offers /\ g \in offers
      BY <2>3, <3>1 DEF Counted
    <3>2. CASE f \notin offers /\ g \notin offers
      <4>1. offers' = offers \cup {[from |-> s, to |-> x, on |-> id[x], as |-> "open"] : x \in ts}
        BY DEF MakesOffers
      <4>2. PICK x \in ts : f = [from |-> s, to |-> x, on |-> id[x], as |-> "open"]
        BY <3>2, <4>1
      <4>3. PICK y \in ts : g = [from |-> s, to |-> y, on |-> id[y], as |-> "open"]
        BY <3>2, <4>1
      <4>4. QED  BY <2>1, <2>3, <4>2, <4>3
    <3>3. CASE f \in offers /\ g \notin offers
      BY <1>1, <2>3, <3>3
    <3>4. CASE f \notin offers /\ g \in offers
      BY <1>1, <2>3, <3>4
    <3>5. QED  BY <3>1, <3>2, <3>3, <3>4
  <2>4. QED  BY <2>2, <2>3 DEF Counted
<1>7. QED  BY <1>5, <1>6

\* What s asks for now comes after the rest, and no channel of it was asked for before.
LEMMA NewOffersAsked ==
  ASSUME Typed, NEW s \in MemberId, Counted(s), Asked(s), NEW ts, NEW id, NEW o, NEW a, NEW n,
         MakesOffers(s, ts, id, o, a, n)
  PROVE  /\ Asked(s)' /\ Items(toHost[s]) \subseteq Items(toHost'[s])
         /\ \A x \in ts : \E e \in Items(toHost'[s]) : e.type = "open" /\ e.on = id[x]
<1>0. PICK q \in Seq(CommandType) : q = toHost[s]
  BY DEF Typed, QueuesTyped
<1>1. /\ a \in Nat \ {0} /\ n \in Nat /\ o \in Seq(CommandType) /\ Len(o) = n
      /\ \A i \in 1 .. n : /\ o[i].type = "open" /\ o[i].to \in ts
                           /\ o[i].on = a + i - 1 /\ o[i].on = id[o[i].to]
      /\ \A x \in ts : \E i \in 1 .. n : o[i].on = id[x]
      /\ toHost'[s] = q \o o
  BY <1>0 DEF MakesOffers, Numbering
<1>2. /\ Grows(s) /\ Given(s) = 1 .. a - 1
      /\ \A x \in ts : id[x] \notin Given(s) /\ \E g \in offers' : g.on = id[x] /\ g.to = x
      /\ \A f \in offers : f.on \in Given(s)
  BY NewNumbers, NewOffersGrow
<1>3. /\ Items(q \o o) = Items(q) \cup Items(o)
      /\ Len(q) \in Nat /\ DOMAIN (q \o o) = 1 .. Len(q) + n
      /\ \A i \in 1 .. Len(q) + n :
           IF i <= Len(q) THEN (q \o o)[i] = q[i] ELSE (q \o o)[i] = o[i - Len(q)]
  <2>1. /\ Items(q \o o) = Items(q) \cup Items(o)
        /\ Len(q) \in Nat /\ DOMAIN (q \o o) = 1 .. Len(q) + Len(o)
        /\ \A i \in 1 .. Len(q) + Len(o) :
             IF i <= Len(q) THEN (q \o o)[i] = q[i] ELSE (q \o o)[i] = o[i - Len(q)]
    BY <1>1, ItemsOfBoth
  <2>2. Len(o) = n
    BY <1>1
  <2>3. QED  BY <2>1, <2>2
<1>4. DOMAIN o = 1 .. n /\ DOMAIN q = 1 .. Len(q)
  <2>1. DOMAIN o = 1 .. n
    BY <1>1, LenProperties
  <2>2. DOMAIN q = 1 .. Len(q)
    BY LenProperties
  <2>3. QED  BY <2>1, <2>2
<1>5. \A i \in 1 .. n : o[i] \in Items(toHost'[s])
  <2>1. \A i \in 1 .. n : o[i] \in Items(o)
    BY <1>4 DEF Items
  <2>2. \A i \in 1 .. n : o[i] \in Items(q \o o)
    BY <1>3, <2>1
  <2>3. QED  BY <1>1, <2>2
<1>6. \A x \in ts : \E e \in Items(toHost'[s]) : e.type = "open" /\ e.on = id[x]
  BY <1>1, <1>5
<1>7. ASSUME NEW e \in Items(toHost'[s]) PROVE SenderAsks(s, e)'
  <2>1. CASE e \in Items(q)
    <3>1. SenderAsks(s, e)
      BY <1>0, <2>1 DEF Asked
    <3>2. QED  BY <1>2, <3>1, AsksKept
  <2>2. CASE e \in Items(o)
    <3>1. PICK i \in 1 .. n : e = o[i]
      BY <1>4, <2>2 DEF Items
    <3>2. e.type = "open" /\ e.to \in ts /\ e.on = id[e.to]
      BY <1>1, <3>1
    <3>3. Made(e.on, e.to)'
      BY <1>2, <3>2 DEF Made
    <3>4. QED  BY <3>2, <3>3 DEF SenderAsks
  <2>3. QED  BY <1>1, <1>3, <1>7, <2>1, <2>2
<1>8. ASSUME NEW i \in DOMAIN q, NEW j \in 1 .. n PROVE q[i].on # o[j].on
  <2>1. o[j].on \notin Given(s) /\ o[j].on \in ChannelId
    <3>1. o[j].on \notin Given(s) /\ o[j].type = "open"
      BY <1>1, <1>2
    <3>2. o[j] \in CommandType
      BY <1>1, <1>4, ElementOfSeq
    <3>3. QED  BY <3>1, <3>2, CommandForms
  <2>2. SenderAsks(s, q[i])
    BY <1>0 DEF Asked, Items
  <2>3. q[i] \in CommandType
    BY <1>1, <1>4, ElementOfSeq
  <2>4. CASE q[i].type = "leave"
    BY <2>1, <2>3, <2>4, NoChannelAssumption DEF CommandType
  <2>5. CASE q[i].type # "leave"
    <3>1. q[i].on \in Given(s)
      BY <1>2, <2>2, <2>5 DEF SenderAsks, Made, Settled
    <3>2. QED  BY <2>1, <3>1
  <2>6. QED  BY <2>4, <2>5
<1>9. OpensFirst(q \o o)
  <2> SUFFICES ASSUME NEW i \in 1 .. Len(q) + n, NEW j \in 1 .. Len(q) + n, i < j,
                      (q \o o)[j].type = "open"
               PROVE  (q \o o)[i].on # (q \o o)[j].on
    BY <1>3 DEF OpensFirst
  <2>1. CASE j <= Len(q)
    <3>1. i <= Len(q) /\ i \in DOMAIN q /\ j \in DOMAIN q
      BY <1>3, <1>4, <2>1
    <3>2. OpensFirst(q)
      BY <1>0 DEF Asked
    <3>3. QED  BY <1>3, <2>1, <3>1, <3>2 DEF OpensFirst
  <2>2. CASE ~(j <= Len(q)) /\ i <= Len(q)
    <3>1. i \in DOMAIN q /\ j - Len(q) \in 1 .. n
      BY <1>1, <1>3, <1>4, <2>2
    <3>2. QED  BY <1>3, <1>8, <2>2, <3>1
  <2>3. CASE ~(j <= Len(q)) /\ ~(i <= Len(q))
    <3>1. i - Len(q) \in 1 .. n /\ j - Len(q) \in 1 .. n /\ i - Len(q) # j - Len(q)
      BY <1>1, <1>3, <2>3
    <3>2. o[i - Len(q)].on # o[j - Len(q)].on
      BY <1>1, <3>1
    <3>3. QED  BY <1>3, <2>3, <3>2
  <2>4. QED  BY <2>1, <2>2, <2>3
<1>10. ASSUME NEW x \in MemberId \ {s}, NEW e \in Items(toHost'[x]) PROVE OtherAsks(s, e)'
  <2>1. toHost'[x] = toHost[x]
    BY DEF MakesOffers, Moves
  <2>2. OtherAsks(s, e)
    BY <1>10, <2>1 DEF Asked
  <2>3. QED  BY <1>2, <2>2, AsksKept
<1>11. Asked(s)'
  <2>1. OpensFirst(toHost'[s])
    BY <1>1, <1>9
  <2>2. QED  BY <1>7, <1>10, <2>1 DEF Asked, OpensFirst, Items
<1>12. Items(toHost[s]) \subseteq Items(toHost'[s])
  BY <1>0, <1>1, <1>3
<1>13. QED  BY <1>6, <1>11, <1>12

LEMMA LoneOffers ==
  ASSUME Typed, NEW s \in MemberId, LoneInv(s), NEW ts, NEW id, NEW o, NEW a, NEW n,
         MakesOffers(s, ts, id, o, a, n)
  PROVE  LoneInv(s)'
<1>1. /\ Comings /\ Counted(s) /\ Asked(s) /\ Told(s) /\ Hosted(s)
      /\ Requested(s) /\ Loading(s) /\ Listing(s)
  BY DEF LoneInv
<1>2. /\ IInv /\ QueuesTyped /\ toHost \in [MemberId -> Seq(CommandType)]
      /\ offers \subseteq OfferType /\ loads \subseteq LoadType
      /\ UNCHANGED <<members, channels, nextMemberIndex, loads>>
  BY DEF Typed, QueuesTyped, TransfersTyped, MakesOffers, vars
<1>3. /\ Given(s) = 1 .. a - 1
      /\ \A x \in ts : id[x] \notin Given(s) /\ id[x] \in Given(s)'
      /\ \A f \in offers : f.on \in Given(s)
      /\ \A g \in offers' : \/ g \in offers
                            \/ \E x \in ts : /\ g.from = s /\ g.to = x /\ g.on = id[x]
                                             /\ g.as = "open"
  BY <1>1, NewNumbers
<1>4. Grows(s) /\ Counted(s)'
  BY <1>1, NewOffersGrow
<1>5. /\ Asked(s)' /\ Items(toHost[s]) \subseteq Items(toHost'[s])
      /\ \A x \in ts : \E e \in Items(toHost'[s]) : e.type = "open" /\ e.on = id[x]
  BY <1>1, NewOffersAsked
<1>6. Comings'
  BY <1>1, <1>2, ComingsKept DEF MakesOffers
<1>7. \A c : Arrived(c) => Arrived(c)'
  BY <1>2 DEF Arrived
<1>8. Told(s)'
  <2>1. \A x \in MemberId : Shortens(fromHost[x], fromHost'[x])
    BY DEF Shortens, MakesOffers
  <2>2. Shortens(own[s], own'[s])
    BY DEF Shortens, MakesOffers
  <2>3. QED  BY <1>1, <1>2, <1>4, <1>7, <2>1, <2>2, ToldKept
<1>9. Hosted(s)'
  BY <1>1, <1>2, <1>4, HostedKept
<1>10. Requested(s)'
  <2>1. ASSUME NEW g \in offers'
        PROVE  \/ Settled(s, g.on)' \/ g.on \in DOMAIN channels'
               \/ \E e \in Items(toHost'[s]) : e.type = "open" /\ e.on = g.on
    <3>1. CASE g \in offers
      <4>1. \/ Settled(s, g.on) \/ g.on \in DOMAIN channels
            \/ \E e \in Items(toHost[s]) : e.type = "open" /\ e.on = g.on
        BY <1>1, <3>1 DEF Requested
      <4>2. QED  BY <1>2, <1>4, <1>5, <4>1 DEF Grows
    <3>2. CASE g \notin offers
      BY <1>3, <1>5, <2>1, <3>2
    <3>3. QED  BY <3>1, <3>2
  <2>2. QED  BY <2>1 DEF Requested, Items
<1>11. Loading(s)'
  <2>1. ASSUME NEW d \in loads, Knows(d.by, d.on) PROVE Knows(d.by, d.on)'
    <3>1. d.by \in MemberId /\ d.by # s
      BY <1>1, <1>2, OthersLoad DEF LoadType
    <3>2. CASE d.by = Host
      BY <1>2, <2>1, <3>2 DEF Knows
    <3>3. CASE d.by # Host
      <4>1. copy'[d.by] = copy[d.by]
        BY <3>1, <3>3 DEF Joiner, MakesOffers
      <4>2. QED  BY <2>1, <3>3, <4>1 DEF Knows
    <3>4. QED  BY <3>2, <3>3
  <2>2. \A d \in loads' : \E b \in loads : d.by = b.by /\ d.on = b.on /\ d.from = b.from
    BY <1>2
  <2>3. ASSUME NEW h \in hashing' PROVE h \in hashing \/ (h[1] = s /\ h[2] \in Given(s)')
    <3>1. CASE h \in hashing
      BY <3>1
    <3>2. CASE h \notin hashing
      <4>1. PICK x \in ts : h = <<s, id[x]>>
        BY <2>3, <3>2 DEF MakesOffers
      <4>2. QED  BY <1>3, <4>1
    <3>3. QED  BY <3>1, <3>2
  <2>4. \A x \in Joiner \ {s} : \A y \in copy'[x] :
          \E z \in copy[x] : y.from = z.from /\ y.to = z.to
    BY DEF MakesOffers
  <2>5. QED  BY <1>1, <1>4, <2>1, <2>2, <2>3, <2>4, LoadingKept
<1>12. Listing(s)'
  <2>1. ASSUME NEW g \in offers'
        PROVE  Settled(s, g.on)' \/ Arrived(g.on)' \/ Out(g) \in ctl'[s].chans
    <3>1. CASE g \in offers
      <4>1. Settled(s, g.on) \/ Arrived(g.on) \/ Out(g) \in ctl[s].chans
        BY <1>1, <3>1 DEF Listing, MakesOffers
      <4>2. Out(g) \in ctl[s].chans => Out(g) \in ctl'[s].chans
        <5>1. Out(g).on \in 1 .. a - 1
          BY <1>3, <3>1 DEF Out
        <5>2. QED  BY <5>1 DEF MakesOffers
      <4>3. QED  BY <1>4, <1>7, <4>1, <4>2 DEF Grows
    <3>2. CASE g \notin offers
      <4>1. PICK x \in ts : g.to = x /\ g.on = id[x]
        BY <1>3, <2>1, <3>2
      <4>2. [on |-> id[x], dir |-> "out", peer |-> x] \in ctl'[s].chans
        BY <4>1 DEF MakesOffers
      <4>3. QED  BY <4>1, <4>2 DEF Out
    <3>3. QED  BY <3>1, <3>2
  <2>2. QED  BY <2>1 DEF Listing, Out
<1>13. Parting(s)'
  BY DEF MakesOffers
<1>14. QED
  BY <1>4, <1>5, <1>6, <1>8, <1>9, <1>10, <1>11, <1>12, <1>13 DEF LoneInv

\* The lone sender reads a snapshot or of a newcomer.
LEMMA LoneReadsMembers ==
  ASSUME Typed, NEW s \in MemberId, LoneInv(s), mode[s] \in Sender, ReadsMembers(s)
  PROVE  LoneInv(s)'
<1>1. /\ TakesFromHost(s, {"member_snapshot", "member_joined"})
      /\ Acts(s, Finishing(s, Closing(s, Offering(ctl[s], Addressed(s)))), Opens(s))
      /\ offers' = IF Writes(ctl[s])
                   THEN offers \cup {[from |-> s, to |-> x.to, on |-> x.on, as |-> "open"]
                                     : x \in Entries(s)}
                   ELSE offers
      /\ IF Writes(ctl[s]) /\ s # Host
         THEN /\ Copies(s, WithEntries(copy[s], Entries(s)))
              /\ hashing' = hashing \cup {<<s, x.on>> : x \in Entries(s)}
         ELSE UNCHANGED <<copy, hashing>>
      /\ UNCHANGED <<vars, mode, loads, faults>>
  BY ReadsMembersEffect DEF Typed
<1>2. PICK k \in Controller, ts \in SUBSET MemberId :
        k = ctl[s] /\ ts = Addressed(s) /\ Kept(s, k) /\ ts \subseteq MemberId \ ({s} \cup k.sent)
  BY <1>1, EntriesMade DEF Typed
<1>3. /\ \A x \in Entries(s) : x.from = s /\ x.to \in ts /\ x.on = OfferId(k, ts, x.to)
      /\ \A q \in ts : \E x \in Entries(s) : x.to = q /\ x.on = OfferId(k, ts, q)
  BY <1>1, <1>2, EntriesMade DEF Typed
<1>4. PICK n \in Nat, a \in Nat \ {0} : n = Cardinality(ts) /\ a = k.next /\ Numbers(k, ts)
  <2>1. Numbers(k, ts)
    BY <1>2, Offered
  <2>2. QED  BY <2>1 DEF Numbers
<1>5. PICK id \in [ts -> a .. a + n - 1] : \A x \in ts : id[x] = OfferId(k, ts, x)
  <2> DEFINE g == [x \in ts |-> OfferId(k, ts, x)]
  <2>1. g \in [ts -> a .. a + n - 1] /\ \A x \in ts : g[x] = OfferId(k, ts, x)
    BY <1>4 DEF Numbers
  <2> HIDE DEF g
  <2>2. QED  BY <2>1
<1>6. PICK o \in Seq(CommandType) : o = Opens(s)
  BY <1>1, EntriesMade DEF Typed
<1>7. Numbering(ts, id, o, a, n)
  <2>1. /\ Len(o) = n
        /\ \A i \in 1 .. n : /\ o[i].type = "open" /\ o[i].on = a + i - 1 /\ o[i].to \in ts
                             /\ o[i].on = OfferId(k, ts, o[i].to)
        /\ \A x \in ts : \E i \in 1 .. n : o[i] = Command("open", OfferId(k, ts, x), x)
    <3>1. o = OpenCommands(k, ts)
      BY <1>2, <1>6 DEF Opens
    <3>2. /\ Len(OpenCommands(k, ts)) = Cardinality(ts)
          /\ \A i \in 1 .. Cardinality(ts) :
               /\ OpenCommands(k, ts)[i].type = "open"
               /\ OpenCommands(k, ts)[i].on = k.next + i - 1
               /\ OpenCommands(k, ts)[i].to \in ts
               /\ OpenCommands(k, ts)[i].on = OfferId(k, ts, OpenCommands(k, ts)[i].to)
          /\ \A x \in ts : \E i \in 1 .. Cardinality(ts) :
               OpenCommands(k, ts)[i] = Command("open", OfferId(k, ts, x), x)
      <4>1. Kept(s, k) /\ ts \subseteq MemberId \ ({s} \cup k.sent)
        BY <1>2
      <4>2. QED  BY <4>1, OpeningCommands
    <3>3. QED  BY <1>4, <3>1, <3>2
  <2>2. ASSUME NEW x \in ts PROVE \E i \in 1 .. n : o[i].on = id[x]
    <3>1. PICK i \in 1 .. n : o[i] = Command("open", OfferId(k, ts, x), x)
      BY <2>1
    <3>2. o[i].on = id[x]
      BY <1>5, <3>1 DEF Command
    <3>3. QED  BY <3>2
  <2>3. \A x, y \in ts : id[x] = id[y] => x = y
    BY <1>4, <1>5 DEF Numbers
  <2>4. \A i \in 1 .. n : /\ o[i].type = "open" /\ o[i].to \in ts
                           /\ o[i].on = a + i - 1 /\ o[i].on = id[o[i].to]
    BY <1>5, <2>1
  <2>5. Len(o) = n
    BY <2>1
  <2>6. QED  BY <2>2, <2>3, <2>4, <2>5 DEF Numbering
<1>8. PICK l \in Controller :
        /\ l = Finishing(s, Closing(s, Offering(ctl[s], Addressed(s))))
        /\ l.next = a + n
        /\ l.chans = {ch \in k.chans : \A x \in NewChannels(k, ts) : x.on # ch.on}
                       \cup NewChannels(k, ts)
        /\ l.run = k.run \/ (l.run = "grace" /\ Writes(k) /\ HasFinished(s, l))
  <2>1. PICK k1 \in Controller :
          /\ k1 = Offering(k, ts) /\ Kept(s, k1) /\ k1.next = a + n /\ k1.run = k.run
          /\ k1.chans = {ch \in k.chans : \A x \in NewChannels(k, ts) : x.on # ch.on}
                          \cup NewChannels(k, ts)
    BY <1>2, <1>4, OfferingKept
  <2>2. PICK k2 \in Controller :
          /\ k2 = Closing(s, k1) /\ Kept(s, k2) /\ k2.next = k1.next /\ k2.run = k1.run
          /\ k2.chans = k1.chans
    BY <2>1, ClosingKept
  <2>3. PICK k3 \in Controller :
          /\ k3 = Finishing(s, k2) /\ k3.next = k2.next /\ k3.chans = k2.chans
          /\ k3.pending = k2.pending /\ k3.sent = k2.sent /\ k3.closed = k2.closed
          /\ k3.run = k2.run \/ (k3.run = "grace" /\ Writes(k2) /\ HasFinished(s, k2))
    BY <2>2, FinishingKept
  <2>4. HasFinished(s, k2) => HasFinished(s, k3)
    BY <2>3 DEF HasFinished
  <2>5. Writes(k2) => Writes(k)
    BY <2>1, <2>2 DEF Writes
  <2>6. k3 = Finishing(s, Closing(s, Offering(ctl[s], Addressed(s))))
    BY <1>2, <2>1, <2>2, <2>3
  <2>7. k3.next = a + n /\ k3.chans = k1.chans
        /\ (k3.run = k.run \/ (k3.run = "grace" /\ Writes(k) /\ HasFinished(s, k3)))
    BY <2>1, <2>2, <2>3, <2>4, <2>5
  <2>8. QED  BY <2>1, <2>6, <2>7
<1>9. Acts(s, l, o)
  BY <1>1, <1>6, <1>8
<1>10. /\ ctl \in [MemberId -> Controller] /\ toHost \in [MemberId -> Seq(CommandType)]
       /\ Comings /\ Counted(s) /\ Told(s) /\ IInv
  BY DEF Typed, ControllersTyped, QueuesTyped, LoneInv
<1>11. /\ \A q \in MemberId \ {s} : ctl'[q] = ctl[q] /\ toHost'[q] = toHost[q]
       /\ \/ /\ o = <<>> \/ Writes(k)
             /\ ctl'[s] = l /\ toHost'[s] = toHost[s] \o o
          \/ /\ ~Writes(k) /\ o # <<>>
             /\ ctl'[s] = [k EXCEPT !.run = "failed"]
             /\ toHost' = toHost
  <2>1. /\ \A q \in MemberId \ {s} : ctl'[q] = ctl[q] /\ toHost'[q] = toHost[q]
        /\ \/ /\ o = <<>> \/ Writes(ctl[s])
              /\ ctl'[s] = l /\ toHost'[s] = toHost[s] \o o
           \/ /\ ~Writes(ctl[s]) /\ o # <<>>
              /\ ctl'[s] = [ctl[s] EXCEPT !.run = "failed"]
              /\ toHost' = toHost
    BY <1>9, <1>10, ActsEffect
  <2>2. QED  BY <1>2, <2>1
<1>12. /\ Shortens(fromHost[s], fromHost'[s]) /\ own' = own
       /\ \A x \in MemberId \ {s} : fromHost'[x] = fromHost[x]
       /\ k.run \in {"running", "leaving"} /\ Up(s)
  BY <1>1, <1>2, <1>10, HeardHead DEF Typed
<1>13. /\ ctl'[s].run \in {"running", "leaving", "grace", "failed"}
       /\ l.run \in {"running", "leaving", "grace"}
       /\ ctl'[s].next \in {a, a + n}
  BY <1>4, <1>8, <1>11, <1>12 DEF Controller
<1>14. Moves(s)
  <2>1. s < nextMemberIndex
    BY <1>10, <1>12, UpIsIn DEF Up
  <2>2. QED  BY <1>11, <1>12, <1>13, <2>1 DEF Moves, Up, Gone
<1>15. \A x \in Joiner \ {s} : copy'[x] = copy[x]
  BY <1>1, CopiesElsewhere
<1>16. CASE Writes(k)
  <2>1. ctl'[s] = l /\ toHost'[s] = toHost[s] \o o
    BY <1>11, <1>16
  <2>2. k.run = "running" /\ (l.run = "grace" => HasFinished(s, l))
    BY <1>8, <1>12, <1>16 DEF Writes
  <2>3. Parting(s)'
    BY <1>1, <2>1, <2>2 DEF Parting, HasFinished
  <2>4. ASSUME NEW ch \in k.chans, ch.on \in 1 .. a - 1 PROVE ch \in l.chans
    <3>1. \A x \in NewChannels(k, ts) : x.on \in a .. a + n - 1
      BY <1>5 DEF NewChannels
    <3>2. \A i \in a .. a + n - 1 : i # ch.on
      BY <1>4, <2>4
    <3>3. QED  BY <1>8, <2>4, <3>1, <3>2
  <2>5. ASSUME NEW x \in ts PROVE [on |-> id[x], dir |-> "out", peer |-> x] \in l.chans
    <3>1. [on |-> id[x], dir |-> "out", peer |-> x] \in NewChannels(k, ts)
      BY <1>5 DEF NewChannels
    <3>2. QED  BY <1>8, <3>1
  <2>6. offers' = offers \cup {[from |-> s, to |-> x, on |-> id[x], as |-> "open"] : x \in ts}
    <3>1. offers' = offers \cup {[from |-> s, to |-> x.to, on |-> x.on, as |-> "open"]
                                 : x \in Entries(s)}
      BY <1>1, <1>2, <1>16
    <3>2. \A x \in Entries(s) : x.to \in ts /\ x.on = id[x.to]
      BY <1>3, <1>5
    <3>3. \A q \in ts : \E x \in Entries(s) : x.to = q /\ x.on = id[q]
      BY <1>3, <1>5
    <3>4. {[from |-> s, to |-> x.to, on |-> x.on, as |-> "open"] : x \in Entries(s)}
            = {[from |-> s, to |-> x, on |-> id[x], as |-> "open"] : x \in ts}
      BY <3>2, <3>3
    <3>5. QED  BY <3>1, <3>4
  <2>7. hashing' \subseteq hashing \cup {<<s, id[x]>> : x \in ts}
    <3>1. hashing' \subseteq hashing \cup {<<s, x.on>> : x \in Entries(s)}
      BY <1>1
    <3>2. \A x \in Entries(s) : x.to \in ts /\ x.on = id[x.to]
      BY <1>3, <1>5
    <3>3. {<<s, x.on>> : x \in Entries(s)} \subseteq {<<s, id[x]>> : x \in ts}
      BY <3>2
    <3>4. QED  BY <3>1, <3>3
  <2>8. ts \subseteq MemberId \ {s} /\ ctl[s].next = a /\ ctl'[s].next = a + n /\ Writes(ctl[s])
    BY <1>2, <1>4, <1>8, <1>16, <2>1
  <2>9. /\ \A ch \in ctl[s].chans : ch.on \in 1 .. a - 1 => ch \in ctl'[s].chans
        /\ \A x \in ts : [on |-> id[x], dir |-> "out", peer |-> x] \in ctl'[s].chans
    BY <1>2, <2>1, <2>4, <2>5
  <2>10. UNCHANGED <<vars, mode, loads>>
    BY <1>1
  <2>11. MakesOffers(s, ts, id, o, a, n)
    BY <1>7, <1>12, <1>14, <1>15, <2>1, <2>3, <2>6, <2>7, <2>8, <2>9, <2>10 DEF MakesOffers
  <2>12. QED  BY <2>11, LoneOffers
<1>17. CASE ~Writes(k)
  <2>1. k.run = "leaving" /\ l.run = "leaving"
    BY <1>8, <1>12, <1>17 DEF Writes
  <2>2. offers' = offers /\ UNCHANGED <<copy, hashing>>
    BY <1>1, <1>2, <1>17
  <2>3. ctl'[s].next = ctl[s].next /\ toHost'[s] = toHost[s]
    <3>1. CASE o = <<>>
      <4>1. Len(o) = 0
        BY <3>1
      <4>2. n = 0
        BY <1>7, <4>1 DEF Numbering
      <4>3. toHost[s] \o <<>> = toHost[s]
        BY <1>10, ConcatEmptySeq
      <4>4. QED  BY <1>2, <1>4, <1>8, <1>11, <3>1, <4>2, <4>3
    <3>2. CASE o # <<>>
      BY <1>2, <1>11, <1>17, <3>2 DEF Controller
    <3>3. QED  BY <3>1, <3>2
  <2>4. ctl'[s].run \in {"leaving", "failed"}
    BY <1>11, <1>17, <2>1 DEF Controller
  <2>5. ~Writes(ctl[s])' /\ Parting(s)'
    BY <2>4 DEF Writes, Parting
  <2>6. Shortens(own[s], own'[s])
    BY <1>12 DEF Shortens
  <2>7. HandlesOwn(s)
    BY <1>1, <1>12, <1>14, <1>15, <2>2, <2>3, <2>5, <2>6 DEF HandlesOwn
  <2>8. QED  BY <2>7, OwnHandler
<1>18. QED  BY <1>16, <1>17

-----------------------------------------------------------------------------
(* Every step keeps a lone sender's room in order.                         *)

LEMMA LoneStutters ==
  ASSUME NEW s \in MemberId, LoneInv(s), UNCHANGED autoVars
  PROVE  LoneInv(s)'
<1>1. UNCHANGED <<members, channels, nextMemberIndex, mode, ctl, toHost, fromHost, own, copy,
                  hashing, loads, offers>>
  BY DEF autoVars, vars, links, transfers
<1>2. Comings'
  BY <1>1 DEF LoneInv, Comings, Up
<1>3. Counted(s)' /\ Given(s)' = Given(s) /\ \A c : Settled(s, c) => Settled(s, c)'
  BY <1>1 DEF LoneInv, Counted, Given, Settled, Gone, Answered
<1>4. /\ \A c : Arrived(c) => Arrived(c)'
      /\ \A c, q : (Made(c, q) => Made(c, q)') /\ (Knows(q, c) => Knows(q, c)')
      /\ \A q : Gone(q) => Gone(q)'
  BY <1>1 DEF Arrived, Made, Knows, Gone
<1>5. Asked(s)'
  BY <1>1, <1>3, <1>4 DEF LoneInv, Asked, SenderAsks, OtherAsks, OpensFirst, Items
<1>6. Told(s)'
  BY <1>1, <1>3, <1>4 DEF LoneInv, Told, Hears, Items
<1>7. Hosted(s)'
  BY <1>1, <1>4 DEF LoneInv, Hosted, Between
<1>8. Requested(s)'
  BY <1>1, <1>3 DEF LoneInv, Requested, Items
<1>9. Loading(s)'
  BY <1>1, <1>3, <1>4 DEF LoneInv, Loading
<1>10. Listing(s)' /\ Parting(s)'
  BY <1>1, <1>3, <1>4 DEF LoneInv, Listing, Parting, Writes, Out, HasFinished
<1>11. QED
  BY <1>2, <1>3, <1>5, <1>6, <1>7, <1>8, <1>9, <1>10 DEF LoneInv

LEMMA LoneReads ==
  ASSUME Typed, NEW s \in MemberId, SendsAlone(s), LoneInv(s), NEW m \in MemberId, ReadsEvent(m)
  PROVE  LoneInv(s)'
<1>1. CASE ReadsMembers(m)
  <2>1. CASE m = s
    BY <1>1, <2>1, LoneReadsMembers DEF SendsAlone
  <2>2. CASE m # s
    <3>1. mode[m] \notin Sender
      BY <2>2 DEF SendsAlone
    <3>2. QED  BY <1>1, <2>2, <3>1, OthersOfferNothing
  <2>3. QED  BY <2>1, <2>2
<1>2. CASE ReadsLeft(m) \/ ReadsOpened(m) \/ ReadsAccepted(m)
  BY <1>2, LoneReadsLeft, LoneReadsOpened, LoneReadsAccepted
<1>3. CASE ReadsDigest(m) \/ ReadsQuit(m) \/ ReadsError(m)
  BY <1>3, LoneReadsDigest, LoneReadsQuit, LoneReadsError
<1>4. CASE ReadsPath(m) \/ ReadsProgress(m) \/ ReadsClosed(m)
  BY <1>4, LoneReadsPath, LoneReadsProgress, LoneReadsClosed
<1>5. QED
  BY <1>1, <1>2, <1>3, <1>4 DEF ReadsEvent

LEMMA LoneNext ==
  ASSUME Typed, NEW s \in MemberId, SendsAlone(s), LoneInv(s), [AutomationNext]_autoVars
  PROVE  LoneInv(s)'
<1>1. ASSUME NEW m \in MemberId, ReadsEvent(m) \/ GraceEnds(m) \/ HostTakesCommand(m)
      PROVE  LoneInv(s)'
  BY <1>1, LoneReads, LoneGraceEnds, LoneTakesCommand
<1>2. ASSUME NEW h \in hashing, Publishes(h[1], h[2]) \/ PrepareFails(h[1], h[2])
      PROVE  LoneInv(s)'
  BY <1>2, LonePublishes, LonePrepareFails
<1>3. ASSUME NEW d \in loads, Serves(d) \/ Saves(d) \/ LoadDies(d) \/ LoadFails(d)
      PROVE  LoneInv(s)'
  BY <1>3, LoneServes, LoneLoadSteps
<1>4. ASSUME NEW j \in Joiner, Crash(j)
      PROVE  LoneInv(s)'
  BY <1>4, LoneCrash
<1>5. CASE JoinRoom
  BY <1>5, LoneJoinRoom
<1>6. CASE UNCHANGED autoVars
  BY <1>6, LoneStutters
<1>7. QED
  BY <1>1, <1>2, <1>3, <1>4, <1>5, <1>6 DEF AutomationNext, Progress

\* Nobody changes the way it was started.
LEMMA ModeStays ==
  ASSUME [AutomationNext]_autoVars
  PROVE  mode' = mode
<1>1. \A m : Ends(m) => mode' = mode
  BY DEF Ends
<1>2. ASSUME NEW m \in MemberId, ReadsEvent(m) PROVE mode' = mode
  BY <1>1, <1>2 DEF ReadsEvent, ReadsMembers, ReadsLeft, ReadsOpened, ReadsAccepted, ReadsDigest,
     ReadsQuit, ReadsError, ReadsPath, ReadsProgress, ReadsClosed
<1>3. ASSUME NEW m \in MemberId, GraceEnds(m) \/ HostTakesCommand(m) PROVE mode' = mode
  <2>1. CASE GraceEnds(m)
    BY <2>1 DEF GraceEnds
  <2>2. CASE HostTakesCommand(m)
    <3>1. CASE Head(toHost[m]).type = "leave"
      <4>1. HostTakesLeave(m)
        BY <2>2, <3>1 DEF HostTakesCommand
      <4>2. QED  BY <1>1, <4>1 DEF HostTakesLeave
    <3>2. CASE Head(toHost[m]).type # "leave"
      BY <2>2, <3>2 DEF HostTakesCommand
    <3>3. QED  BY <3>1, <3>2
  <2>3. QED  BY <1>3, <2>1, <2>2
<1>4. ASSUME NEW h \in hashing, Publishes(h[1], h[2]) \/ PrepareFails(h[1], h[2])
      PROVE  mode' = mode
  BY <1>4 DEF Publishes, PrepareFails
<1>5. ASSUME NEW d \in loads, Serves(d) \/ Saves(d) \/ LoadDies(d) \/ LoadFails(d)
      PROVE  mode' = mode
  BY <1>5 DEF Serves, Saves, LoadDies, LoadFails, Fails
<1>6. ASSUME JoinRoom \/ \E j \in Joiner : Crash(j) PROVE mode' = mode
  BY <1>1, <1>6 DEF JoinRoom, Crash
<1>7. CASE UNCHANGED autoVars
  BY <1>7 DEF autoVars
<1>8. QED
  BY <1>2, <1>3, <1>4, <1>5, <1>6, <1>7 DEF AutomationNext, Progress

LEMMA LoneInit ==
  ASSUME AutomationInit, NEW s \in MemberId
  PROVE  LoneInv(s)
<1>1. /\ members = {Host} /\ nextMemberIndex = 2 /\ DOMAIN channels = {}
      /\ ctl = [m \in MemberId |-> Fresh(IF m = Host THEN "running" ELSE "absent")]
      /\ toHost = [m \in MemberId |-> <<>>] /\ own = [m \in MemberId |-> <<>>]
      /\ fromHost = [m \in MemberId |->
                       IF m = Host THEN <<Snapshot(Host, {Host})>> ELSE <<>>]
      /\ copy = [j \in Joiner |-> {}] /\ hashing = {} /\ loads = {} /\ offers = {}
  BY DEF AutomationInit, Init
<1>2. Host = 1 /\ \A m \in MemberId : m \in Nat \ {0}
  BY MemberNumbers DEF Host
<1>3. Comings
  <2>1. \A m \in MemberId : m # Host => m >= 2
    BY <1>2
  <2>2. \A m \in MemberId : m >= 2 => m # Host
    BY <1>2
  <2>3. \A m \in MemberId : ctl[m] = Fresh(IF m = Host THEN "running" ELSE "absent")
    BY <1>1
  <2>4. \A r : Fresh(r).run = r
    BY DEF Fresh
  <2>5. QED  BY <1>1, <2>1, <2>2, <2>3, <2>4 DEF Comings, Up
<1>4. Counted(s) /\ Requested(s) /\ Listing(s) /\ Hosted(s)
  BY <1>1 DEF Counted, Requested, Listing, Hosted
<1>5. Loading(s)
  BY <1>1 DEF Loading
<1>6. Items(<<>>) = {} /\ \A e : Items(<<e>>) = {e}
  BY DEF Items
<1>7. Asked(s)
  BY <1>1, <1>6 DEF Asked, OpensFirst
<1>8. Told(s)
  <2>1. \A x : Hears(s, x, Snapshot(Host, {Host}))
    BY DEF Hears, Snapshot
  <2>2. QED  BY <1>1, <1>6, <2>1 DEF Told
<1>9. Parting(s)
  BY <1>1 DEF Parting, Fresh
<1>10. QED
  BY <1>3, <1>4, <1>5, <1>7, <1>8, <1>9 DEF LoneInv

-----------------------------------------------------------------------------
(* How a lone sender leaves.                                               *)

\* Nobody else's step makes a controller close its machine's stdin.
LeavesAlone(m) == ctl'[m].run # "leaving"

LEMMA ActsAlone ==
  ASSUME ctl \in [MemberId -> Controller], NEW m \in MemberId, ctl[m].run = "grace",
         NEW q \in MemberId \ {m}, NEW k, NEW cs, Acts(q, k, cs)
  PROVE  LeavesAlone(m)
BY DEF Acts, LeavesAlone

LEMMA EndsAlone ==
  ASSUME ctl \in [MemberId -> Controller], NEW m \in MemberId, ctl[m].run = "grace",
         NEW q \in MemberId, Ends(q)
  PROVE  LeavesAlone(m)
<1>1. ctl' = [ctl EXCEPT ![q] = [ctl[q] EXCEPT !.run = "over"]]
  BY DEF Ends
<1>2. CASE q = m
  <2>1. ctl'[m].run = "over"
    BY <1>1, <1>2 DEF Controller
  <2>2. QED  BY <2>1 DEF LeavesAlone
<1>3. CASE q # m
  BY <1>1, <1>3 DEF LeavesAlone
<1>4. QED  BY <1>2, <1>3

LEMMA OnlyGraceEnds ==
  ASSUME Typed, NEW m \in MemberId, ctl[m].run = "grace", ctl'[m].run = "leaving",
         [AutomationNext]_autoVars
  PROVE  GraceEnds(m)
<1>1. ctl \in [MemberId -> Controller] /\ ~LeavesAlone(m)
  BY DEF Typed, ControllersTyped, LeavesAlone
<1>2. UNCHANGED ctl => LeavesAlone(m)
  BY DEF LeavesAlone
<1>3. ASSUME NEW q \in MemberId, ReadsEvent(q) PROVE FALSE
  <2>1. CASE ReadsClosed(q)
    BY <1>1, <2>1, EndsAlone DEF ReadsClosed
  <2>2. CASE ReadsDigest(q)
    BY <1>1, <1>2, <2>2 DEF ReadsDigest
  <2>3. ASSUME Reads(q), \E k, cs : Acts(q, k, cs) PROVE FALSE
    <3>1. q # m
      BY <2>3 DEF Reads
    <3>2. QED  BY <1>1, <2>3, <3>1, ActsAlone
  <2>4. CASE ReadsMembers(q)
    <3>1. TakesFromHost(q, {"member_snapshot", "member_joined"})
          /\ Acts(q, Finishing(q, Closing(q, Offering(ctl[q], Addressed(q)))), Opens(q))
      BY <2>4, ReadsMembersEffect DEF Typed
    <3>2. QED  BY <2>3, <3>1 DEF TakesFromHost
  <2>5. CASE ReadsLeft(q) \/ ReadsOpened(q) \/ ReadsAccepted(q) \/ ReadsQuit(q)
    BY <2>3, <2>5 DEF ReadsLeft, ReadsOpened, ReadsAccepted, ReadsQuit, TakesFromHost
  <2>6. CASE ReadsError(q) \/ ReadsPath(q) \/ ReadsProgress(q)
    BY <2>3, <2>6 DEF ReadsError, ReadsPath, ReadsProgress, TakesFromHost, TakesOwn
  <2>7. QED
    BY <1>3, <2>1, <2>2, <2>4, <2>5, <2>6 DEF ReadsEvent
<1>4. ASSUME NEW q \in MemberId, HostTakesCommand(q) PROVE FALSE
  <2>1. CASE Head(toHost[q]).type = "leave"
    <3>1. HostTakesLeave(q)
      BY <1>4, <2>1 DEF HostTakesCommand
    <3>2. QED  BY <1>1, <3>1, EndsAlone DEF HostTakesLeave
  <2>2. CASE Head(toHost[q]).type # "leave"
    BY <1>1, <1>2, <1>4, <2>2 DEF HostTakesCommand
  <2>3. QED  BY <2>1, <2>2
<1>5. ASSUME NEW q \in MemberId, GraceEnds(q), q # m PROVE FALSE
  BY <1>1, <1>5, ActsAlone DEF GraceEnds
<1>6. ASSUME NEW h \in hashing, Publishes(h[1], h[2]) \/ PrepareFails(h[1], h[2]) PROVE FALSE
  BY <1>1, <1>2, <1>6 DEF Publishes, PrepareFails
<1>7. ASSUME NEW d \in loads, Serves(d) \/ Saves(d) \/ LoadDies(d) \/ LoadFails(d) PROVE FALSE
  BY <1>1, <1>2, <1>7 DEF Serves, Saves, LoadDies, LoadFails, Fails
<1>8. ASSUME NEW j \in Joiner, Crash(j) PROVE FALSE
  <2>1. Ends(j) /\ j \in MemberId
    BY <1>8 DEF Crash, Joiner
  <2>2. QED  BY <1>1, <2>1, EndsAlone
<1>9. CASE JoinRoom
  <2>1. ctl' = [ctl EXCEPT ![nextMemberIndex] = [ctl[nextMemberIndex] EXCEPT !.run = "running"]]
    BY <1>9 DEF JoinRoom
  <2>2. ctl'[m].run \in {"running", "grace"}
    BY <1>1, <2>1 DEF Controller
  <2>3. QED  BY <1>1, <2>2 DEF LeavesAlone
<1>10. CASE UNCHANGED autoVars
  BY <1>1, <1>2, <1>10 DEF autoVars
<1>11. QED
  BY <1>3, <1>4, <1>5, <1>6, <1>7, <1>8, <1>9, <1>10 DEF AutomationNext, Progress

\* When the time of grace is over, an offer that is still open has all its bytes.
LEMMA GraceServesAll ==
  ASSUME Typed, NEW m \in MemberId, LoneInv(m), GraceEnds(m),
         NEW f \in offers, f.from = m, Up(f.to)
  PROVE  f.as # "open" \/ OnlyWantsDigest(f)
<1>1. SUFFICES ASSUME f.as = "open" PROVE OnlyWantsDigest(f)
  OBVIOUS
<1>2. /\ Counted(m) /\ Loading(m) /\ Listing(m) /\ Parting(m)
  BY DEF LoneInv
<1>3. ctl[m].run = "grace"
  BY DEF GraceEnds
<1>4. HasFinished(m, ctl[m]) /\ Writes(ctl[m])
  BY <1>2, <1>3 DEF Parting, Writes
<1>5. ~Settled(m, f.on)
  BY <1>1, <1>3 DEF Settled, Answered, Gone, Up
<1>6. Out(f) \notin ctl[m].chans
  BY <1>4 DEF HasFinished, Out
<1>7. Arrived(f.on)
  BY <1>2, <1>4, <1>5, <1>6 DEF Listing
<1>8. PICK d \in loads : d.on = f.on /\ d.stage = "arrived"
  BY <1>7 DEF Arrived
<1>9. d.from = m /\ Made(d.on, d.by) /\ Knows(d.by, d.on)
  BY <1>2, <1>5, <1>8 DEF Loading
<1>10. d.by = f.to
  BY <1>2, <1>8, <1>9 DEF Made, Counted
<1>11. Known(d.by, d.on) # {}
  <2>1. CASE d.by = Host
    BY <1>9, <2>1 DEF Knows, Known
  <2>2. CASE d.by # Host
    BY <1>9, <2>2 DEF Knows, Known
  <2>3. QED  BY <2>1, <2>2
<1>12. QED  BY <1>8, <1>9, <1>10, <1>11 DEF OnlyWantsDigest

\* Whoever is the only sender of its room.
LoneRooms == \A s \in MemberId : SendsAlone(s) => LoneInv(s)

\* A one-shot sender that leaves of its own accord cuts nobody's download off
\* (transfer_automation.rs, should_finish_one_shot_send, and the sleep and the leave
\* after it): everybody it offered the payload to and whose program runs has it, has
\* refused it, has failed to get it, or has its last byte and waits only for the
\* digest, whoever joins, crashes, refuses or is offered the payload meanwhile.
THEOREM NobodyEverCutOff == AutomationSpec => NobodyIsCutOff
<1>1. AutomationInit => LoneRooms
  BY LoneInit DEF LoneRooms
<1>2. Typed /\ LoneRooms /\ [AutomationNext]_autoVars => LoneRooms'
  <2> SUFFICES ASSUME Typed, LoneRooms, [AutomationNext]_autoVars PROVE LoneRooms'
    OBVIOUS
  <2>1. mode' = mode
    BY ModeStays
  <2>2. \A s \in MemberId : SendsAlone(s)' => SendsAlone(s)
    BY <2>1 DEF SendsAlone
  <2>3. QED  BY <2>2, LoneNext DEF LoneRooms
<1>3. Typed /\ LoneRooms /\ [AutomationNext]_autoVars => CutsNobodyOff
  <2> SUFFICES ASSUME Typed, LoneRooms, [AutomationNext]_autoVars,
                      NEW m \in MemberId, SendsAlone(m), ctl[m].run = "grace",
                      ctl'[m].run = "leaving",
                      NEW f \in offers, f.from = m, Up(f.to)
               PROVE  f.as # "open" \/ OnlyWantsDigest(f)
    BY DEF CutsNobodyOff
  <2>1. GraceEnds(m)
    BY OnlyGraceEnds
  <2>2. LoneInv(m)
    BY DEF LoneRooms
  <2>3. QED  BY <2>1, <2>2, GraceServesAll
<1>4. Typed /\ LoneRooms /\ [AutomationNext]_autoVars => [CutsNobodyOff]_autoVars
  BY <1>3
<1>5. AutomationSpec => []Typed
  BY TypedAlways
<1>6. QED
  BY <1>1, <1>2, <1>4, <1>5, PTL DEF AutomationSpec, NobodyIsCutOff
=============================================================================
