-------------------------- MODULE FileTransferProofs --------------------------
(***************************************************************************)
(* What a transfer guarantees for every plan, room and set of channels,     *)
(* whoever accepts what and when: its types, what is saved, and what alone  *)
(* can end a process.                                                       *)
(***************************************************************************)
EXTENDS FileTransfer, RoomEngineProofs, FiniteSetTheorems, SequenceTheorems,
        WellFoundedInduction

Plan == DOMAIN plan

\* What a joiner sends: it opens and publishes only channels of its own.
Ordered(j) == {e \in News : e.type \notin Quits => Provider(e.on) = j}

\* A function on some of D.
Map(D, S) == UNION {[d -> S] : d \in SUBSET D}

Copy == [participants : SUBSET MemberId, digest : Digest]
CopyMap == Map(ChannelId, Copy)
Offered(c) == [item : {"file", "folder"}, digest : Found(c)]

RoomTyped ==
  /\ IInv /\ members = MemberId
  /\ \A c \in DOMAIN channels :
       /\ c \in Plan /\ channels[c].opener = Provider(c)
       /\ channels[c].transfer \in Offered(c)
QueuesTyped ==
  /\ toHost \in [Joiner -> Seq(News)] /\ \A j \in Joiner : toHost[j] \in Seq(Ordered(j))
  /\ peerLink \in [Joiner -> Seq(News)]
ViewsTyped ==
  /\ view \in [Joiner -> CopyMap]
  /\ \A j \in Joiner : \A c \in DOMAIN view[j] : c \in Plan /\ view[j][c].digest \in Found(c)
ProviderTyped ==
  /\ plan \in Plans
  /\ source \in [Plan -> Content] /\ prepared \in [Plan -> Preparation]
  /\ registered \subseteq Plan
  /\ \A c \in Plan : prepared[c].digest # NoDigest => prepared[c].stage \in {"ready", "published"}

SavePath == Name \X Nat
PathMap == Map(SavePath, ChannelId)
FileMap == Map(ChannelId, Content)
LeadsTo(m, r) == \A p \in DOMAIN m : m[p] \in DOMAIN bytes[r]
DisksTyped ==
  /\ parts \in [MemberId -> PathMap] /\ disk \in [MemberId -> PathMap]
  /\ bytes \in [MemberId -> FileMap]
  /\ \A r \in MemberId :
       IsFiniteSet(DOMAIN disk[r]) /\ LeadsTo(parts[r], r) /\ LeadsTo(disk[r], r)
DownloadsTyped ==
  /\ accepted \subseteq MemberId \X Plan /\ clashes \subseteq MemberId \X SavePath
  /\ downloads \subseteq Download /\ received \subseteq Download
  /\ \A d \in downloads \cup received : d.on \in Plan
  /\ \A d \in downloads : d.stage = "receiving" => d.file \in DOMAIN bytes[d.by]
Typed ==
  RoomTyped /\ QueuesTyped /\ ViewsTyped /\ ProviderTyped /\ DisksTyped /\ DownloadsTyped

-----------------------------------------------------------------------------
(* Saving: what a member's downloads and files have to do with each other.  *)

Clean(r, p) == <<r, p>> \notin clashes

\* The .part file of d is there and holds what was hashed.
Holds(d) ==
  /\ d.to \in DOMAIN parts[d.by] /\ parts[d.by][d.to] = d.file
  /\ bytes[d.by][d.file] = d.hash
Unsaved(d) == d.to \notin DOMAIN disk[d.by]
OnTheWay(d) ==
  /\ d.stage = "asking" => Unsaved(d)
  /\ d.stage = "receiving" =>
       /\ Unsaved(d) /\ d.alone
       /\ d.to \in DOMAIN parts[d.by] /\ parts[d.by][d.to] = d.file
  /\ d.stage = "done" /\ IsFile(d.on) => Unsaved(d) /\ Holds(d)
  /\ d.stage = "done" /\ ~IsFile(d.on) =>
       /\ d.to \in DOMAIN disk[d.by] /\ disk[d.by][d.to] = d.file
       /\ bytes[d.by][d.file] = d.hash
Waiting(d) == IsFile(d.on) /\ Unsaved(d) /\ Holds(d)

SavedWell(s) ==
  /\ s.to \in DOMAIN disk[s.by] /\ bytes[s.by][disk[s.by][s.to]] = s.hash
  /\ IsFile(s.on) => s.on \in Plan /\ s.hash = prepared[s.on].digest /\ s.hash # NoDigest

\* Each accept has one download or one result, and each file is named for an accept.
Numbered(r) ==
  /\ \A x \in downloads \cup received : x.by = r => <<r, x.on>> \in accepted
  /\ \A x, y \in downloads : x.by = r /\ y.by = r /\ x.on = y.on => x = y
  /\ \A x, y \in received : x.by = r /\ y.by = r /\ x.on = y.on => x = y
  /\ \A x \in downloads, y \in received : x.by = r /\ y.by = r => x.on # y.on
  /\ \A x \in downloads : x.by = r /\ x.stage = "asking" => x.on \notin DOMAIN bytes[r]
  /\ \A x \in received : x.by = r => x.stage = "done"
  /\ \A f \in DOMAIN bytes[r] : <<r, f>> \in accepted

\* A file belongs to one path: as its .part file, as what is saved there, or as what
\* a download bound for it writes.
Uses(r, p, f) ==
  \/ p \in DOMAIN parts[r] /\ parts[r][p] = f
  \/ p \in DOMAIN disk[r] /\ disk[r][p] = f
  \/ \E x \in downloads \cup received :
       x.by = r /\ x.to = p /\ x.stage # "asking" /\ x.file = f
Owned(r) ==
  /\ \A p, q, f : Uses(r, p, f) /\ Uses(r, q, f) => p = q
  /\ \A p, f : Uses(r, p, f) => f \in DOMAIN bytes[r]

\* A path that two downloads have not clashed on: there is one at most, it is well on
\* its way, and what has been saved is what was verified.
Undisputed(r, p) ==
  Clean(r, p) =>
    /\ \A x, y \in downloads : x.by = r /\ y.by = r /\ x.to = p /\ y.to = p => x = y
    /\ \A x, y \in received : x.by = r /\ y.by = r /\ x.to = p /\ y.to = p => x = y
    /\ \A x \in downloads, y \in received : x.by = r /\ y.by = r /\ x.to = p => y.to # p
    /\ \A x \in downloads : x.by = r /\ x.to = p => OnTheWay(x)
    /\ \A x \in received : x.by = r /\ x.to = p => Waiting(x)
    /\ p \in DOMAIN disk[r] => p \notin DOMAIN parts[r]
    /\ \A s \in saved : s.by = r /\ s.to = p => SavedWell(s)

MemberOK(r) == Numbered(r) /\ Owned(r) /\ \A p : Undisputed(r, p)
SavingInv == (\A r \in MemberId : MemberOK(r)) /\ \A s \in saved : s.by \in MemberId

-----------------------------------------------------------------------------
(* Names and contents.                                                     *)

LEMMA NoDigestIsNone ==
  /\ NoDigest \notin Content /\ Partial \in Content /\ Mixed \in Content
  /\ \A c \in ChannelId, v \in {"offered", "edited"} : Source(c, v) \in Content
<1>1. NoDigest \notin Content
  <2>1. NoDigest.version = "none"
    BY DEF NoDigest
  <2>2. ASSUME NEW x \in Content PROVE x.version # "none"
    BY <2>2 DEF Content, Source, Partial, Mixed
  <2>3. QED  BY <2>1, <2>2
<1>2. Partial \in Content /\ Mixed \in Content
  BY DEF Content
<1>3. \A c \in ChannelId, v \in {"offered", "edited"} : Source(c, v) \in Content
  BY DEF Content
<1>4. QED  BY <1>1, <1>2, <1>3

\* The name itself or a numbered one is free, whatever has been saved.
LEMMA FreePathIsFree ==
  ASSUME NEW r \in MemberId, NEW name \in Name, IsFiniteSet(DOMAIN disk[r])
  PROVE  FreePath(r, name) \in SavePath /\ FreePath(r, name) \notin DOMAIN disk[r]
<1> DEFINE D == DOMAIN disk[r]
           n == Cardinality(D)
           free == {i \in 0 .. n : <<name, i>> \notin D}
<1>1. n \in Nat
  BY FS_CardinalityType
<1>2. free # {}
  <2>1. SUFFICES ASSUME \A i \in 0 .. n : <<name, i>> \in D PROVE FALSE
    OBVIOUS
  <2> DEFINE f == [i \in 0 .. n |-> <<name, i>>]
  <2>2. f \in [0 .. n -> D]
    BY <2>1
  <2>3. IsFiniteSet(0 .. n) /\ Cardinality(0 .. n) = n + 1
    BY <1>1, FS_Interval
  <2>4. Cardinality(D) < Cardinality(0 .. n)
    BY <1>1, <2>3
  <2> HIDE DEF f
  <2>5. \E x, y \in 0 .. n : x # y /\ f[x] = f[y]
    <3> HIDE DEF D
    <3>1. IsFiniteSet(D)
      BY DEF D
    <3>2. QED  BY <2>2, <2>3, <2>4, <3>1, FS_PigeonHole
  <2>6. QED  BY <2>5 DEF f
<1>3. PICK i \in free : \A k \in free : i <= k
  <2> DEFINE R == OpToRel(<, Nat)
  <2>0. IsWellFoundedOn(R, Nat)
    BY NatLessThanWellFounded
  <2>1. free \subseteq Nat
    BY <1>1
  <2> HIDE DEF R, free
  <2>2. PICK i \in free : \A k \in free : ~ (<<k, i>> \in R)
    BY <1>2, <2>0, <2>1, WFMin
  <2>3. ASSUME NEW k \in free PROVE i <= k
    <3>1. i \in Nat /\ k \in Nat /\ <<k, i>> \notin R
      BY <2>1, <2>2, <2>3
    <3>2. k < i => <<k, i>> \in R
      BY <3>1 DEF R, OpToRel
    <3>3. QED  BY <3>1, <3>2
  <2>4. QED  BY <2>3
<1> DEFINE Least(k) == <<name, k>> \notin D /\ \A l \in 0 .. k - 1 : <<name, l>> \in D
<1>4. i \in 0 .. n /\ Least(i)
  <2>1. i \in 0 .. n /\ <<name, i>> \notin D
    BY <1>3
  <2>2. ASSUME NEW l \in 0 .. i - 1 PROVE <<name, l>> \in D
    <3>1. l \in 0 .. n /\ ~(i <= l)
      BY <1>1, <2>1
    <3>2. QED  BY <1>3, <3>1
  <2>3. QED  BY <2>1, <2>2
<1> DEFINE k == CHOOSE k \in 0 .. n : Least(k)
<1>5. k \in 0 .. n /\ Least(k)
  BY <1>4
<1>6. FreePath(r, name) = <<name, k>>
  BY DEF FreePath
<1> HIDE DEF k
<1>7. k \in Nat /\ <<name, k>> \notin DOMAIN disk[r]
  BY <1>1, <1>5
<1>8. <<name, k>> \in SavePath
  BY <1>7 DEF SavePath
<1>9. QED  BY <1>6, <1>7, <1>8


-----------------------------------------------------------------------------
(* What the plan says of its channels, and how news of them keeps.         *)

LEMMA PlanFacts ==
  ASSUME ProviderTyped, NEW c \in Plan
  PROVE  /\ c \in ChannelId /\ plan[c] \in Transfer
         /\ Provider(c) \in MemberId /\ plan[c].to \in Route
         /\ plan[c].name \in Name /\ plan[c].item \in {"file", "folder"}
<1>1. c \in ChannelId /\ plan[c] \in Transfer
  BY PlansAssumption DEF ProviderTyped, Plan
<1>2. QED  BY <1>1 DEF Transfer, Provider

LEMMA OfferFacts ==
  ASSUME ProviderTyped, NEW c \in Plan, NEW digest \in Found(c)
  PROVE  /\ digest \in Digest
         /\ Offer(c, digest) \in TransferOffer
         /\ Offer(c, digest) \in Offered(c)
<1>1. digest \in Digest
  BY DEF ProviderTyped, Found, Digest, Preparation
<1>2. Offer(c, digest) = [item |-> plan[c].item, digest |-> digest]
      /\ plan[c].item \in {"file", "folder"}
  BY PlanFacts DEF Offer
<1>3. Offer(c, digest) \in Offered(c)
  BY <1>2 DEF Offered
<1>4. Offer(c, digest) \in TransferOffer
  BY <1>1, <1>2, FileOffersAssumption DEF Digest
<1>5. QED  BY <1>1, <1>3, <1>4

LEMMA HostIsThere == Host \in MemberId /\ Joiner \subseteq MemberId
BY MaxMemberIndexAssumption DEF Joiner, MemberId, Host

\* Digests are found once and stay.
SamePlan == plan' = plan
Grows    == SamePlan /\ \A c \in Plan : Found(c) \subseteq Found(c)'
Stays    == SamePlan /\ \A c \in Plan : prepared'[c].digest = prepared[c].digest

LEMMA StaysGrows == Stays => Grows
BY DEF Stays, Grows, Found

LEMMA SamePlanFacts ==
  ASSUME SamePlan
  PROVE  Plan' = Plan /\ \A c \in Plan : Provider(c)' = Provider(c) /\ IsFile(c)' = IsFile(c)
BY DEF SamePlan, Plan, Provider, IsFile

LEMMA NewsKeeps ==
  ASSUME Grows
  PROVE  News \subseteq News' /\ \A j \in Joiner : Ordered(j) \subseteq Ordered(j)'
<1>1. Plan' = Plan /\ \A c \in Plan : Found(c) \subseteq Found(c)' /\ Provider(c)' = Provider(c)
  BY SamePlanFacts DEF Grows
<1>2. News \subseteq News'
  <2>1. SUFFICES ASSUME NEW e \in News PROVE e \in News'
    OBVIOUS
  <2>2. e \in Sent /\ e.on \in Plan /\ e.digest \in Found(e.on)
    BY DEF News, Plan
  <2>3. e.on \in Plan' /\ e.digest \in Found(e.on)'
    BY <1>1, <2>2
  <2>4. QED  BY <2>2, <2>3 DEF News, Plan, Sent
<1>3. ASSUME NEW j \in Joiner, NEW e \in Ordered(j) PROVE e \in Ordered(j)'
  <2>1. e \in News /\ e.on \in Plan /\ (e.type \notin Quits => Provider(e.on) = j)
    BY DEF Ordered, News, Plan
  <2>2. Provider(e.on)' = Provider(e.on)
    BY <1>1, <2>1
  <2>3. QED  BY <1>2, <2>1, <2>2 DEF Ordered
<1>4. QED  BY <1>2, <1>3

LEMMA NewsFacts ==
  ASSUME ProviderTyped, NEW e \in News
  PROVE  /\ e \in Sent /\ e.on \in Plan /\ e.on \in ChannelId /\ e.by \in MemberId
         /\ e.digest \in Found(e.on) /\ e.digest \in Digest
         /\ e.type \in {"channel_opened", "channel_transfer", "channel_rejected", "channel_closed"}
BY PlanFacts DEF News, Plan, Sent, Quits

LEMMA MakesNews ==
  ASSUME ProviderTyped, NEW m \in MemberId, NEW c \in Plan, NEW digest \in Found(c),
         NEW type \in {"channel_opened", "channel_transfer", "channel_rejected", "channel_closed"}
  PROVE  LET e == Message(type, m, c, digest)
         IN  e \in News /\ e.type = type /\ e.by = m /\ e.on = c /\ e.digest = digest
<1>1. c \in ChannelId /\ digest \in Digest
  BY PlanFacts, OfferFacts
<1>2. QED  BY <1>1 DEF Message, News, Plan, Sent, Quits
-----------------------------------------------------------------------------
(* What a step leaves alone keeps its type.                                *)

LEMMA RoomKeeps ==
  ASSUME RoomTyped, UNCHANGED vars, Grows
  PROVE  RoomTyped'
<1>1. IInv'
  BY DEF RoomTyped, vars, IInv, TypeOK, ParticipantsAreMembers, NobodyIsLeftAlone
<1>2. members' = MemberId
  BY DEF RoomTyped, vars
<1>3. ASSUME NEW c \in DOMAIN channels'
      PROVE  c \in Plan' /\ channels'[c].opener = Provider(c)' /\ channels'[c].transfer \in Offered(c)'
  <2>1. c \in DOMAIN channels /\ channels'[c] = channels[c]
    BY <1>3 DEF vars
  <2>2. c \in Plan /\ channels[c].opener = Provider(c) /\ channels[c].transfer \in Offered(c)
    BY <2>1 DEF RoomTyped
  <2>3. c \in Plan' /\ Provider(c)' = Provider(c) /\ Found(c) \subseteq Found(c)'
    BY <2>2, SamePlanFacts DEF Grows
  <2>4. Offered(c) \subseteq Offered(c)'
    BY <2>3 DEF Offered
  <2>5. QED  BY <2>1, <2>2, <2>3, <2>4
<1>4. QED  BY <1>1, <1>2, <1>3 DEF RoomTyped

LEMMA Wider ==
  ASSUME Grows, NEW j \in Joiner
  PROVE  Seq(News) \subseteq Seq(News)' /\ Seq(Ordered(j)) \subseteq Seq(Ordered(j))'
<1>1. News \subseteq News' /\ Ordered(j) \subseteq Ordered(j)'
  BY NewsKeeps
<1> DEFINE A == News
           B == News'
           C == Ordered(j)
           D == Ordered(j)'
<1> HIDE DEF A, B, C, D
<1>2. Seq(A) \subseteq Seq(B) /\ Seq(C) \subseteq Seq(D)
  <2>1. A \subseteq B /\ C \subseteq D
    BY <1>1 DEF A, B, C, D
  <2>2. QED  BY <2>1, SeqMonotonic
<1>3. QED  BY <1>2 DEF A, B, C, D

LEMMA QueueKeeps ==
  ASSUME QueuesTyped, UNCHANGED <<toHost, peerLink>>, Grows
  PROVE  QueuesTyped'
<1>1. ASSUME NEW j \in Joiner
      PROVE  toHost[j] \in Seq(News)' /\ toHost[j] \in Seq(Ordered(j))' /\ peerLink[j] \in Seq(News)'
  <2>1. toHost[j] \in Seq(News) /\ toHost[j] \in Seq(Ordered(j)) /\ peerLink[j] \in Seq(News)
    BY DEF QueuesTyped
  <2>2. QED  BY <2>1, Wider
<1>2. toHost' \in [Joiner -> Seq(News)'] /\ peerLink' \in [Joiner -> Seq(News)']
  BY <1>1 DEF QueuesTyped
<1>3. \A j \in Joiner : toHost'[j] \in Seq(Ordered(j))'
  BY <1>1
<1>4. QED  BY <1>2, <1>3 DEF QueuesTyped

LEMMA ViewsKeep ==
  ASSUME ViewsTyped, UNCHANGED view, Grows
  PROVE  ViewsTyped'
BY SamePlanFacts DEF ViewsTyped, Grows

LEMMA ProviderKeeps ==
  ASSUME ProviderTyped, SamePlan, UNCHANGED provider
  PROVE  ProviderTyped'
BY SamePlanFacts DEF ProviderTyped, provider, SamePlan, Plan, Preparation

LEMMA DisksKeep ==
  ASSUME DisksTyped, UNCHANGED files
  PROVE  DisksTyped'
BY DEF DisksTyped, files, LeadsTo

LEMMA DownloadsKeep ==
  ASSUME DownloadsTyped, SamePlan, UNCHANGED <<accepted, clashes, downloads, received, bytes>>
  PROVE  DownloadsTyped'
BY SamePlanFacts DEF DownloadsTyped
-----------------------------------------------------------------------------
(* The host executes a command.                                            *)

\* What the engine is to have in store, in terms of the digests found before the step.
RoomFollows ==
  /\ IInv' /\ members' = MemberId
  /\ \A c \in DOMAIN channels' :
       c \in Plan /\ channels'[c].opener = Provider(c) /\ channels'[c].transfer \in Offered(c)

\* A command or an event of m on a channel that is m's own unless m quits it.
Rightful(m, e) == e.type \notin Quits => Provider(e.on) = m

LEMMA OpenExecuted ==
  ASSUME RoomTyped, ProviderTyped, NEW m \in MemberId, NEW c \in Plan, Provider(c) = m,
         OpenChannel(m, c, "file", plan[c].to, Offer(c, NoDigest))
  PROVE  RoomFollows
<1> DEFINE offer == Offer(c, NoDigest)
<1>1. /\ c \in ChannelId /\ plan[c].to \in Route /\ "file" \in ChannelKind
      /\ offer \in TransferOffer /\ offer \in Offered(c)
  BY PlanFacts, OfferFacts, FileOffersAssumption DEF Found
<1> HIDE DEF offer
<1>2. Next
  BY <1>1 DEF Next, ChannelCall, offer
<1>3. IInv'
  BY <1>2, IInvNext DEF RoomTyped
<1>4. CASE Refused("channel_opened", m, c)
  BY <1>3, <1>4 DEF RoomFollows, RoomTyped, Refused, room
<1>5. CASE ~Refused("channel_opened", m, c)
  <2>1. /\ members' = members
        /\ channels' = [d \in DOMAIN channels \cup {c} |->
               IF d = c
               THEN [opener |-> m, kind |-> "file",
                     participants |-> Audience(m, plan[c].to), transfer |-> offer]
               ELSE channels[d]]
    BY <1>5 DEF OpenChannel, offer
  <2>2. \A d \in DOMAIN channels' :
           \/ d = c /\ channels'[d].opener = m /\ channels'[d].transfer = offer
           \/ d \in DOMAIN channels /\ channels'[d] = channels[d]
    BY <2>1
  <2>3. QED  BY <1>1, <1>3, <2>1, <2>2 DEF RoomFollows, RoomTyped
<1>6. QED  BY <1>4, <1>5

LEMMA UpdateExecuted ==
  ASSUME RoomTyped, ProviderTyped, NEW m \in MemberId, NEW c \in Plan, NEW digest \in Found(c),
         UpdateChannelTransfer(m, c, Offer(c, digest))
  PROVE  RoomFollows
<1> DEFINE offer == Offer(c, digest)
<1>1. c \in ChannelId /\ offer \in TransferOffer /\ offer \in Offered(c)
  BY PlanFacts, OfferFacts
<1> HIDE DEF offer
<1>2. Next
  BY <1>1 DEF Next, ChannelCall, offer
<1>3. IInv'
  BY <1>2, IInvNext DEF RoomTyped
<1>4. CASE Refused("channel_transfer", m, c)
  BY <1>3, <1>4 DEF RoomFollows, RoomTyped, Refused, room
<1>5. CASE ~Refused("channel_transfer", m, c)
  <2>1. /\ members' = members /\ c \in DOMAIN channels
        /\ channels' = [channels EXCEPT ![c].transfer = offer]
    BY <1>5 DEF UpdateChannelTransfer, offer
  <2>2. channels[c] \in Channel
    BY <2>1 DEF RoomTyped, IInv, TypeOK
  <2>3. /\ channels'[c].opener = channels[c].opener /\ channels'[c].transfer = offer
        /\ DOMAIN channels' = DOMAIN channels
        /\ \A d \in DOMAIN channels \ {c} : channels'[d] = channels[d]
    BY <2>1, <2>2 DEF Channel
  <2>4. QED  BY <1>1, <1>3, <2>1, <2>3 DEF RoomFollows, RoomTyped
<1>6. QED  BY <1>4, <1>5

LEMMA QuitExecuted ==
  ASSUME RoomTyped, ProviderTyped, NEW m \in MemberId, NEW c \in Plan,
         RejectChannel(m, c) \/ CloseChannel(m, c)
  PROVE  RoomFollows
<1>1. c \in ChannelId
  BY PlanFacts
<1>2. Next
  BY <1>1 DEF Next, ChannelCall
<1>3. IInv'
  BY <1>2, IInvNext DEF RoomTyped
<1>4. PICK event \in {"channel_rejected", "channel_closed"} : Quit(event, m, c)
  BY DEF RejectChannel, CloseChannel
<1>5. CASE Refused(event, m, c)
  BY <1>3, <1>5 DEF RoomFollows, RoomTyped, Refused, room
<1>6. CASE ~Refused(event, m, c)
  <2>1. members' = members /\ c \in DOMAIN channels /\ channels' = WithoutParticipant(c, m)
    BY <1>4, <1>6 DEF Quit, MayUse
  <2>2. channels[c] \in Channel
    BY <2>1 DEF RoomTyped, IInv, TypeOK
  <2>3. \A d \in DOMAIN channels' :
          /\ d \in DOMAIN channels
          /\ channels'[d].opener = channels[d].opener
          /\ channels'[d].transfer = channels[d].transfer
    BY <2>1, <2>2 DEF WithoutParticipant, Channel
  <2>4. QED  BY <1>3, <2>1, <2>3 DEF RoomFollows, RoomTyped
<1>7. QED  BY <1>5, <1>6

LEMMA Executed ==
  ASSUME RoomTyped, QueuesTyped, ProviderTyped, NEW m \in MemberId, NEW e \in News,
         Rightful(m, e), Execute(m, e)
  PROVE  RoomFollows /\ peerLink' \in [Joiner -> Seq(News)]
<1>1. /\ e.on \in Plan /\ e.digest \in Found(e.on)
      /\ e.type \in {"channel_opened", "channel_transfer", "channel_rejected", "channel_closed"}
      /\ e.type \in {"channel_opened", "channel_transfer"} => Provider(e.on) = m
  BY NewsFacts DEF Rightful, Quits
<1>2. RoomFollows
  <2>1. CASE e.type = "channel_opened"
    <3>1. OpenChannel(m, e.on, "file", plan[e.on].to, Offer(e.on, NoDigest))
      BY <2>1 DEF Execute
    <3>2. QED  BY <1>1, <2>1, <3>1, OpenExecuted
  <2>2. CASE e.type = "channel_transfer"
    <3>1. UpdateChannelTransfer(m, e.on, Offer(e.on, e.digest))
      BY <2>2 DEF Execute
    <3>2. QED  BY <1>1, <3>1, UpdateExecuted
  <2>3. CASE e.type \in {"channel_rejected", "channel_closed"}
    <3>1. RejectChannel(m, e.on) \/ CloseChannel(m, e.on)
      BY <2>3 DEF Execute
    <3>2. QED  BY <1>1, <3>1, QuitExecuted
  <2>4. QED  BY <1>1, <2>1, <2>2, <2>3
<1>3. peerLink' \in [Joiner -> Seq(News)]
  <2> DEFINE N == News
  <2>1. e \in N /\ peerLink \in [Joiner -> Seq(N)]
    BY DEF QueuesTyped
  <2>2. Deliver(e)
    BY DEF Execute
  <2> HIDE DEF N
  <2>3. QED  BY <2>1, <2>2 DEF Deliver, N
<1>4. QED  BY <1>2, <1>3
-----------------------------------------------------------------------------
(* Maps, and a joiner's copy of the room.                                  *)

LEMMA MapFacts ==
  ASSUME NEW D, NEW S, NEW f \in Map(D, S)
  PROVE  /\ DOMAIN f \subseteq D /\ \A x \in DOMAIN f : f[x] \in S
         /\ f = [x \in DOMAIN f |-> f[x]]
BY DEF Map

LEMMA IsMap ==
  ASSUME NEW D, NEW S, NEW E \in SUBSET D, NEW f \in [E -> S]
  PROVE  f \in Map(D, S)
BY DEF Map

LEMMA PutTyped ==
  ASSUME NEW D, NEW S, NEW f \in Map(D, S), NEW k \in D, NEW x \in S
  PROVE  Put(f, k, x) \in Map(D, S)
<1>1. Put(f, k, x) \in [DOMAIN f \cup {k} -> S] /\ DOMAIN f \cup {k} \in SUBSET D
  BY MapFacts DEF Put
<1>2. QED  BY <1>1, IsMap

LEMMA DropTyped ==
  ASSUME NEW D, NEW S, NEW f \in Map(D, S), NEW k
  PROVE  Drop(f, k) \in Map(D, S)
<1>1. Drop(f, k) \in [DOMAIN f \ {k} -> S] /\ DOMAIN f \ {k} \in SUBSET D
  BY MapFacts DEF Drop, Restrict
<1>2. QED  BY <1>1, IsMap

LEMMA ChangeFacts ==
  ASSUME NEW D, NEW S, NEW f \in Map(D, S), NEW k \in DOMAIN f, NEW x \in S
  PROVE  /\ [f EXCEPT ![k] = x] \in Map(D, S)
         /\ DOMAIN [f EXCEPT ![k] = x] = DOMAIN f
<1>1. [f EXCEPT ![k] = x] \in [DOMAIN f -> S] /\ DOMAIN f \in SUBSET D
  BY MapFacts
<1> DEFINE g == [f EXCEPT ![k] = x]
<1>2. DOMAIN g = DOMAIN f
  OBVIOUS
<1> HIDE DEF g
<1>3. g \in Map(D, S)
  BY <1>1, IsMap DEF g
<1>4. QED  BY <1>2, <1>3 DEF g

\* A copy of the room a joiner may have.
CopyOK(v) == v \in CopyMap /\ \A c \in DOMAIN v : c \in Plan /\ v[c].digest \in Found(c)

LEMMA OpenedCopy ==
  ASSUME ProviderTyped, members = MemberId, NEW v, CopyOK(v), NEW c \in Plan
  PROVE  CopyOK(OpenedIn(v, c))
<1> DEFINE new == [participants |-> Audience(Provider(c), plan[c].to), digest |-> NoDigest]
<1>1. Audience(Provider(c), plan[c].to) \subseteq MemberId
  BY PlanFacts DEF Audience, Route, All
<1>2. new \in Copy /\ c \in ChannelId /\ new.digest \in Found(c)
  BY <1>1, PlanFacts DEF Copy, Digest, Found
<1> HIDE DEF new
<1>3. OpenedIn(v, c) = Put(v, c, new)
  BY DEF OpenedIn, new
<1>4. v \in Map(ChannelId, Copy)
  BY DEF CopyOK, CopyMap
<1> DEFINE g == Put(v, c, new)
<1> HIDE DEF g
<1>5. /\ g \in Map(ChannelId, Copy) /\ DOMAIN g = DOMAIN v \cup {c} /\ g[c] = new
      /\ \A i \in DOMAIN v \ {c} : g[i] = v[i]
  <2>1. g = Put(v, c, new)
    BY DEF g
  <2>2. g \in Map(ChannelId, Copy)
    BY <1>2, <1>4, <2>1, PutTyped
  <2>3. /\ DOMAIN g = DOMAIN v \cup {c} /\ g[c] = new
        /\ \A i \in DOMAIN v \ {c} : g[i] = v[i]
    BY <2>1 DEF Put
  <2>4. QED  BY <2>2, <2>3
<1>6. CopyOK(g)
  BY <1>2, <1>5 DEF CopyOK, CopyMap
<1>7. QED  BY <1>3, <1>6 DEF g

LEMMA PublishedCopy ==
  ASSUME ProviderTyped, NEW v, CopyOK(v), NEW c \in Plan, NEW digest \in Found(c)
  PROVE  CopyOK(PublishedIn(v, c, digest)) /\ DOMAIN PublishedIn(v, c, digest) = DOMAIN v
<1>1. CASE c \notin DOMAIN v
  BY <1>1 DEF PublishedIn
<1>2. CASE c \in DOMAIN v
  <2> DEFINE new == [v[c] EXCEPT !.digest = digest]
             g == [v EXCEPT ![c] = new]
  <2>1. v \in Map(ChannelId, Copy) /\ v[c] \in Copy
    BY <1>2, MapFacts DEF CopyOK, CopyMap
  <2>2. new \in Copy /\ new.digest = digest
    BY <2>1, OfferFacts DEF Copy
  <2> HIDE DEF new
  <2>3. g[c] = new /\ \A d \in DOMAIN v \ {c} : g[d] = v[d]
    BY <1>2
  <2>4. g \in Map(ChannelId, Copy) /\ DOMAIN g = DOMAIN v
    BY <1>2, <2>1, <2>2, ChangeFacts
  <2>5. PublishedIn(v, c, digest) = g
    BY <1>2 DEF PublishedIn, new
  <2> HIDE DEF g
  <2>6. QED  BY <2>2, <2>3, <2>4, <2>5 DEF CopyOK, CopyMap
<1>3. QED  BY <1>1, <1>2

LEMMA DroppedCopy ==
  ASSUME NEW v, CopyOK(v), NEW c
  PROVE  CopyOK(Drop(v, c))
<1>1. v \in Map(ChannelId, Copy)
  BY DEF CopyOK, CopyMap
<1>2. PICK g : g = Drop(v, c)
  OBVIOUS
<1>3. /\ g \in Map(ChannelId, Copy) /\ DOMAIN g = DOMAIN v \ {c}
      /\ \A i \in DOMAIN v \ {c} : g[i] = v[i]
  <2>1. g \in Map(ChannelId, Copy)
    BY <1>1, <1>2, DropTyped
  <2>2. DOMAIN g = DOMAIN v \ {c} /\ \A i \in DOMAIN v \ {c} : g[i] = v[i]
    BY <1>2 DEF Drop, Restrict
  <2>3. QED  BY <2>1, <2>2
<1>4. CopyOK(g)
  BY <1>3 DEF CopyOK, CopyMap
<1>5. QED  BY <1>2, <1>4

LEMMA QuitCopy ==
  ASSUME ProviderTyped, NEW v, CopyOK(v), NEW j, NEW c, NEW m
  PROVE  CopyOK(QuitIn(v, j, c, m))
<1> DEFINE rest == v[c].participants \ {m}
           new == [v[c] EXCEPT !.participants = rest]
           g == [v EXCEPT ![c] = new]
<1>1. CASE c \in DOMAIN v
  <2>1. v \in Map(ChannelId, Copy) /\ v[c] \in Copy
    BY <1>1, MapFacts DEF CopyOK, CopyMap
  <2>2. new \in Copy /\ new.digest = v[c].digest
    BY <2>1 DEF Copy
  <2>3. QuitIn(v, j, c, m) \in {g, Drop(v, c)}
    BY <1>1 DEF QuitIn
  <2> HIDE DEF new
  <2>4. g[c] = new /\ \A d \in DOMAIN v \ {c} : g[d] = v[d]
    BY <1>1
  <2>5. g \in Map(ChannelId, Copy) /\ DOMAIN g = DOMAIN v
    BY <1>1, <2>1, <2>2, ChangeFacts
  <2> HIDE DEF g
  <2>6. CopyOK(g)
    BY <2>2, <2>4, <2>5 DEF CopyOK, CopyMap
  <2>7. QED  BY <2>3, <2>6, DroppedCopy
<1>2. QED  BY <1>1 DEF QuitIn

LEMMA AppliedCopy ==
  ASSUME ProviderTyped, members = MemberId, NEW v, CopyOK(v), NEW j, NEW e \in News
  PROVE  CopyOK(Applied(v, j, e))
<1>1. e.on \in Plan /\ e.digest \in Found(e.on)
  BY DEF News, Plan
<1>2. Applied(v, j, e) \in
        {OpenedIn(v, e.on), PublishedIn(v, e.on, e.digest), QuitIn(v, j, e.on, e.by)}
  BY DEF Applied
<1>3. QED  BY <1>1, <1>2, OpenedCopy, PublishedCopy, QuitCopy
-----------------------------------------------------------------------------
(* A member's command.                                                     *)

QueuesFollow ==
  /\ toHost' \in [Joiner -> Seq(News)] /\ \A j \in Joiner : toHost'[j] \in Seq(Ordered(j))
  /\ peerLink' \in [Joiner -> Seq(News)]
ViewsFollow == view' \in [Joiner -> CopyMap] /\ \A j \in Joiner : CopyOK(view'[j])

LEMMA RoomSettles ==
  ASSUME RoomFollows, Grows
  PROVE  RoomTyped'
<1>1. ASSUME NEW c \in DOMAIN channels'
      PROVE  c \in Plan' /\ channels'[c].opener = Provider(c)' /\ channels'[c].transfer \in Offered(c)'
  <2>1. c \in Plan /\ channels'[c].opener = Provider(c) /\ channels'[c].transfer \in Offered(c)
    BY <1>1 DEF RoomFollows
  <2>2. c \in Plan' /\ Provider(c)' = Provider(c) /\ Found(c) \subseteq Found(c)'
    BY <2>1, SamePlanFacts DEF Grows
  <2>3. Offered(c) \subseteq Offered(c)'
    BY <2>2 DEF Offered
  <2>4. QED  BY <2>1, <2>2, <2>3
<1>2. QED  BY <1>1 DEF RoomTyped, RoomFollows

LEMMA QueuesSettle ==
  ASSUME QueuesFollow, Grows
  PROVE  QueuesTyped'
<1>1. ASSUME NEW j \in Joiner
      PROVE  toHost'[j] \in Seq(News)' /\ toHost'[j] \in Seq(Ordered(j))' /\ peerLink'[j] \in Seq(News)'
  <2>1. toHost'[j] \in Seq(News) /\ toHost'[j] \in Seq(Ordered(j)) /\ peerLink'[j] \in Seq(News)
    BY DEF QueuesFollow
  <2>2. QED  BY <2>1, Wider
<1>2. toHost' \in [Joiner -> Seq(News)'] /\ peerLink' \in [Joiner -> Seq(News)']
  BY <1>1 DEF QueuesFollow
<1>3. QED  BY <1>1, <1>2 DEF QueuesTyped

LEMMA ViewsSettle ==
  ASSUME ViewsFollow, Grows
  PROVE  ViewsTyped'
BY SamePlanFacts DEF ViewsTyped, ViewsFollow, CopyOK, Grows

LEMMA ViewIsCopy ==
  ASSUME ViewsTyped, NEW j \in Joiner
  PROVE  CopyOK(view[j])
BY DEF ViewsTyped, CopyOK

LEMMA ViewChanges ==
  ASSUME ViewsTyped, NEW j \in Joiner, NEW v, CopyOK(v), view' = [view EXCEPT ![j] = v]
  PROVE  ViewsFollow
<1>1. \A i \in Joiner : CopyOK(view'[i])
  BY ViewIsCopy DEF ViewsTyped
<1>2. view' \in [Joiner -> CopyMap]
  BY DEF ViewsTyped, CopyOK
<1>3. QED  BY <1>1, <1>2 DEF ViewsFollow

LEMMA Commanded ==
  ASSUME RoomTyped, QueuesTyped, ViewsTyped, ProviderTyped, NEW m \in MemberId, NEW e \in News,
         Rightful(m, e), Command(m, e), Grows
  PROVE  RoomTyped' /\ QueuesTyped' /\ ViewsTyped'
<1>1. CASE m = Host
  <2>1. Execute(m, e) /\ UNCHANGED <<toHost, view>>
    BY <1>1 DEF Command
  <2>2. RoomFollows /\ peerLink' \in [Joiner -> Seq(News)]
    BY <2>1, Executed
  <2>3. QueuesFollow
    BY <2>1, <2>2 DEF QueuesFollow, QueuesTyped
  <2>4. QED  BY <2>1, <2>2, <2>3, RoomSettles, QueuesSettle, ViewsKeep
<1>2. CASE m # Host
  <2>1. m \in Joiner
    BY <1>2 DEF Joiner
  <2>2. /\ Send(m, e) /\ UNCHANGED <<room, reply, peerLink>>
        /\ view' = [view EXCEPT ![m] =
                     IF e.type \in Quits THEN Drop(@, e.on) ELSE Applied(@, m, e)]
    BY <1>2 DEF Command
  <2>3. RoomTyped'
    BY <2>2, RoomKeeps DEF vars, room
  <2>4. QueuesFollow
    <3> DEFINE N == News
               O(j) == Ordered(j)
    <3>1. e \in N /\ e \in O(m) /\ toHost \in [Joiner -> Seq(N)]
          /\ peerLink \in [Joiner -> Seq(N)] /\ \A j \in Joiner : toHost[j] \in Seq(O(j))
      BY DEF QueuesTyped, Ordered, Rightful
    <3> HIDE DEF N, O
    <3>2. toHost' = [toHost EXCEPT ![m] = Append(toHost[m], e)] /\ peerLink' = peerLink
      BY <2>2 DEF Send
    <3>3. Append(toHost[m], e) \in Seq(N) /\ Append(toHost[m], e) \in Seq(O(m))
      BY <2>1, <3>1
    <3>4. toHost' \in [Joiner -> Seq(N)]
      BY <3>1, <3>2, <3>3
    <3>5. \A j \in Joiner : toHost'[j] \in Seq(O(j))
      BY <3>1, <3>2, <3>3
    <3>6. QED  BY <3>1, <3>2, <3>4, <3>5 DEF QueuesFollow, N, O
  <2>5. ViewsFollow
    <3> DEFINE v == IF e.type \in Quits THEN Drop(view[m], e.on) ELSE Applied(view[m], m, e)
    <3>1. CopyOK(view[m])
      BY <2>1, ViewIsCopy
    <3>2. members = MemberId
      BY DEF RoomTyped
    <3>3. CopyOK(Drop(view[m], e.on)) /\ CopyOK(Applied(view[m], m, e))
      BY <3>1, <3>2, DroppedCopy, AppliedCopy
    <3>4. CopyOK(v)
      BY <3>3
    <3>5. view' = [view EXCEPT ![m] = v]
      BY <2>2
    <3> HIDE DEF v
    <3>6. QED  BY <2>1, <3>4, <3>5, ViewChanges
  <2>6. QED  BY <2>3, <2>4, <2>5, QueuesSettle, ViewsSettle
<1>3. QED  BY <1>1, <1>2
-----------------------------------------------------------------------------
(* The provider's steps.                                                   *)

Stages == {"unsent", "preparing", "ready", "published", "failed", "given up"}

LEMMA Staged ==
  ASSUME ProviderTyped, NEW c \in Plan, NEW stage \in Stages, Stage(c, stage), SamePlan,
         source' = source, registered' \subseteq Plan,
         stage \in {"ready", "published"} \/ prepared[c].digest = NoDigest
  PROVE  ProviderTyped' /\ Stays
<1> DEFINE new == [prepared[c] EXCEPT !.stage = stage]
<1>1. prepared \in [Plan -> Preparation] /\ prepared[c] \in Preparation
  BY DEF ProviderTyped
<1>2. new \in Preparation /\ new.stage = stage /\ new.digest = prepared[c].digest
  BY <1>1 DEF Preparation, Stages
<1>3. prepared' = [prepared EXCEPT ![c] = new]
  BY DEF Stage
<1> HIDE DEF new
<1>4. prepared' \in [Plan -> Preparation] /\ prepared'[c] = new
      /\ \A d \in Plan \ {c} : prepared'[d] = prepared[d]
  BY <1>1, <1>2, <1>3
<1>5. Plan' = Plan
  BY SamePlanFacts
<1>6. Stays
  BY <1>2, <1>4 DEF Stays
<1>7. \A d \in Plan : prepared'[d].digest # NoDigest => prepared'[d].stage \in {"ready", "published"}
  BY <1>2, <1>4 DEF ProviderTyped
<1>8. QED
  BY <1>4, <1>5, <1>6, <1>7 DEF ProviderTyped, SamePlan

RestKeeps == UNCHANGED <<accepted, clashes, downloads, received, files>>

LEMMA RestKeepsTypes ==
  ASSUME DisksTyped, DownloadsTyped, SamePlan, RestKeeps
  PROVE  DisksTyped' /\ DownloadsTyped'
BY DisksKeep, DownloadsKeep DEF RestKeeps, files

LEMMA QuitChannelTyped ==
  ASSUME Typed, NEW m \in MemberId, NEW c \in Plan, QuitChannel(m, c)
  PROVE  Typed'
<1> DEFINE type == IF m = Provider(c) THEN "channel_closed" ELSE "channel_rejected"
           e == Message(type, m, c, NoDigest)
<1>1. /\ Command(m, e) /\ UNCHANGED provider
      /\ SamePlan /\ RestKeeps
  BY DEF QuitChannel, SamePlan, RestKeeps
<1>2. ProviderTyped /\ NoDigest \in Found(c)
  BY DEF Typed, Found
<1>3. e \in News /\ e.type \in Quits
  <2>1. type \in Quits
    BY DEF Quits
  <2>2. type \in {"channel_opened", "channel_transfer", "channel_rejected", "channel_closed"}
    OBVIOUS
  <2> HIDE DEF type
  <2>3. QED  BY <1>2, <2>1, <2>2, MakesNews
<1> HIDE DEF e
<1>4. Rightful(m, e)
  BY <1>3 DEF Rightful
<1>5. Grows
  BY <1>1 DEF Grows, provider, Found
<1>6. RoomTyped' /\ QueuesTyped' /\ ViewsTyped'
  BY <1>1, <1>3, <1>4, <1>5, Commanded DEF Typed
<1>7. QED  BY <1>1, <1>6, ProviderKeeps, RestKeepsTypes DEF Typed

LEMMA SendPathTyped ==
  ASSUME Typed, NEW c \in Plan, SendPath(c)
  PROVE  Typed'
<1> DEFINE m == Provider(c)
           e == Message("channel_opened", m, c, NoDigest)
<1>1. /\ Command(m, e) /\ SamePlan /\ RestKeeps
      /\ Stage(c, "preparing") /\ source' = source /\ prepared[c].stage = "unsent"
      /\ registered' = RegisteredOnOffer(c)
  BY DEF SendPath, SamePlan, RestKeeps
<1>2. ProviderTyped /\ NoDigest \in Found(c) /\ m \in MemberId
  BY PlanFacts DEF Typed, Found
<1>3. e \in News /\ Rightful(m, e)
  <2>1. e \in News /\ e.on = c
    BY <1>2, MakesNews
  <2>2. QED  BY <2>1 DEF Rightful
<1>4. registered' \subseteq Plan
  BY <1>1, <1>2 DEF RegisteredOnOffer, ProviderTyped
<1>5. prepared[c].digest = NoDigest
  BY <1>1, <1>2 DEF ProviderTyped
<1>6. ProviderTyped' /\ Grows
  BY <1>1, <1>2, <1>4, <1>5, Staged, StaysGrows DEF Stages
<1> HIDE DEF m, e
<1>7. RoomTyped' /\ QueuesTyped' /\ ViewsTyped'
  BY <1>1, <1>2, <1>3, <1>6, Commanded DEF Typed
<1>8. QED  BY <1>1, <1>6, <1>7, RestKeepsTypes DEF Typed

LEMMA EditSourceTyped ==
  ASSUME Typed, NEW c \in Plan, EditSource(c)
  PROVE  Typed'
<1>1. /\ source' = [source EXCEPT ![c] = Source(c, "edited")]
      /\ UNCHANGED <<vars, links, prepared, registered>> /\ SamePlan /\ RestKeeps
  BY DEF EditSource, SamePlan, RestKeeps
<1>2. c \in ChannelId
  BY PlanFacts DEF Typed
<1>3. Source(c, "edited") \in Content
  BY <1>2, NoDigestIsNone
<1>4. source' \in [Plan -> Content]
  BY <1>1, <1>3 DEF Typed, ProviderTyped
<1>5. Grows
  BY <1>1 DEF Grows, Found
<1>6. ProviderTyped'
  BY <1>1, <1>4, SamePlanFacts DEF Typed, ProviderTyped, SamePlan, Preparation
<1>7. RoomTyped' /\ QueuesTyped' /\ ViewsTyped'
  BY <1>1, <1>5, RoomKeeps, QueueKeeps, ViewsKeep DEF Typed, links
<1>8. QED  BY <1>1, <1>6, <1>7, RestKeepsTypes DEF Typed

LEMMA PrepareTyped ==
  ASSUME Typed, NEW c \in Plan, Prepare(c)
  PROVE  Typed'
<1>1. /\ prepared[c].stage = "preparing" /\ source' = source
      /\ UNCHANGED <<vars, links>> /\ SamePlan /\ RestKeeps
  BY DEF Prepare, SamePlan, RestKeeps
<1>2. ProviderTyped /\ prepared[c].digest = NoDigest
  BY <1>1 DEF Typed, ProviderTyped
<1>3. ProviderTyped' /\ Grows
  <2>1. CASE Stage(c, "failed") /\ UNCHANGED registered
    BY <1>1, <1>2, <2>1, Staged, StaysGrows DEF Stages, ProviderTyped
  <2>2. CASE /\ prepared' = [prepared EXCEPT ![c] =
                  [stage |-> "ready", digest |-> IF IsFile(c) THEN source[c] ELSE NoDigest]]
             /\ registered' = registered \cup {c}
    <3> DEFINE new == [stage |-> "ready", digest |-> IF IsFile(c) THEN source[c] ELSE NoDigest]
    <3>1. new \in Preparation /\ new.stage = "ready"
      BY <1>2 DEF ProviderTyped, Preparation, Digest
    <3>2. prepared' = [prepared EXCEPT ![c] = new] /\ prepared \in [Plan -> Preparation]
      BY <1>2, <2>2 DEF ProviderTyped
    <3> HIDE DEF new
    <3>3. prepared' \in [Plan -> Preparation] /\ prepared'[c] = new
          /\ \A d \in Plan \ {c} : prepared'[d] = prepared[d]
      BY <3>1, <3>2
    <3>4. registered' \subseteq Plan
      BY <1>2, <2>2 DEF ProviderTyped
    <3>5. Grows
      BY <1>1, <1>2, <3>3 DEF Grows, Found
    <3>6. \A d \in Plan : prepared'[d].digest # NoDigest => prepared'[d].stage \in {"ready", "published"}
      BY <1>2, <3>1, <3>3 DEF ProviderTyped
    <3>7. QED  BY <1>1, <1>2, <3>3, <3>4, <3>5, <3>6, SamePlanFacts DEF ProviderTyped, SamePlan
  <2>3. QED  BY <2>1, <2>2 DEF Prepare
<1>4. RoomTyped' /\ QueuesTyped' /\ ViewsTyped'
  BY <1>1, <1>3, RoomKeeps, QueueKeeps, ViewsKeep DEF Typed, links
<1>5. QED  BY <1>1, <1>3, <1>4, RestKeepsTypes DEF Typed

\* What a provider says of its own channel, or says nothing.
LEMMA Announced ==
  ASSUME Typed, Grows, NEW c \in Plan, NEW digest \in Found(c),
         NEW type \in {"channel_transfer", "channel_closed"},
         Command(Provider(c), Message(type, Provider(c), c, digest)) \/ NoCommand
  PROVE  RoomTyped' /\ QueuesTyped' /\ ViewsTyped'
<1> DEFINE m == Provider(c)
           e == Message(type, m, c, digest)
<1>1. m \in MemberId
  BY PlanFacts DEF Typed
<1>2. e \in News /\ Rightful(m, e)
  <2>1. e \in News /\ e.on = c
    BY <1>1, MakesNews DEF Typed
  <2>2. QED  BY <2>1 DEF Rightful
<1>3. CASE Command(m, e)
  <2> HIDE DEF m, e
  <2>1. QED  BY <1>1, <1>2, <1>3, Commanded DEF Typed
<1>4. CASE NoCommand
  BY <1>4, RoomKeeps, QueueKeeps, ViewsKeep DEF Typed, NoCommand, links
<1>5. QED  BY <1>3, <1>4

LEMMA PublishTyped ==
  ASSUME Typed, NEW c \in Plan, Publish(c)
  PROVE  Typed'
<1>1. /\ Stage(c, "published") /\ UNCHANGED <<source, registered>> /\ SamePlan /\ RestKeeps
      /\ \/ Command(Provider(c), Message("channel_transfer", Provider(c), c, prepared[c].digest))
         \/ NoCommand
  BY DEF Publish, SamePlan, RestKeeps
<1>2. ProviderTyped' /\ Grows
  BY <1>1, Staged, StaysGrows DEF Typed, ProviderTyped, Stages
<1>3. prepared[c].digest \in Found(c)
  BY DEF Found
<1>4. RoomTyped' /\ QueuesTyped' /\ ViewsTyped'
  BY <1>1, <1>2, <1>3, Announced
<1>5. QED  BY <1>1, <1>2, <1>4, RestKeepsTypes DEF Typed

LEMMA GiveUpTyped ==
  ASSUME Typed, NEW c \in Plan, GiveUp(c)
  PROVE  Typed'
<1>1. /\ Stage(c, "given up") /\ UNCHANGED <<source, registered>> /\ SamePlan /\ RestKeeps
      /\ prepared[c].stage = "failed"
      /\ \/ Command(Provider(c), Message("channel_closed", Provider(c), c, NoDigest))
         \/ NoCommand
  BY DEF GiveUp, SamePlan, RestKeeps
<1>2. prepared[c].digest = NoDigest
  BY <1>1 DEF Typed, ProviderTyped
<1>3. ProviderTyped' /\ Grows
  BY <1>1, <1>2, Staged, StaysGrows DEF Typed, ProviderTyped, Stages
<1>4. NoDigest \in Found(c)
  BY DEF Found
<1>5. RoomTyped' /\ QueuesTyped' /\ ViewsTyped'
  BY <1>1, <1>3, <1>4, Announced
<1>6. QED  BY <1>1, <1>3, <1>5, RestKeepsTypes DEF Typed
-----------------------------------------------------------------------------
(* The receiver's steps.                                                   *)

\* What leaves the room and its provider alone.
Outside == UNCHANGED <<vars, links, provider>> /\ SamePlan

LEMMA OutsideTyped ==
  ASSUME Typed, Outside
  PROVE  RoomTyped' /\ QueuesTyped' /\ ViewsTyped' /\ ProviderTyped'
<1>1. Grows
  BY DEF Outside, Grows, provider, Found
<1>2. QED  BY <1>1, RoomKeeps, QueueKeeps, ViewsKeep, ProviderKeeps DEF Typed, Outside, links

LEMMA DisksChange ==
  ASSUME DisksTyped, NEW r \in MemberId,
         NEW P \in PathMap, NEW Q \in PathMap, NEW B \in FileMap,
         parts' = [parts EXCEPT ![r] = P], disk' = [disk EXCEPT ![r] = Q],
         bytes' = [bytes EXCEPT ![r] = B],
         \A p \in DOMAIN P : P[p] \in DOMAIN B, \A p \in DOMAIN Q : Q[p] \in DOMAIN B,
         IsFiniteSet(DOMAIN Q)
  PROVE  DisksTyped'
<1>1. /\ parts' \in [MemberId -> PathMap] /\ disk' \in [MemberId -> PathMap]
      /\ bytes' \in [MemberId -> FileMap]
  BY DEF DisksTyped
<1>2. parts'[r] = P /\ disk'[r] = Q /\ bytes'[r] = B
  BY DEF DisksTyped
<1>3. \A q \in MemberId \ {r} : parts'[q] = parts[q] /\ disk'[q] = disk[q] /\ bytes'[q] = bytes[q]
  BY DEF DisksTyped
<1>4. ASSUME NEW q \in MemberId
      PROVE  IsFiniteSet(DOMAIN disk'[q]) /\ LeadsTo(parts[q], q)' /\ LeadsTo(disk[q], q)'
  <2>1. CASE q = r
    BY <1>2, <2>1 DEF LeadsTo
  <2>2. CASE q # r
    BY <1>3, <2>2 DEF LeadsTo, DisksTyped
  <2>3. QED  BY <2>1, <2>2
<1>5. QED  BY <1>1, <1>4 DEF DisksTyped

LEMMA SameThere ==
  ASSUME DisksTyped, NEW r \in MemberId
  PROVE  /\ parts = [parts EXCEPT ![r] = parts[r]]
         /\ disk = [disk EXCEPT ![r] = disk[r]]
         /\ bytes = [bytes EXCEPT ![r] = bytes[r]]
         /\ parts[r] \in PathMap /\ disk[r] \in PathMap /\ bytes[r] \in FileMap
         /\ \A p \in DOMAIN parts[r] : parts[r][p] \in DOMAIN bytes[r] /\ parts[r][p] \in ChannelId
         /\ \A p \in DOMAIN disk[r] : disk[r][p] \in DOMAIN bytes[r] /\ disk[r][p] \in ChannelId
         /\ IsFiniteSet(DOMAIN disk[r])
<1>1. /\ parts = [parts EXCEPT ![r] = parts[r]]
      /\ disk = [disk EXCEPT ![r] = disk[r]]
      /\ bytes = [bytes EXCEPT ![r] = bytes[r]]
      /\ parts[r] \in PathMap /\ disk[r] \in PathMap /\ bytes[r] \in FileMap
  BY DEF DisksTyped
<1>2. /\ \A p \in DOMAIN parts[r] : parts[r][p] \in DOMAIN bytes[r]
      /\ \A p \in DOMAIN disk[r] : disk[r][p] \in DOMAIN bytes[r]
      /\ IsFiniteSet(DOMAIN disk[r])
  BY DEF DisksTyped, LeadsTo
<1>3. /\ \A p \in DOMAIN parts[r] : parts[r][p] \in ChannelId
      /\ \A p \in DOMAIN disk[r] : disk[r][p] \in ChannelId
  BY <1>1, MapFacts DEF PathMap
<1>4. QED  BY <1>1, <1>2, <1>3

LEMMA DownloadFacts ==
  ASSUME NEW d \in Download
  PROVE  /\ d.by \in MemberId /\ d.on \in ChannelId /\ d.to \in SavePath
         /\ d.stage \in {"asking", "receiving", "done"} /\ d.file \in ChannelId
         /\ d.alone \in BOOLEAN /\ d.hash \in Digest
BY DEF Download, SavePath, Digest

LEMMA AcceptTyped ==
  ASSUME Typed, NEW r \in MemberId, NEW c \in Plan, Accept(r, c)
  PROVE  Typed'
<1> DEFINE d == [by |-> r, on |-> c, to |-> FreePath(r, plan[c].name), stage |-> "asking",
                 file |-> c, alone |-> TRUE, hash |-> NoDigest]
<1>1. /\ accepted' = accepted \cup {<<r, c>>} /\ downloads' = downloads \cup {d}
      /\ UNCHANGED received /\ UNCHANGED files /\ Outside
      /\ clashes' = clashes \/ clashes' = clashes \cup {<<r, FreePath(r, plan[c].name)>>}
  BY DEF Accept, Outside, SamePlan
<1>2. c \in ChannelId /\ plan[c].name \in Name
  BY PlanFacts DEF Typed
<1>3. FreePath(r, plan[c].name) \in SavePath
  BY <1>2, FreePathIsFree DEF Typed, DisksTyped
<1>4. d \in Download /\ d.on = c /\ d.stage = "asking"
  BY <1>2, <1>3 DEF Download, SavePath, Digest
<1> HIDE DEF d
<1>5. DownloadsTyped'
  <2>1. Plan' = Plan /\ bytes' = bytes /\ received' = received
    BY <1>1, SamePlanFacts DEF Outside, files
  <2>2. clashes' \subseteq MemberId \X SavePath
    BY <1>1, <1>3 DEF Typed, DownloadsTyped
  <2>3. QED  BY <1>1, <1>4, <2>1, <2>2 DEF Typed, DownloadsTyped
<1>6. DisksTyped'
  BY <1>1, DisksKeep DEF Typed
<1>7. QED  BY <1>1, <1>5, <1>6, OutsideTyped DEF Typed

LEMMA PartDropped ==
  ASSUME DisksTyped, NEW r \in MemberId, NEW p, parts' = [parts EXCEPT ![r] = Drop(@, p)],
         UNCHANGED <<disk, bytes>>
  PROVE  DisksTyped'
<1>1. PICK P : P = Drop(parts[r], p)
  OBVIOUS
<1>2. P \in PathMap
  BY <1>1, SameThere, DropTyped DEF PathMap
<1>3. \A q \in DOMAIN P : q \in DOMAIN parts[r] /\ P[q] = parts[r][q]
  BY <1>1 DEF Drop, Restrict
<1>4. \A q \in DOMAIN P : P[q] \in DOMAIN bytes[r]
  BY <1>3, SameThere
<1>5. /\ parts' = [parts EXCEPT ![r] = P] /\ disk' = [disk EXCEPT ![r] = disk[r]]
      /\ bytes' = [bytes EXCEPT ![r] = bytes[r]]
  BY <1>1, SameThere
<1>6. QED  BY <1>2, <1>4, <1>5, SameThere, DisksChange

LEMMA FailsTyped ==
  ASSUME Typed, NEW d \in downloads, Fails(d),
         UNCHANGED parts \/ parts' = [parts EXCEPT ![d.by] = Drop(@, d.to)]
  PROVE  Typed'
<1>1. /\ downloads' = downloads \ {d} /\ UNCHANGED <<accepted, clashes, received, disk, bytes>> /\ Outside
  BY DEF Fails, Outside, SamePlan
<1>2. DownloadsTyped'
  <2>1. Plan' = Plan
    BY <1>1, SamePlanFacts DEF Outside
  <2>2. QED  BY <1>1, <2>1 DEF Typed, DownloadsTyped
<1>3. DisksTyped'
  <2>1. d.by \in MemberId
    BY DownloadFacts DEF Typed, DownloadsTyped
  <2>2. QED  BY <1>1, <2>1, PartDropped, DisksKeep DEF Typed, files
<1>4. QED  BY <1>1, <1>2, <1>3, OutsideTyped DEF Typed

LEMMA IsRefusedTyped ==
  ASSUME Typed, NEW d \in downloads, IsRefused(d)
  PROVE  Typed'
BY FailsTyped DEF IsRefused

LEMMA IsBrokenTyped ==
  ASSUME Typed, NEW d \in downloads, IsBroken(d)
  PROVE  Typed'
BY FailsTyped DEF IsBroken
LEMMA DiskPut ==
  ASSUME DisksTyped, NEW r \in MemberId, NEW p \in SavePath,
         NEW f \in ChannelId, f \in DOMAIN bytes[r], NEW Q, Q = Put(disk[r], p, f)
  PROVE  /\ Q \in PathMap /\ IsFiniteSet(DOMAIN Q)
         /\ \A q \in DOMAIN Q : Q[q] \in DOMAIN bytes[r]
<1>1. Q \in PathMap
  BY PutTyped, SameThere DEF PathMap
<1>2. /\ DOMAIN Q = DOMAIN disk[r] \cup {p}
      /\ \A q \in DOMAIN Q : Q[q] = f \/ (q \in DOMAIN disk[r] /\ Q[q] = disk[r][q])
  BY DEF Put
<1>3. IsFiniteSet(DOMAIN Q)
  <2>1. IsFiniteSet(DOMAIN disk[r])
    BY SameThere
  <2>2. IsFiniteSet(DOMAIN disk[r] \cup {p})
    BY <2>1, FS_AddElement
  <2>3. QED  BY <1>2, <2>2
<1>4. QED  BY <1>1, <1>2, <1>3, SameThere

LEMMA BeginReceivingTyped ==
  ASSUME Typed, NEW d \in downloads, BeginReceiving(d)
  PROVE  Typed'
<1> DEFINE r == d.by
           file == IF d.to \in DOMAIN parts[r] THEN parts[r][d.to] ELSE d.on
           others == Sharing(d, file)
           mine == [d EXCEPT !.stage = "receiving", !.file = file, !.alone = (others = {})]
<1>1. d \in Download /\ r \in MemberId /\ d.on \in ChannelId /\ d.to \in SavePath /\ d.on \in Plan
  BY DownloadFacts DEF Typed, DownloadsTyped
<1>2. file \in ChannelId
  BY <1>1, SameThere DEF Typed
<1>3. /\ downloads' = (downloads \ (others \cup {d}))
           \cup {[x EXCEPT !.alone = FALSE] : x \in others} \cup {mine}
      /\ parts' = [parts EXCEPT ![r] = Put(@, d.to, file)]
      /\ bytes' = [bytes EXCEPT ![r] = Put(@, file, Partial)]
      /\ UNCHANGED <<accepted, clashes, received, disk>> /\ Outside
  BY DEF BeginReceiving, Outside, SamePlan
<1>4. others \subseteq downloads
  BY DEF Sharing
<1>5. /\ mine \in Download /\ mine.by = r /\ mine.on = d.on
      /\ mine.stage = "receiving" /\ mine.file = file
  <2> HIDE DEF file
  <2> DEFINE lonely == others = {}
  <2>1. lonely \in BOOLEAN
    OBVIOUS
  <2> HIDE DEF lonely
  <2>2. mine = [d EXCEPT !.stage = "receiving", !.file = file, !.alone = lonely]
    BY DEF lonely
  <2> HIDE DEF others, mine
  <2>3. QED  BY <1>1, <1>2, <2>1, <2>2 DEF Download
<1> HIDE DEF r, file, others, mine
<1>6. ASSUME NEW x \in others
      PROVE  /\ [x EXCEPT !.alone = FALSE] \in Download
             /\ [x EXCEPT !.alone = FALSE].on = x.on
             /\ [x EXCEPT !.alone = FALSE].by = x.by
             /\ [x EXCEPT !.alone = FALSE].file = x.file
             /\ [x EXCEPT !.alone = FALSE].stage = x.stage
  <2>1. x \in Download
    BY <1>4 DEF Typed, DownloadsTyped
  <2>2. QED  BY <2>1 DEF Download
<1>7. DisksTyped'
  <2>1. PICK P : P = Put(parts[r], d.to, file)
    OBVIOUS
  <2>2. PICK B : B = Put(bytes[r], file, Partial)
    OBVIOUS
  <2>3. P \in PathMap /\ B \in FileMap
    <3>1. P \in PathMap
      BY <1>1, <1>2, <2>1, PutTyped, SameThere DEF PathMap, Typed
    <3>2. B \in FileMap
      BY <1>1, <1>2, <2>2, PutTyped, SameThere, NoDigestIsNone DEF FileMap, Typed
    <3>3. QED  BY <3>1, <3>2
  <2>4. DOMAIN B = DOMAIN bytes[r] \cup {file}
    BY <2>2 DEF Put
  <2>5. \A p \in DOMAIN P : P[p] = file \/ (p \in DOMAIN parts[r] /\ P[p] = parts[r][p])
    BY <2>1 DEF Put
  <2>6. \A p \in DOMAIN P : P[p] \in DOMAIN B
    BY <1>1, <2>4, <2>5, SameThere DEF Typed
  <2>7. /\ parts' = [parts EXCEPT ![r] = P] /\ bytes' = [bytes EXCEPT ![r] = B]
        /\ disk' = [disk EXCEPT ![r] = disk[r]]
    BY <1>1, <1>3, <2>1, <2>2, SameThere DEF Typed
  <2>8. \A p \in DOMAIN disk[r] : disk[r][p] \in DOMAIN B
    BY <1>1, <2>4, SameThere DEF Typed
  <2>9. QED  BY <1>1, <2>3, <2>6, <2>7, <2>8, SameThere, DisksChange DEF Typed
<1>8. DownloadsTyped'
  <2>1. Plan' = Plan
    BY <1>3, SamePlanFacts DEF Outside
  <2>2. downloads' \subseteq Download /\ \A x \in downloads' : x.on \in Plan
    <3>1. downloads \subseteq Download /\ \A x \in downloads : x.on \in Plan
      BY DEF Typed, DownloadsTyped
    <3>2. ASSUME NEW x \in downloads' PROVE x \in Download /\ x.on \in Plan
      <4>1. CASE x = mine
        BY <1>1, <1>5, <4>1
      <4>2. CASE x \in downloads
        BY <3>1, <4>2
      <4>3. ASSUME NEW y \in others, x = [y EXCEPT !.alone = FALSE]
            PROVE  x \in Download /\ x.on \in Plan
        <5>1. x \in Download /\ x.on = y.on /\ y \in downloads
          BY <1>4, <1>6, <4>3
        <5>2. QED  BY <3>1, <5>1
      <4>4. QED  BY <1>3, <4>1, <4>2, <4>3
    <3>3. QED  BY <3>2
  <2>3. /\ file \in DOMAIN bytes'[r]
        /\ \A q \in MemberId : DOMAIN bytes[q] \subseteq DOMAIN bytes'[q]
    <3>1. bytes \in [MemberId -> FileMap]
      BY DEF Typed, DisksTyped
    <3>2. bytes'[r] = Put(bytes[r], file, Partial) /\ \A q \in MemberId \ {r} : bytes'[q] = bytes[q]
      BY <1>1, <1>3, <3>1
    <3>3. DOMAIN bytes'[r] = DOMAIN bytes[r] \cup {file}
      BY <3>2 DEF Put
    <3>4. QED  BY <3>2, <3>3
  <2>4. ASSUME NEW x \in downloads', x.stage = "receiving"
        PROVE  x.file \in DOMAIN bytes'[x.by]
    <3>1. CASE x = mine
      BY <1>5, <2>3, <3>1
    <3>2. CASE x \in downloads
      BY <2>3, <2>4, <3>2, DownloadFacts DEF Typed, DownloadsTyped
    <3>3. ASSUME NEW y \in others, x = [y EXCEPT !.alone = FALSE]
          PROVE  x.file \in DOMAIN bytes'[x.by]
      <4>1. x.by = y.by /\ x.file = y.file /\ y \in downloads /\ y.stage = "receiving"
        BY <1>4, <1>6, <2>4, <3>3
      <4>2. QED  BY <2>3, <4>1, DownloadFacts DEF Typed, DownloadsTyped
    <3>4. QED  BY <1>3, <3>1, <3>2, <3>3
  <2>5. UNCHANGED <<accepted, clashes, received>>
    BY <1>3
  <2>6. QED  BY <2>1, <2>2, <2>4, <2>5 DEF Typed, DownloadsTyped
<1>9. QED  BY <1>3, <1>7, <1>8, OutsideTyped DEF Typed

LEMMA FinishReceivingTyped ==
  ASSUME Typed, NEW d \in downloads, FinishReceiving(d)
  PROVE  Typed'
<1> DEFINE r == d.by
           mine == [d EXCEPT !.stage = "done", !.hash = source[d.on]]
<1>1. /\ d \in Download /\ r \in MemberId /\ d.on \in Plan /\ d.to \in SavePath
      /\ d.file \in ChannelId /\ d.file \in DOMAIN bytes[r]
  BY DownloadFacts DEF Typed, DownloadsTyped, FinishReceiving
<1>2. source[d.on] \in Content
  BY <1>1 DEF Typed, ProviderTyped
<1>3. /\ downloads' = (downloads \ {d}) \cup {mine}
      /\ UNCHANGED <<accepted, clashes, received>> /\ Outside
      /\ \/ UNCHANGED <<parts, disk>>
         \/ /\ parts' = [parts EXCEPT ![r] = Drop(@, d.to)]
            /\ disk' = [disk EXCEPT ![r] = Put(@, d.to, d.file)]
  BY DEF FinishReceiving, Outside, SamePlan
<1>4. PICK content \in Content : bytes' = [bytes EXCEPT ![r][d.file] = content]
  BY <1>2, NoDigestIsNone DEF FinishReceiving
<1>5. mine \in Download /\ mine.on = d.on /\ mine.stage = "done"
  BY <1>1, <1>2 DEF Download
<1> HIDE DEF r, mine
<1>6. PICK B : B = [bytes[r] EXCEPT ![d.file] = content]
  OBVIOUS
<1>7. B \in FileMap /\ DOMAIN B = DOMAIN bytes[r] /\ bytes' = [bytes EXCEPT ![r] = B]
  <2>1. bytes[r] \in Map(ChannelId, Content)
    BY <1>1, SameThere DEF Typed, FileMap
  <2>2. B \in Map(ChannelId, Content) /\ DOMAIN B = DOMAIN bytes[r]
    BY <1>1, <1>6, <2>1, ChangeFacts
  <2>3. QED  BY <1>4, <1>6, <2>2 DEF FileMap
<1>8. DisksTyped'
  <2>1. CASE UNCHANGED <<parts, disk>>
    <3>1. parts' = [parts EXCEPT ![r] = parts[r]] /\ disk' = [disk EXCEPT ![r] = disk[r]]
      BY <1>1, <2>1, SameThere DEF Typed
    <3>2. QED  BY <1>1, <1>7, <3>1, SameThere, DisksChange DEF Typed
  <2>2. CASE /\ parts' = [parts EXCEPT ![r] = Drop(@, d.to)]
             /\ disk' = [disk EXCEPT ![r] = Put(@, d.to, d.file)]
    <3>1. PICK P : P = Drop(parts[r], d.to)
      OBVIOUS
    <3>2. PICK Q : Q = Put(disk[r], d.to, d.file)
      OBVIOUS
    <3>3. P \in PathMap
      BY <1>1, <3>1, DropTyped, SameThere DEF PathMap, Typed
    <3>4. /\ Q \in PathMap /\ IsFiniteSet(DOMAIN Q)
          /\ \A p \in DOMAIN Q : Q[p] \in DOMAIN bytes[r]
      BY <1>1, <3>2, DiskPut DEF Typed
    <3>5. \A p \in DOMAIN P : p \in DOMAIN parts[r] /\ P[p] = parts[r][p]
      BY <3>1 DEF Drop, Restrict
    <3>8. \A p \in DOMAIN P : P[p] \in DOMAIN B
      BY <1>1, <1>7, <3>5, SameThere DEF Typed
    <3>9. \A p \in DOMAIN Q : Q[p] \in DOMAIN B
      BY <1>7, <3>4
    <3>10. parts' = [parts EXCEPT ![r] = P] /\ disk' = [disk EXCEPT ![r] = Q]
      BY <2>2, <3>1, <3>2
    <3>11. QED  BY <1>1, <1>7, <3>3, <3>4, <3>8, <3>9, <3>10, DisksChange DEF Typed
  <2>3. QED  BY <1>3, <2>1, <2>2
<1>9. DownloadsTyped'
  <2>1. Plan' = Plan
    BY <1>3, SamePlanFacts DEF Outside
  <2>2. \A q \in MemberId : DOMAIN bytes'[q] = DOMAIN bytes[q]
    BY <1>1, <1>7 DEF Typed, DisksTyped
  <2>3. \A x \in downloads' : x.stage = "receiving" => x.file \in DOMAIN bytes'[x.by]
    BY <1>3, <1>5, <2>2, DownloadFacts DEF Typed, DownloadsTyped
  <2>4. QED  BY <1>1, <1>3, <1>5, <2>1, <2>3 DEF Typed, DownloadsTyped
<1>10. QED  BY <1>3, <1>8, <1>9, OutsideTyped DEF Typed
-----------------------------------------------------------------------------
(* Where the digest and the download meet.                                 *)

LEMMA FinalizeTyped ==
  ASSUME Typed, NEW r \in MemberId, NEW c, NEW digest, NEW pend \in SUBSET Download,
         \A p \in pend : p.on \in Plan, NEW tolerated, MaybeFinalize(r, c, digest, pend, tolerated),
         bytes' = bytes
  PROVE  DisksTyped' /\ received' \subseteq pend
<1> DEFINE mine == Pending(pend, r, c)
<1>1. CASE received' = pend /\ UNCHANGED <<parts, disk, outcome>>
  BY <1>1, DisksKeep DEF Typed, files
<1>2. ASSUME NEW p \in mine, received' = pend \ mine,
             parts' = [parts EXCEPT ![r] = Drop(@, p.to)],
             \/ UNCHANGED disk
             \/ /\ p.to \in DOMAIN parts[r]
                /\ disk' = [disk EXCEPT ![r] = Put(@, p.to, parts[r][p.to])]
      PROVE  DisksTyped' /\ received' \subseteq pend
  <2>1. p \in Download /\ p.to \in SavePath
    BY DownloadFacts DEF Pending
  <2>2. CASE UNCHANGED disk
    BY <1>2, <2>2, PartDropped DEF Typed
  <2>3. CASE /\ p.to \in DOMAIN parts[r]
             /\ disk' = [disk EXCEPT ![r] = Put(@, p.to, parts[r][p.to])]
    <3>1. PICK P : P = Drop(parts[r], p.to)
      OBVIOUS
    <3>2. PICK Q : Q = Put(disk[r], p.to, parts[r][p.to])
      OBVIOUS
    <3>3. P \in PathMap
      BY <3>1, DropTyped, SameThere DEF PathMap, Typed
    <3>4. parts[r][p.to] \in ChannelId /\ parts[r][p.to] \in DOMAIN bytes[r]
      BY <2>3, SameThere DEF Typed
    <3>5. /\ Q \in PathMap /\ IsFiniteSet(DOMAIN Q)
          /\ \A q \in DOMAIN Q : Q[q] \in DOMAIN bytes[r]
      BY <2>1, <3>2, <3>4, DiskPut DEF Typed
    <3>6. \A q \in DOMAIN P : q \in DOMAIN parts[r] /\ P[q] = parts[r][q]
      BY <3>1 DEF Drop, Restrict
    <3>7. \A q \in DOMAIN P : P[q] \in DOMAIN bytes[r]
      BY <3>6, SameThere DEF Typed
    <3>8. /\ parts' = [parts EXCEPT ![r] = P] /\ disk' = [disk EXCEPT ![r] = Q]
          /\ bytes' = [bytes EXCEPT ![r] = bytes[r]]
      BY <1>2, <2>3, <3>1, <3>2, SameThere DEF Typed
    <3>9. DisksTyped'
      BY <3>3, <3>5, <3>7, <3>8, SameThere, DisksChange DEF Typed
    <3>10. QED  BY <1>2, <3>9
  <2>4. QED  BY <1>2, <2>2, <2>3
<1>3. QED
  <2>1. CASE digest = NoDigest \/ mine = {}
    BY <1>1, <2>1 DEF MaybeFinalize
  <2>2. CASE ~(digest = NoDigest \/ mine = {})
    BY <1>2, <2>2 DEF MaybeFinalize
  <2>3. QED  BY <2>1, <2>2

LEMMA HandleReceivedTyped ==
  ASSUME Typed, NEW d \in downloads, HandleReceived(d)
  PROVE  Typed'
<1>1. /\ downloads' = downloads \ {d} /\ UNCHANGED <<bytes, accepted, clashes>> /\ Outside
  BY DEF HandleReceived, Outside, SamePlan
<1>2. downloads \subseteq Download /\ received \subseteq Download
      /\ \A x \in downloads \cup received : x.on \in Plan
  BY DEF Typed, DownloadsTyped
<1>3. DisksTyped' /\ received' \subseteq received \cup {d}
  <2>1. CASE IsFile(d.on)
    <3> DEFINE pend == (received \ Pending(received, d.by, d.on)) \cup {d}
    <3>1. MaybeFinalize(d.by, d.on, KnownDigest(d.by, d.on), pend, FALSE)
      BY <2>1 DEF HandleReceived, Receive
    <3>2. pend \in SUBSET Download /\ (\A x \in pend : x.on \in Plan) /\ pend \subseteq received \cup {d}
      BY <1>2
    <3>3. d.by \in MemberId
      BY <1>2, DownloadFacts
    <3> HIDE DEF pend
    <3>4. DisksTyped' /\ received' \subseteq pend
      BY <1>1, <3>1, <3>2, <3>3, FinalizeTyped
    <3>5. QED  BY <3>2, <3>4
  <2>2. CASE ~IsFile(d.on)
    <3>1. UNCHANGED <<received, parts, disk>>
      BY <2>2 DEF HandleReceived
    <3>2. QED  BY <1>1, <3>1, DisksKeep DEF Typed, files
  <2>3. QED  BY <2>1, <2>2
<1>4. DownloadsTyped'
  <2>1. Plan' = Plan
    BY <1>1, SamePlanFacts DEF Outside
  <2>2. QED  BY <1>1, <1>2, <1>3, <2>1 DEF Typed, DownloadsTyped
<1>5. QED  BY <1>1, <1>3, <1>4, OutsideTyped DEF Typed

LEMMA HostHandlesCommandTyped ==
  ASSUME Typed, NEW j \in Joiner, HostHandlesCommand(j)
  PROVE  Typed'
<1> DEFINE e == Head(toHost[j])
<1>1. /\ toHost[j] # <<>> /\ Execute(j, e)
      /\ toHost' = [toHost EXCEPT ![j] = Tail(@)]
      /\ UNCHANGED <<view, provider, accepted, clashes, downloads, bytes>> /\ SamePlan
      /\ \/ MaybeFinalize(Host, e.on, e.digest, received, TRUE)
         \/ UNCHANGED <<received, parts, disk>>
  BY DEF HostHandlesCommand, SamePlan
<1>2. j \in MemberId /\ Host \in MemberId
  BY HostIsThere
<1>3. e \in News /\ e \in Ordered(j) /\ Tail(toHost[j]) \in Seq(News) /\ Tail(toHost[j]) \in Seq(Ordered(j))
  <2> DEFINE N == News
             O == Ordered(j)
  <2>1. toHost[j] \in Seq(N) /\ toHost[j] \in Seq(O)
    BY DEF Typed, QueuesTyped
  <2> HIDE DEF N, O
  <2>2. e \in N /\ e \in O /\ Tail(toHost[j]) \in Seq(N) /\ Tail(toHost[j]) \in Seq(O)
    BY <1>1, <2>1
  <2>3. QED  BY <2>2 DEF N, O
<1> HIDE DEF e
<1>4. Rightful(j, e)
  BY <1>3 DEF Ordered, Rightful
<1>5. Grows
  BY <1>1 DEF Grows, provider, Found
<1>6. RoomFollows /\ peerLink' \in [Joiner -> Seq(News)]
  BY <1>1, <1>2, <1>3, <1>4, Executed DEF Typed
<1>7. QueuesFollow
  <2> DEFINE N == News
             O(i) == Ordered(i)
  <2>1. /\ toHost \in [Joiner -> Seq(N)] /\ \A i \in Joiner : toHost[i] \in Seq(O(i))
        /\ Tail(toHost[j]) \in Seq(N) /\ Tail(toHost[j]) \in Seq(O(j))
    BY <1>3 DEF Typed, QueuesTyped
  <2> HIDE DEF N, O
  <2>2. toHost' \in [Joiner -> Seq(N)] /\ \A i \in Joiner : toHost'[i] \in Seq(O(i))
    BY <1>1, <2>1
  <2>3. QED  BY <1>6, <2>2 DEF QueuesFollow, N, O
<1>8. RoomTyped' /\ QueuesTyped' /\ ViewsTyped' /\ ProviderTyped'
  BY <1>1, <1>5, <1>6, <1>7, RoomSettles, QueuesSettle, ViewsKeep, ProviderKeeps DEF Typed, Grows
<1>9. received \in SUBSET Download /\ \A p \in received : p.on \in Plan
  BY DEF Typed, DownloadsTyped
<1>10. DisksTyped' /\ received' \subseteq received
  <2>1. CASE MaybeFinalize(Host, e.on, e.digest, received, TRUE)
    BY <1>1, <1>2, <1>9, <2>1, FinalizeTyped
  <2>2. CASE UNCHANGED <<received, parts, disk>>
    BY <1>1, <2>2, DisksKeep DEF Typed, files
  <2>3. QED  BY <1>1, <2>1, <2>2
<1>11. DownloadsTyped'
  BY <1>1, <1>10, SamePlanFacts DEF Typed, DownloadsTyped
<1>12. QED  BY <1>8, <1>10, <1>11 DEF Typed

LEMMA JoinerReadsTyped ==
  ASSUME Typed, NEW j \in Joiner, JoinerReads(j)
  PROVE  Typed'
<1> DEFINE e == Head(peerLink[j])
           after == Applied(view[j], j, e)
<1>1. /\ peerLink[j] # <<>>
      /\ view' = [view EXCEPT ![j] = after]
      /\ peerLink' = [peerLink EXCEPT ![j] = Tail(@)]
      /\ UNCHANGED <<vars, toHost, provider, accepted, clashes, downloads, bytes>> /\ SamePlan
      /\ \/ MaybeFinalize(j, e.on, e.digest, received, FALSE)
         \/ received' = PendingAfter(j, e) /\ UNCHANGED <<parts, disk>>
  BY DEF JoinerReads, SamePlan
<1>2. j \in MemberId
  BY HostIsThere
<1>3. e \in News /\ Tail(peerLink[j]) \in Seq(News)
  <2> DEFINE N == News
  <2>1. peerLink[j] \in Seq(N)
    BY DEF Typed, QueuesTyped
  <2> HIDE DEF N
  <2>2. e \in N /\ Tail(peerLink[j]) \in Seq(N)
    BY <1>1, <2>1
  <2>3. QED  BY <2>2 DEF N
<1> HIDE DEF e
<1>4. Grows
  BY <1>1 DEF Grows, provider, Found
<1>5. CopyOK(after)
  BY <1>3, ViewIsCopy, AppliedCopy DEF Typed, RoomTyped
<1> HIDE DEF after
<1>6. ViewsFollow
  BY <1>1, <1>5, ViewChanges DEF Typed
<1>7. QueuesFollow
  <2> DEFINE N == News
  <2>1. peerLink \in [Joiner -> Seq(N)] /\ Tail(peerLink[j]) \in Seq(N)
    BY <1>3 DEF Typed, QueuesTyped
  <2> HIDE DEF N
  <2>2. peerLink' \in [Joiner -> Seq(N)]
    BY <1>1, <2>1
  <2>3. QED  BY <1>1, <2>2 DEF QueuesFollow, N, Typed, QueuesTyped
<1>8. RoomTyped' /\ QueuesTyped' /\ ViewsTyped' /\ ProviderTyped'
  BY <1>1, <1>4, <1>6, <1>7, RoomKeeps, QueuesSettle, ViewsSettle, ProviderKeeps DEF Typed, Grows
<1>9. received \in SUBSET Download /\ \A p \in received : p.on \in Plan
  BY DEF Typed, DownloadsTyped
<1>10. DisksTyped' /\ received' \subseteq received
  <2>1. CASE MaybeFinalize(j, e.on, e.digest, received, FALSE)
    BY <1>1, <1>2, <1>9, <2>1, FinalizeTyped
  <2>2. CASE received' = PendingAfter(j, e) /\ UNCHANGED <<parts, disk>>
    BY <1>1, <2>2, DisksKeep DEF Typed, files, PendingAfter
  <2>3. QED  BY <1>1, <2>1, <2>2
<1>11. DownloadsTyped'
  BY <1>1, <1>10, SamePlanFacts DEF Typed, DownloadsTyped
<1>12. QED  BY <1>8, <1>10, <1>11 DEF Typed
-----------------------------------------------------------------------------
(* Types, for every plan.                                                  *)

LEMMA TypedInit ==
  ASSUME TransferInit
  PROVE  Typed
<1>1. ProviderTyped
  <2>1. \A c \in Plan : c \in ChannelId
    BY PlansAssumption DEF TransferInit, Plan
  <2>2. source \in [Plan -> Content] /\ prepared \in [Plan -> Preparation]
    BY <2>1, NoDigestIsNone DEF TransferInit, Plan, Preparation, Digest
  <2>3. QED  BY <2>2 DEF TransferInit, ProviderTyped, Plan
<1>2. RoomTyped
  <2>1. MaxMemberIndex \in Nat \ {0} /\ MemberId = 1 .. MaxMemberIndex
    BY MaxMemberIndexAssumption DEF MemberId
  <2>2. nextMemberIndex \in 2 .. MaxMemberIndex + 1 /\ MaxMemberIndex \in MemberId
    BY <2>1 DEF TransferInit
  <2>3. reply \in Reply
    BY <2>2 DEF TransferInit, Reply, Event
  <2>4. QED
    BY <2>2, <2>3 DEF TransferInit, RoomTyped, IInv, TypeOK, ParticipantsAreMembers, NobodyIsLeftAlone
<1>3. QueuesTyped
  <2> DEFINE N == News
             O(j) == Ordered(j)
  <2> HIDE DEF N, O
  <2>1. /\ toHost \in [Joiner -> Seq(N)] /\ \A j \in Joiner : toHost[j] \in Seq(O(j))
        /\ peerLink \in [Joiner -> Seq(N)]
    BY DEF TransferInit
  <2>2. QED  BY <2>1 DEF QueuesTyped, N, O
<1>4. DOMAIN Nothing = {} /\ \A D, S : Nothing \in Map(D, S)
  BY DEF Nothing, Map
<1>5. ViewsTyped
  BY <1>4 DEF TransferInit, ViewsTyped, CopyMap
<1>6. DisksTyped
  <2>1. /\ parts \in [MemberId -> PathMap] /\ disk \in [MemberId -> PathMap]
        /\ bytes \in [MemberId -> FileMap]
    BY <1>4 DEF TransferInit, PathMap, FileMap
  <2>2. \A r \in MemberId : DOMAIN disk[r] = {} /\ DOMAIN parts[r] = {}
    BY <1>4 DEF TransferInit
  <2>3. QED  BY <2>1, <2>2, FS_EmptySet DEF DisksTyped, LeadsTo
<1>7. DownloadsTyped
  BY DEF TransferInit, DownloadsTyped
<1>8. QED  BY <1>1, <1>2, <1>3, <1>5, <1>6, <1>7 DEF Typed

\* One step of the transfers is one of these.
LEMMA StepIsOneOf ==
  ASSUME TransferNext
  PROVE  \/ \E c \in Plan : SendPath(c) \/ EditSource(c) \/ Prepare(c) \/ Publish(c) \/ GiveUp(c)
         \/ \E m \in MemberId, c \in Plan : QuitChannel(m, c) \/ Accept(m, c)
         \/ \E d \in downloads : \/ IsRefused(d) \/ BeginReceiving(d) \/ IsBroken(d)
                                 \/ FinishReceiving(d) \/ HandleReceived(d)
         \/ \E j \in Joiner : HostHandlesCommand(j) \/ JoinerReads(j)
BY DEF TransferNext, Runtime, Provide, Proceed, Plan

LEMMA TypedNext ==
  ASSUME Typed, [TransferNext]_transferVars
  PROVE  Typed'
<1>1. CASE TransferNext
  <2>1. ASSUME NEW c \in Plan, SendPath(c) \/ EditSource(c) \/ Prepare(c) \/ Publish(c) \/ GiveUp(c)
        PROVE  Typed'
    BY <2>1, SendPathTyped, EditSourceTyped, PrepareTyped, PublishTyped, GiveUpTyped
  <2>2. ASSUME NEW m \in MemberId, NEW c \in Plan, QuitChannel(m, c) \/ Accept(m, c)
        PROVE  Typed'
    BY <2>2, QuitChannelTyped, AcceptTyped
  <2>3. ASSUME NEW d \in downloads,
               \/ IsRefused(d) \/ BeginReceiving(d) \/ IsBroken(d)
               \/ FinishReceiving(d) \/ HandleReceived(d)
        PROVE  Typed'
    BY <2>3, IsRefusedTyped, BeginReceivingTyped, IsBrokenTyped, FinishReceivingTyped,
       HandleReceivedTyped
  <2>4. ASSUME NEW j \in Joiner, HostHandlesCommand(j) \/ JoinerReads(j)
        PROVE  Typed'
    BY <2>4, HostHandlesCommandTyped, JoinerReadsTyped
  <2>5. QED  BY <1>1, StepIsOneOf, <2>1, <2>2, <2>3, <2>4
<1>2. CASE UNCHANGED transferVars
  <2>1. Outside /\ RestKeeps
    BY <1>2 DEF transferVars, Outside, SamePlan, RestKeeps
  <2>2. QED  BY <2>1, OutsideTyped, RestKeepsTypes DEF Typed, Outside
<1>3. QED  BY <1>1, <1>2

LEMMA TypedMeansTypeOK ==
  ASSUME Typed
  PROVE  TransferTypeOK
<1>1. TypeOK
  BY DEF Typed, RoomTyped, IInv
<1>2. /\ downloads \subseteq Download /\ received \subseteq Download
      /\ clashes \subseteq MemberId \X (Name \X Nat)
  BY DEF Typed, DownloadsTyped, SavePath
<1>3. Plan \subseteq ChannelId
  BY PlanFacts DEF Typed
<1>4. accepted \subseteq MemberId \X ChannelId /\ registered \subseteq ChannelId
  <2>1. accepted \subseteq MemberId \X Plan /\ registered \subseteq Plan
    BY DEF Typed, DownloadsTyped, ProviderTyped
  <2>2. QED  BY <1>3, <2>1
<1>5. ASSUME NEW j \in Joiner, NEW c \in ChannelId, c \in DOMAIN view[j]
      PROVE  /\ view[j][c].participants \subseteq MemberId
             /\ c \in DOMAIN plan /\ view[j][c].digest \in Found(c)
  <2>1. view[j] \in Map(ChannelId, Copy)
    BY DEF Typed, ViewsTyped, CopyMap
  <2>2. view[j][c] \in Copy
    BY <1>5, <2>1, MapFacts
  <2>3. c \in DOMAIN plan /\ view[j][c].digest \in Found(c)
    BY <1>5 DEF Typed, ViewsTyped, Plan
  <2>4. QED  BY <2>2, <2>3 DEF Copy
<1>6. ASSUME NEW r \in MemberId
      PROVE  /\ DOMAIN parts[r] \cup DOMAIN disk[r] \subseteq Name \X Nat
             /\ {parts[r][p] : p \in DOMAIN parts[r]} \cup {disk[r][p] : p \in DOMAIN disk[r]}
                  \subseteq DOMAIN bytes[r]
             /\ \A f \in DOMAIN bytes[r] : bytes[r][f] \in Content
  <2>1. parts[r] \in Map(SavePath, ChannelId) /\ disk[r] \in Map(SavePath, ChannelId)
        /\ bytes[r] \in Map(ChannelId, Content)
    BY DEF Typed, DisksTyped, PathMap, FileMap
  <2>2. DOMAIN parts[r] \subseteq SavePath /\ DOMAIN disk[r] \subseteq SavePath
        /\ \A f \in DOMAIN bytes[r] : bytes[r][f] \in Content
    BY <2>1, MapFacts
  <2>3. (\A p \in DOMAIN parts[r] : parts[r][p] \in DOMAIN bytes[r])
        /\ \A p \in DOMAIN disk[r] : disk[r][p] \in DOMAIN bytes[r]
    BY SameThere DEF Typed
  <2>4. QED  BY <2>2, <2>3 DEF SavePath
<1>7. /\ toHost \in [Joiner -> Seq(News)] /\ peerLink \in [Joiner -> Seq(News)]
      /\ source \in [DOMAIN plan -> Content] /\ prepared \in [DOMAIN plan -> Preparation]
  <2> DEFINE N == News
  <2> HIDE DEF N
  <2>1. toHost \in [Joiner -> Seq(N)] /\ peerLink \in [Joiner -> Seq(N)]
    BY DEF Typed, QueuesTyped, N
  <2>2. source \in [DOMAIN plan -> Content] /\ prepared \in [DOMAIN plan -> Preparation]
    BY DEF Typed, ProviderTyped, Plan
  <2>3. QED  BY <2>1, <2>2 DEF N
<1>8. QED  BY <1>1, <1>2, <1>4, <1>5, <1>6, <1>7 DEF TransferTypeOK

LEMMA TypedAlways == TransferSpec => []Typed
BY TypedInit, TypedNext, PTL DEF TransferSpec

\* The room, the links, the copies, the preparations, the downloads and the disks keep
\* their types, no link or copy ever carries a digest that its provider has not found,
\* and no .part or saved path leads to a file that was never created, whoever accepts
\* what and when (machine_state.rs, struct JoinState and HostState).
THEOREM TransferTypeCorrect == TransferSpec => []TransferTypeOK
BY TypedAlways, TypedMeansTypeOK, PTL
-----------------------------------------------------------------------------
(* What a step of one member leaves to the others, and to its other paths.  *)

LEMMA StepGrows ==
  ASSUME Typed, TransferNext
  PROVE  Grows
<1>1. CASE SamePlan /\ prepared' = prepared
  BY <1>1 DEF Grows, Found
<1>2. ASSUME NEW c \in Plan, NEW stage, Stage(c, stage), SamePlan
      PROVE  Grows
  <2>1. prepared \in [Plan -> Preparation]
    BY DEF Typed, ProviderTyped
  <2>2. prepared' = [prepared EXCEPT ![c].stage = stage]
    BY <1>2 DEF Stage
  <2>3. \A d \in Plan : prepared'[d].digest = prepared[d].digest
    BY <2>1, <2>2 DEF Preparation
  <2>4. QED  BY <1>2, <2>3, StaysGrows DEF Stays
<1>3. ASSUME NEW c \in Plan, Prepare(c)
      PROVE  Grows
  <2>1. prepared \in [Plan -> Preparation] /\ prepared[c].digest = NoDigest /\ SamePlan
    BY <1>3 DEF Typed, ProviderTyped, Prepare, SamePlan
  <2>2. \A d \in Plan \ {c} : prepared'[d].digest = prepared[d].digest
    <3>1. CASE Stage(c, "failed")
      BY <2>1, <3>1 DEF Stage, Preparation
    <3>2. CASE ~Stage(c, "failed")
      <4>1. PICK new : prepared' = [prepared EXCEPT ![c] = new]
        BY <1>3, <3>2 DEF Prepare
      <4>2. QED  BY <2>1, <4>1
    <3>3. QED  BY <3>1, <3>2
  <2>3. QED  BY <2>1, <2>2 DEF Grows, Found
<1>4. \/ SamePlan /\ prepared' = prepared
      \/ \E c \in Plan : Prepare(c)
      \/ \E c \in Plan, stage \in Stages : Stage(c, stage) /\ SamePlan
  <2>1. ASSUME NEW c \in Plan, SendPath(c) \/ EditSource(c) \/ Prepare(c) \/ Publish(c) \/ GiveUp(c)
        PROVE  \/ SamePlan /\ prepared' = prepared
               \/ Prepare(c)
               \/ \E stage \in Stages : Stage(c, stage) /\ SamePlan
    BY <2>1 DEF SendPath, EditSource, Publish, GiveUp, SamePlan, Stages
  <2>2. ASSUME NEW m \in MemberId, NEW c \in Plan, QuitChannel(m, c) \/ Accept(m, c)
        PROVE  SamePlan /\ prepared' = prepared
    BY <2>2 DEF QuitChannel, Accept, SamePlan, provider
  <2>3. ASSUME NEW d \in downloads,
               \/ IsRefused(d) \/ BeginReceiving(d) \/ IsBroken(d)
               \/ FinishReceiving(d) \/ HandleReceived(d)
        PROVE  SamePlan /\ prepared' = prepared
    BY <2>3 DEF IsRefused, Fails, BeginReceiving, IsBroken, FinishReceiving, HandleReceived,
                SamePlan, provider
  <2>4. ASSUME NEW j \in Joiner, HostHandlesCommand(j) \/ JoinerReads(j)
        PROVE  SamePlan /\ prepared' = prepared
    BY <2>4 DEF HostHandlesCommand, JoinerReads, SamePlan, provider
  <2>5. QED  BY StepIsOneOf, <2>1, <2>2, <2>3, <2>4
<1>5. QED  BY <1>1, <1>2, <1>3, <1>4

\* The step does nothing to what member q has.
Unmoved(q) ==
  /\ Grows /\ accepted \subseteq accepted'
  /\ \A p : <<q, p>> \in clashes' <=> <<q, p>> \in clashes
  /\ \A x : x.by = q => (x \in downloads' <=> x \in downloads)
  /\ \A x : x.by = q => (x \in received' <=> x \in received)
  /\ parts'[q] = parts[q] /\ disk'[q] = disk[q] /\ bytes'[q] = bytes[q]
  /\ \A s \in saved' : s.by = q => s \in saved

LEMMA SavedStays ==
  ASSUME Grows, NEW s, SavedWell(s), s.to \in DOMAIN disk'[s.by],
         bytes'[s.by][disk'[s.by][s.to]] = bytes[s.by][disk[s.by][s.to]]
  PROVE  SavedWell(s)'
<1>1. IsFile(s.on)' = IsFile(s.on) /\ Plan' = Plan
  BY SamePlanFacts DEF Grows, SamePlan, IsFile
<1>2. CASE IsFile(s.on)
  <2>1. s.on \in Plan /\ s.hash = prepared[s.on].digest /\ s.hash # NoDigest
    BY <1>2 DEF SavedWell
  <2>2. Found(s.on) \subseteq Found(s.on)'
    BY <2>1 DEF Grows
  <2>3. s.hash = prepared'[s.on].digest
    BY <2>1, <2>2 DEF Found
  <2>4. QED  BY <1>1, <2>1, <2>3 DEF SavedWell
<1>3. CASE ~IsFile(s.on)
  BY <1>1, <1>3 DEF SavedWell
<1>4. QED  BY <1>2, <1>3

LEMMA SavedKeeps ==
  ASSUME Grows, NEW s, SavedWell(s), disk'[s.by] = disk[s.by], bytes'[s.by] = bytes[s.by]
  PROVE  SavedWell(s)'
BY SavedStays DEF SavedWell

\* A download whose path and file are left alone stays as it is.
LEMMA CourseKeeps ==
  ASSUME Grows, NEW x, NEW r, x.by = r,
         x.to \in DOMAIN parts'[r] <=> x.to \in DOMAIN parts[r],
         x.to \in DOMAIN parts[r] => parts'[r][x.to] = parts[r][x.to],
         x.to \in DOMAIN disk'[r] <=> x.to \in DOMAIN disk[r],
         x.to \in DOMAIN disk[r] => disk'[r][x.to] = disk[r][x.to],
         x.stage # "asking" => bytes'[r][x.file] = bytes[r][x.file]
  PROVE  /\ OnTheWay(x) => OnTheWay(x)'
         /\ x.stage = "done" /\ Waiting(x) => Waiting(x)'
<1>1. IsFile(x.on)' = IsFile(x.on)
  BY DEF Grows, SamePlan, IsFile
<1>2. x.stage # "asking" => (Holds(x) => Holds(x)')
  BY DEF Holds
<1>3. Unsaved(x)' = Unsaved(x)
  BY DEF Unsaved
<1>4. OnTheWay(x) => OnTheWay(x)'
  BY <1>1, <1>2, <1>3 DEF OnTheWay
<1>5. x.stage = "done" /\ Waiting(x) => Waiting(x)'
  BY <1>1, <1>2, <1>3 DEF Waiting
<1>6. QED  BY <1>4, <1>5

LEMMA UnmovedOK ==
  ASSUME NEW q \in MemberId, MemberOK(q), Unmoved(q)
  PROVE  MemberOK(q)'
<1>1. Grows /\ parts'[q] = parts[q] /\ disk'[q] = disk[q] /\ bytes'[q] = bytes[q]
  BY DEF Unmoved
<1>2. ASSUME NEW x, x.by = q
      PROVE  /\ OnTheWay(x) => OnTheWay(x)'
             /\ x.stage = "done" /\ Waiting(x) => Waiting(x)'
  BY <1>1, <1>2, CourseKeeps
<1>3. Numbered(q)'
  BY DEF Numbered, Unmoved, MemberOK
<1>4. ASSUME NEW p, NEW f, Uses(q, p, f)' PROVE Uses(q, p, f)
  BY <1>4 DEF Uses, Unmoved
<1>5. Owned(q)'
  <2>1. \A p, s, f : Uses(q, p, f)' /\ Uses(q, s, f)' => p = s
    BY <1>4 DEF Owned, MemberOK
  <2>2. \A p, f : Uses(q, p, f)' => f \in DOMAIN bytes'[q]
    BY <1>1, <1>4 DEF Owned, MemberOK
  <2>3. QED  BY <2>1, <2>2 DEF Owned
<1>6. ASSUME NEW p, Clean(q, p)'
      PROVE  Undisputed(q, p)'
  <2>1. Clean(q, p) /\ Undisputed(q, p)
    BY <1>6 DEF Clean, Unmoved, MemberOK
  <2>2. /\ \A x, y \in downloads' : x.by = q /\ y.by = q /\ x.to = p /\ y.to = p => x = y
        /\ \A x, y \in received' : x.by = q /\ y.by = q /\ x.to = p /\ y.to = p => x = y
        /\ \A x \in downloads', y \in received' : x.by = q /\ y.by = q /\ x.to = p => y.to # p
    BY <2>1 DEF Undisputed, Unmoved
  <2>3. \A x \in downloads' : x.by = q /\ x.to = p => OnTheWay(x)'
    BY <1>2, <2>1 DEF Undisputed, Unmoved
  <2>4. \A x \in received' : x.by = q /\ x.to = p => Waiting(x)'
    BY <1>2, <2>1 DEF Undisputed, Unmoved, MemberOK, Numbered
  <2>5. \A s \in saved' : s.by = q /\ s.to = p => SavedWell(s)'
    <3>1. ASSUME NEW s \in saved', s.by = q, s.to = p PROVE SavedWell(s)'
      <4>1. SavedWell(s)
        BY <2>1, <3>1 DEF Undisputed, Unmoved
      <4>2. QED  BY <1>1, <3>1, <4>1, SavedKeeps
    <3>2. QED  BY <3>1
  <2>6. p \in DOMAIN disk'[q] => p \notin DOMAIN parts'[q]
    BY <1>1, <2>1 DEF Undisputed
  <2>7. QED  BY <2>2, <2>3, <2>4, <2>5, <2>6 DEF Undisputed
<1>7. \A p : Undisputed(q, p)'
  BY <1>6 DEF Undisputed
<1>8. QED  BY <1>3, <1>5, <1>7 DEF MemberOK

LEMMA NobodyMoves ==
  ASSUME SavingInv, Grows, UNCHANGED <<accepted, clashes, downloads, received, files, saved>>
  PROVE  SavingInv'
<1>1. \A q \in MemberId : Unmoved(q)
  BY DEF Unmoved, files
<1>2. QED  BY <1>1, UnmovedOK DEF SavingInv

\* A step of member r that concerns the path p alone ...
Elsewhere(r, p) ==
  /\ Grows /\ accepted \subseteq accepted' /\ clashes' = clashes
  /\ \A q \in MemberId \ {r} : Unmoved(q)
  /\ \A s \in saved' : s \in saved \/ (s.by = r /\ s.to = p)
  /\ \A x : x.by = r /\ x.to # p => (x \in downloads' <=> x \in downloads)
  /\ \A x : x.by = r /\ x.to # p => (x \in received' <=> x \in received)
  /\ \A q : q # p => /\ q \in DOMAIN parts'[r] <=> q \in DOMAIN parts[r]
                     /\ q \in DOMAIN parts[r] => parts'[r][q] = parts[r][q]
                     /\ q \in DOMAIN disk'[r] <=> q \in DOMAIN disk[r]
                     /\ q \in DOMAIN disk[r] => disk'[r][q] = disk[r][q]
  /\ DOMAIN bytes[r] \subseteq DOMAIN bytes'[r]
  /\ \A f \in DOMAIN bytes[r] : Uses(r, p, f) \/ bytes'[r][f] = bytes[r][f]
  /\ \A f \in DOMAIN bytes'[r] \ DOMAIN bytes[r] :
       \E d \in downloads : d.by = r /\ d.to = p /\ d.on = f

\* ... and makes nothing of it that was not there.
Here(r, p) ==
  /\ \A x \in downloads' \cup received' : x.by = r /\ x.to = p =>
       \E y \in downloads \cup received : y.by = r /\ y.to = p /\ y.on = x.on
  /\ \A x, y \in downloads' : x.by = r /\ y.by = r /\ x.to = p /\ y.to = p /\ x.on = y.on => x = y
  /\ \A x, y \in received' : x.by = r /\ y.by = r /\ x.to = p /\ y.to = p /\ x.on = y.on => x = y
  /\ \A x \in downloads', y \in received' :
       x.by = r /\ y.by = r /\ x.to = p /\ y.to = p => x.on # y.on
  /\ \A x \in downloads' : x.by = r /\ x.to = p /\ x.stage = "asking" => x.on \notin DOMAIN bytes'[r]
  /\ \A x \in received' : x.by = r /\ x.to = p => x.stage = "done"
  /\ \A f : Uses(r, p, f)' => /\ f \in DOMAIN bytes'[r]
                              /\ Uses(r, p, f) \/ f \notin DOMAIN bytes[r]

LEMMA PathStep ==
  ASSUME SavingInv, NEW r \in MemberId, NEW p, Elsewhere(r, p), Here(r, p),
         Clean(r, p) => Undisputed(r, p)'
  PROVE  SavingInv'
<1>1. MemberOK(r)
  BY DEF SavingInv
<1>2. Numbered(r)'
  <2>1. \A x \in downloads' \cup received' : x.by = r => <<r, x.on>> \in accepted'
    BY <1>1 DEF MemberOK, Numbered, Elsewhere, Here
  <2>2. ASSUME NEW x \in downloads' \cup received', NEW y \in downloads' \cup received',
               x.by = r, y.by = r, x.to = p, y.to # p
        PROVE  x.on # y.on
    <3>1. PICK z \in downloads \cup received : z.by = r /\ z.to = p /\ z.on = x.on
      BY <2>2 DEF Here
    <3>2. y \in downloads \cup received
      BY <2>2 DEF Elsewhere
    <3>3. QED  BY <1>1, <2>2, <3>1, <3>2 DEF MemberOK, Numbered
  <2>3. \A x, y \in downloads' : x.by = r /\ y.by = r /\ x.on = y.on => x = y
    BY <1>1, <2>2 DEF MemberOK, Numbered, Elsewhere, Here
  <2>4. \A x, y \in received' : x.by = r /\ y.by = r /\ x.on = y.on => x = y
    BY <1>1, <2>2 DEF MemberOK, Numbered, Elsewhere, Here
  <2>5. \A x \in downloads', y \in received' : x.by = r /\ y.by = r => x.on # y.on
    BY <1>1, <2>2 DEF MemberOK, Numbered, Elsewhere, Here
  <2>6. ASSUME NEW x \in downloads', x.by = r, x.stage = "asking"
        PROVE  x.on \notin DOMAIN bytes'[r]
    <3>1. CASE x.to = p
      BY <2>6, <3>1 DEF Here
    <3>2. CASE x.to # p
      <4>1. x \in downloads /\ x.on \notin DOMAIN bytes[r]
        BY <1>1, <2>6, <3>2 DEF MemberOK, Numbered, Elsewhere
      <4>2. \A d \in downloads : d.by = r /\ d.to = p => d.on # x.on
        BY <1>1, <2>6, <3>2, <4>1 DEF MemberOK, Numbered
      <4>3. QED  BY <4>1, <4>2 DEF Elsewhere
    <3>3. QED  BY <3>1, <3>2
  <2>7. \A x \in received' : x.by = r => x.stage = "done"
    BY <1>1 DEF MemberOK, Numbered, Elsewhere, Here
  <2>8. \A f \in DOMAIN bytes'[r] : <<r, f>> \in accepted'
    BY <1>1 DEF MemberOK, Numbered, Elsewhere
  <2>9. QED  BY <2>1, <2>3, <2>4, <2>5, <2>6, <2>7, <2>8 DEF Numbered
<1>3. ASSUME NEW q, q # p, NEW f, Uses(r, q, f)'
      PROVE  Uses(r, q, f)
  BY <1>3 DEF Uses, Elsewhere
<1>4. Owned(r)'
  <2>1. ASSUME NEW q, NEW t, NEW f, Uses(r, q, f)', Uses(r, t, f)', q # p
        PROVE  q = t
    <3>1. Uses(r, q, f) /\ f \in DOMAIN bytes[r]
      BY <1>1, <1>3, <2>1 DEF MemberOK, Owned
    <3>2. Uses(r, t, f)
      BY <1>3, <2>1, <3>1 DEF Here
    <3>3. QED  BY <1>1, <3>1, <3>2 DEF MemberOK, Owned
  <2>2. \A q, t, f : Uses(r, q, f)' /\ Uses(r, t, f)' => q = t
    BY <2>1
  <2>3. \A q, f : Uses(r, q, f)' => f \in DOMAIN bytes'[r]
    BY <1>1, <1>3 DEF MemberOK, Owned, Elsewhere, Here
  <2>4. QED  BY <2>2, <2>3 DEF Owned
<1>5. ASSUME NEW q, q # p, Clean(r, q)'
      PROVE  Undisputed(r, q)'
  <2>1. Clean(r, q) /\ Undisputed(r, q) /\ Grows
    BY <1>1, <1>5 DEF Clean, Elsewhere, MemberOK
  <2>2. ASSUME NEW f, Uses(r, q, f) PROVE bytes'[r][f] = bytes[r][f]
    <3>1. f \in DOMAIN bytes[r] /\ ~Uses(r, p, f)
      BY <1>1, <1>5, <2>2 DEF MemberOK, Owned
    <3>2. QED  BY <3>1 DEF Elsewhere
  <2>3. ASSUME NEW x \in downloads \cup received, x.by = r, x.to = q
        PROVE  /\ OnTheWay(x) => OnTheWay(x)'
               /\ x.stage = "done" /\ Waiting(x) => Waiting(x)'
    <3>1. x.stage # "asking" => bytes'[r][x.file] = bytes[r][x.file]
      BY <2>2, <2>3 DEF Uses
    <3>2. /\ x.to \in DOMAIN parts'[r] <=> x.to \in DOMAIN parts[r]
          /\ x.to \in DOMAIN parts[r] => parts'[r][x.to] = parts[r][x.to]
          /\ x.to \in DOMAIN disk'[r] <=> x.to \in DOMAIN disk[r]
          /\ x.to \in DOMAIN disk[r] => disk'[r][x.to] = disk[r][x.to]
      BY <1>5, <2>3 DEF Elsewhere
    <3>3. QED  BY <2>1, <2>3, <3>1, <3>2, CourseKeeps
  <2>4. /\ \A x, y \in downloads' : x.by = r /\ y.by = r /\ x.to = q /\ y.to = q => x = y
        /\ \A x, y \in received' : x.by = r /\ y.by = r /\ x.to = q /\ y.to = q => x = y
        /\ \A x \in downloads', y \in received' : x.by = r /\ y.by = r /\ x.to = q => y.to # q
    BY <1>5, <2>1 DEF Undisputed, Elsewhere
  <2>5. \A x \in downloads' : x.by = r /\ x.to = q => OnTheWay(x)'
    BY <1>5, <2>1, <2>3 DEF Undisputed, Elsewhere
  <2>6. \A x \in received' : x.by = r /\ x.to = q => Waiting(x)'
    BY <1>1, <1>5, <2>1, <2>3 DEF Undisputed, Elsewhere, MemberOK, Numbered
  <2>7. q \in DOMAIN disk'[r] => q \notin DOMAIN parts'[r]
    BY <1>5, <2>1 DEF Undisputed, Elsewhere
  <2>8. ASSUME NEW s \in saved', s.by = r, s.to = q PROVE SavedWell(s)'
    <3>1. s \in saved /\ SavedWell(s)
      BY <1>5, <2>1, <2>8 DEF Undisputed, Elsewhere
    <3>2. q \in DOMAIN disk[r] /\ q \in DOMAIN disk'[r] /\ disk'[r][q] = disk[r][q]
      BY <1>5, <2>8, <3>1 DEF SavedWell, Elsewhere
    <3>3. bytes'[r][disk[r][q]] = bytes[r][disk[r][q]]
      BY <2>2, <3>2 DEF Uses
    <3>4. QED  BY <2>1, <2>8, <3>1, <3>2, <3>3, SavedStays
  <2>9. QED  BY <2>4, <2>5, <2>6, <2>7, <2>8 DEF Undisputed
<1>6. \A q : Undisputed(r, q)'
  <2>1. Clean(r, p)' => Clean(r, p)
    BY DEF Clean, Elsewhere
  <2>2. QED  BY <1>5, <2>1 DEF Undisputed
<1>7. MemberOK(r)'
  BY <1>2, <1>4, <1>6 DEF MemberOK
<1>8. \A q \in MemberId \ {r} : MemberOK(q)'
  BY UnmovedOK DEF Elsewhere, SavingInv
<1>9. \A s \in saved' : s.by \in MemberId
  BY DEF Elsewhere, SavingInv
<1>10. QED  BY <1>7, <1>8, <1>9 DEF SavingInv

-----------------------------------------------------------------------------
(* What the receiver's steps do to the receiver.                           *)

LEMMA AcceptSaves ==
  ASSUME Typed, SavingInv, NEW r \in MemberId, NEW c \in Plan, Accept(r, c), Grows
  PROVE  SavingInv'
<1>p. PICK p : p = FreePath(r, plan[c].name)
  OBVIOUS
<1>d. PICK d : d = [by |-> r, on |-> c, to |-> p, stage |-> "asking",
                    file |-> c, alone |-> TRUE, hash |-> NoDigest]
  OBVIOUS
<1>1. /\ accepted' = accepted \cup {<<r, c>>} /\ downloads' = downloads \cup {d}
      /\ clashes' = IF BoundFor(r, p) = {} THEN clashes ELSE clashes \cup {<<r, p>>}
      /\ UNCHANGED <<received, parts, disk, bytes, saved>> /\ <<r, c>> \notin accepted
  BY <1>p, <1>d DEF Accept, outcome, files
<1>2. p \notin DOMAIN disk[r]
  <2>1. c \in ChannelId /\ plan[c].name \in Name
    BY PlanFacts DEF Typed
  <2>2. QED  BY <1>p, <2>1, FreePathIsFree DEF Typed, DisksTyped
<1>3. d.by = r /\ d.on = c /\ d.stage = "asking" /\ d.to = p
  BY <1>d
<1>4. MemberOK(r)
  BY DEF SavingInv
<1>5. \A q \in MemberId \ {r} : Unmoved(q)
  BY <1>1, <1>3 DEF Unmoved
<1>6. Numbered(r)'
  <2>1. \A x \in downloads \cup received : x.by = r => <<r, x.on>> \in accepted /\ x.on # c
    BY <1>1, <1>4 DEF MemberOK, Numbered
  <2>2. \A x \in downloads' \cup received' : x.by = r => <<r, x.on>> \in accepted'
    BY <1>1, <1>3, <2>1
  <2>3. \A x, y \in downloads' : x.by = r /\ y.by = r /\ x.on = y.on => x = y
    BY <1>1, <1>3, <1>4, <2>1 DEF MemberOK, Numbered
  <2>4. \A x \in downloads', y \in received' : x.by = r /\ y.by = r => x.on # y.on
    BY <1>1, <1>3, <1>4, <2>1 DEF MemberOK, Numbered
  <2>5. \A x \in downloads' : x.by = r /\ x.stage = "asking" => x.on \notin DOMAIN bytes'[r]
    BY <1>1, <1>3, <1>4 DEF MemberOK, Numbered
  <2>6. QED  BY <1>1, <1>4, <2>2, <2>3, <2>4, <2>5 DEF MemberOK, Numbered
<1>7. Owned(r)'
  <2>1. ASSUME NEW q, NEW f, Uses(r, q, f)' PROVE Uses(r, q, f)
    BY <1>1, <1>3, <2>1 DEF Uses
  <2>2. \A q, t, f : Uses(r, q, f)' /\ Uses(r, t, f)' => q = t
    BY <1>4, <2>1 DEF MemberOK, Owned
  <2>3. \A q, f : Uses(r, q, f)' => f \in DOMAIN bytes'[r]
    BY <1>1, <1>4, <2>1 DEF MemberOK, Owned
  <2>4. QED  BY <2>2, <2>3 DEF Owned
<1>8. ASSUME NEW q, Clean(r, q)'
      PROVE  Undisputed(r, q)'
  <2>1. Clean(r, q) /\ Undisputed(r, q)
    BY <1>1, <1>4, <1>8 DEF Clean, MemberOK
  <2>2. q = p => \A x \in downloads \cup received : x.by = r => x.to # q
    BY <1>1, <1>8 DEF Clean, BoundFor
  <2>3. \A x \in downloads' : x.by = r /\ x.to = q => x \in downloads \/ (x = d /\ q = p)
    BY <1>1, <1>3
  <2>4. /\ \A x, y \in downloads' : x.by = r /\ y.by = r /\ x.to = q /\ y.to = q => x = y
        /\ \A x, y \in received' : x.by = r /\ y.by = r /\ x.to = q /\ y.to = q => x = y
        /\ \A x \in downloads', y \in received' : x.by = r /\ y.by = r /\ x.to = q => y.to # q
    BY <1>1, <2>1, <2>2, <2>3 DEF Undisputed
  <2>5. ASSUME NEW x, x.by = r
        PROVE  /\ OnTheWay(x) => OnTheWay(x)'
               /\ x.stage = "done" /\ Waiting(x) => Waiting(x)'
    BY <1>1, <2>5, CourseKeeps
  <2>6. OnTheWay(d)'
    BY <1>1, <1>2, <1>3 DEF OnTheWay, Unsaved
  <2>7. \A x \in downloads' : x.by = r /\ x.to = q => OnTheWay(x)'
    BY <2>1, <2>3, <2>5, <2>6 DEF Undisputed
  <2>8. \A x \in received' : x.by = r /\ x.to = q => Waiting(x)'
    BY <1>1, <1>4, <2>1, <2>5 DEF Undisputed, MemberOK, Numbered
  <2>9. \A s \in saved' : s.by = r /\ s.to = q => SavedWell(s)'
    BY <1>1, <2>1, SavedKeeps DEF Undisputed
  <2>10. q \in DOMAIN disk'[r] => q \notin DOMAIN parts'[r]
    BY <1>1, <2>1 DEF Undisputed
  <2>11. QED  BY <2>4, <2>7, <2>8, <2>9, <2>10 DEF Undisputed
<1>9. MemberOK(r)'
  BY <1>6, <1>7, <1>8 DEF MemberOK, Undisputed
<1>10. \A q \in MemberId \ {r} : MemberOK(q)'
  BY <1>5, UnmovedOK DEF SavingInv
<1>11. QED  BY <1>1, <1>9, <1>10 DEF SavingInv

LEMMA FailsSaves ==
  ASSUME Typed, SavingInv, NEW d \in downloads, Fails(d), Grows, d.stage \in {"asking", "receiving"},
         UNCHANGED parts \/ parts' = [parts EXCEPT ![d.by] = Drop(@, d.to)]
  PROVE  SavingInv'
<1> DEFINE r == d.by
           p == d.to
<1>1. r \in MemberId /\ MemberOK(r)
  BY DownloadFacts DEF Typed, DownloadsTyped, SavingInv
<1>2. downloads' = downloads \ {d}
      /\ UNCHANGED <<accepted, clashes, received, disk, bytes, saved>>
  BY DEF Fails
<1>3. parts \in [MemberId -> PathMap]
  BY DEF Typed, DisksTyped
<1>4. /\ \A q \in MemberId \ {r} : parts'[q] = parts[q]
      /\ \A q \in DOMAIN parts'[r] : q \in DOMAIN parts[r] /\ parts'[r][q] = parts[r][q]
      /\ \A q \in DOMAIN parts[r] : q # p => q \in DOMAIN parts'[r]
  <2>1. CASE UNCHANGED parts
    BY <2>1
  <2>2. CASE parts' = [parts EXCEPT ![r] = Drop(@, p)]
    <3>1. parts'[r] = Drop(parts[r], p) /\ \A q \in MemberId \ {r} : parts'[q] = parts[q]
      BY <1>1, <1>3, <2>2
    <3>2. QED  BY <3>1 DEF Drop, Restrict
  <2>3. QED  BY <2>1, <2>2
<1> HIDE DEF r, p
<1>5. Elsewhere(r, p)
  <2>1. d.by = r /\ d.to = p /\ Grows
    BY DEF r, p
  <2>2. \A q \in MemberId \ {r} : Unmoved(q)
    BY <1>2, <1>4, <2>1 DEF Unmoved
  <2>3. QED  BY <1>2, <1>4, <2>1, <2>2 DEF Elsewhere
<1>6. Here(r, p)
  <2>1. \A f : Uses(r, p, f)' => Uses(r, p, f)
    BY <1>2, <1>4 DEF Uses
  <2>2. QED  BY <1>1, <1>2, <2>1 DEF Here, MemberOK, Numbered, Owned
<1>7. ASSUME Clean(r, p) PROVE Undisputed(r, p)'
  <2>1. Undisputed(r, p)
    BY <1>1 DEF MemberOK
  <2>2. /\ \A x \in downloads' : x.by = r => x.to # p
        /\ \A x \in received' : x.by = r => x.to # p
    BY <1>2, <1>7, <2>1 DEF Undisputed, r, p
  <2>3. p \in DOMAIN disk'[r] => p \notin DOMAIN parts'[r]
    BY <1>2, <1>4, <1>7, <2>1 DEF Undisputed
  <2>4. \A s \in saved' : s.by = r /\ s.to = p => SavedWell(s)'
    BY <1>2, <1>7, <2>1, SavedKeeps DEF Undisputed
  <2>5. QED  BY <2>2, <2>3, <2>4 DEF Undisputed
<1>8. QED  BY <1>1, <1>5, <1>6, <1>7, PathStep

LEMMA BeginReceivingSaves ==
  ASSUME Typed, SavingInv, NEW d \in downloads, BeginReceiving(d), Grows
  PROVE  SavingInv'
<1>r. PICK r : r = d.by
  OBVIOUS
<1>p. PICK p : p = d.to
  OBVIOUS
<1>f. PICK file : file = IF p \in DOMAIN parts[r] THEN parts[r][p] ELSE d.on
  OBVIOUS
<1>o. PICK others : others = Sharing(d, file)
  OBVIOUS
<1>n. PICK new : new = [d EXCEPT !.stage = "receiving", !.file = file, !.alone = (others = {})]
  OBVIOUS
<1>1. d \in Download /\ r \in MemberId /\ MemberOK(r) /\ downloads \subseteq Download
  BY <1>r, DownloadFacts DEF Typed, DownloadsTyped, SavingInv
<1>2. /\ downloads' = (downloads \ (others \cup {d}))
           \cup {[x EXCEPT !.alone = FALSE] : x \in others} \cup {new}
      /\ parts' = [parts EXCEPT ![r] = Put(@, p, file)]
      /\ bytes' = [bytes EXCEPT ![r] = Put(@, file, Partial)]
      /\ UNCHANGED <<accepted, clashes, received, disk, saved>> /\ d.stage = "asking"
  BY <1>r, <1>p, <1>f, <1>o, <1>n DEF BeginReceiving, outcome
<1>3. /\ new.by = r /\ new.on = d.on /\ new.to = p /\ new.stage = "receiving"
      /\ new.file = file /\ new.alone = (others = {})
  BY <1>1, <1>r, <1>p, <1>n DEF Download
<1>4. \A x \in others :
        /\ x \in downloads /\ x # d /\ x.by = r /\ x.stage = "receiving" /\ x.file = file
        /\ LET z == [x EXCEPT !.alone = FALSE]
           IN  z.by = r /\ z.on = x.on /\ z.to = x.to /\ z.stage = "receiving" /\ z.file = file
  <2>1. \A x \in others : x \in downloads /\ x # d /\ x.by = r /\ x.stage = "receiving" /\ x.file = file
    BY <1>2, <1>o, <1>r DEF Sharing
  <2>2. QED  BY <1>1, <2>1 DEF Download
<1>5. /\ file \in DOMAIN bytes[r] => Uses(r, p, file)
      /\ file \notin DOMAIN bytes[r] => file = d.on
      /\ d.on \notin DOMAIN bytes[r]
  <2>1. d.on \notin DOMAIN bytes[r]
    BY <1>1, <1>2, <1>r DEF MemberOK, Numbered
  <2>2. p \in DOMAIN parts[r] => parts[r][p] \in DOMAIN bytes[r]
    BY <1>1, SameThere DEF Typed
  <2>3. QED  BY <1>f, <2>1, <2>2 DEF Uses
<1>6. \A x \in others : x.to = p
  <2>1. SUFFICES ASSUME NEW x \in others PROVE x.to = p
    OBVIOUS
  <2>2. Uses(r, x.to, file)
    BY <1>4 DEF Uses
  <2>3. QED  BY <1>1, <1>5, <2>2 DEF MemberOK, Owned
<1>7. /\ parts'[r] = Put(parts[r], p, file) /\ bytes'[r] = Put(bytes[r], file, Partial)
      /\ \A q \in MemberId \ {r} : parts'[q] = parts[q] /\ bytes'[q] = bytes[q]
  <2>1. parts \in [MemberId -> PathMap] /\ bytes \in [MemberId -> FileMap]
    BY DEF Typed, DisksTyped
  <2>2. QED  BY <1>1, <1>2, <2>1
<1>8. /\ DOMAIN parts'[r] = DOMAIN parts[r] \cup {p} /\ parts'[r][p] = file
      /\ \A q \in DOMAIN parts[r] : q # p => parts'[r][q] = parts[r][q]
      /\ DOMAIN bytes'[r] = DOMAIN bytes[r] \cup {file}
      /\ \A f \in DOMAIN bytes[r] : f # file => bytes'[r][f] = bytes[r][f]
  BY <1>7 DEF Put
\* Every download after the step comes from one before it, and no two from the same.
<1> DEFINE From(x, y) ==
      \/ x = y /\ y \notin others \cup {d}
      \/ y \in others /\ x = [y EXCEPT !.alone = FALSE]
      \/ y = d /\ x = new
<1>9. \A x \in downloads' : \E y \in downloads : From(x, y)
  BY <1>2, <1>4
<1>10. ASSUME NEW x, NEW y \in downloads, From(x, y)
       PROVE  /\ x.by = y.by /\ x.on = y.on /\ x.to = y.to
              /\ x.stage = "asking" => x = y /\ y # d
              /\ x = y \/ (y.by = r /\ y.to = p /\ x.stage = "receiving" /\ x.file = file)
  BY <1>3, <1>4, <1>6, <1>10, <1>r, <1>p
<1>11. ASSUME NEW x, NEW z, NEW y \in downloads, From(x, y), From(z, y)
       PROVE  x = z
  <2>1. CASE y \in others
    <3>1. y # d
      BY <1>4, <2>1
    <3>2. QED  BY <1>11, <2>1, <3>1
  <2>2. CASE y \notin others
    BY <1>11, <2>2
  <2>3. QED  BY <2>1, <2>2
<1> HIDE DEF From
<1>12. \A x : ~(x.by = r /\ x.to = p) => (x \in downloads' <=> x \in downloads)
  <2>1. ASSUME NEW x \in downloads', ~(x.by = r /\ x.to = p) PROVE x \in downloads
    <3>1. PICK y \in downloads : From(x, y)
      BY <1>9, <2>1
    <3>2. QED  BY <1>10, <2>1, <3>1
  <2>2. ASSUME NEW x \in downloads, ~(x.by = r /\ x.to = p) PROVE x \in downloads'
    BY <1>2, <1>4, <1>6, <1>r, <1>p, <2>2
  <2>3. QED  BY <2>1, <2>2
<1>13. Elsewhere(r, p)
  <2>1. \A q \in MemberId \ {r} : Unmoved(q)
    BY <1>2, <1>7, <1>12 DEF Unmoved
  <2>2. \A f \in DOMAIN bytes'[r] \ DOMAIN bytes[r] :
          \E x \in downloads : x.by = r /\ x.to = p /\ x.on = f
    BY <1>5, <1>8, <1>r, <1>p
  <2>3. \A f \in DOMAIN bytes[r] : Uses(r, p, f) \/ bytes'[r][f] = bytes[r][f]
    BY <1>5, <1>8
  <2>4. QED  BY <1>2, <1>8, <1>12, <2>1, <2>2, <2>3 DEF Elsewhere
<1>14. Here(r, p)
  <2>1. \A x \in downloads' \cup received' : x.by = r /\ x.to = p =>
          \E y \in downloads \cup received : y.by = r /\ y.to = p /\ y.on = x.on
    BY <1>2, <1>9, <1>10
  <2>2. ASSUME NEW x \in downloads', NEW z \in downloads', x.by = r, z.by = r, x.on = z.on
        PROVE  x = z
    <3>1. PICK y \in downloads : From(x, y)
      BY <1>9
    <3>2. PICK w \in downloads : From(z, w)
      BY <1>9
    <3>3. y = w
      BY <1>1, <1>10, <2>2, <3>1, <3>2 DEF MemberOK, Numbered
    <3>4. QED  BY <1>11, <3>1, <3>2, <3>3
  <2>3. \A x \in downloads', y \in received' : x.by = r /\ y.by = r => x.on # y.on
    BY <1>1, <1>2, <1>9, <1>10 DEF MemberOK, Numbered
  <2>4. ASSUME NEW x \in downloads', x.by = r, x.stage = "asking" PROVE x.on \notin DOMAIN bytes'[r]
    <3>1. x \in downloads /\ x # d
      BY <1>9, <1>10, <2>4
    <3>2. x.on \notin DOMAIN bytes[r] /\ x.on # d.on
      BY <1>1, <2>4, <3>1, <1>r DEF MemberOK, Numbered
    <3>3. QED  BY <1>5, <1>8, <3>2
  <2>5. ASSUME NEW f, Uses(r, p, f)'
        PROVE  f \in DOMAIN bytes'[r] /\ (Uses(r, p, f) \/ f \notin DOMAIN bytes[r])
    <3>1. f = file \/ Uses(r, p, f)
      <4>1. CASE f # file /\ ~(p \in DOMAIN disk[r] /\ disk[r][p] = f)
        <5>1. PICK x \in downloads' \cup received' :
                x.by = r /\ x.to = p /\ x.stage # "asking" /\ x.file = f
          BY <1>2, <1>8, <2>5, <4>1 DEF Uses
        <5>2. x \in downloads \cup received
          BY <1>2, <1>9, <1>10, <4>1, <5>1
        <5>3. QED  BY <5>1, <5>2 DEF Uses
      <4>2. QED  BY <4>1 DEF Uses
    <3>2. Uses(r, p, f) => f \in DOMAIN bytes[r]
      BY <1>1 DEF MemberOK, Owned
    <3>3. QED  BY <1>5, <1>8, <3>1, <3>2
  <2>6. \A x \in received' : x.by = r => x.stage = "done"
    BY <1>1, <1>2 DEF MemberOK, Numbered
  <2>7. \A x, y \in received' : x.by = r /\ y.by = r /\ x.on = y.on => x = y
    BY <1>1, <1>2 DEF MemberOK, Numbered
  <2>8. QED  BY <2>1, <2>2, <2>3, <2>4, <2>5, <2>6, <2>7 DEF Here
<1>15. ASSUME Clean(r, p) PROVE Undisputed(r, p)'
  <2>1. /\ \A x \in downloads : x.by = r /\ x.to = p => x = d
        /\ \A x \in received : x.by = r => x.to # p
        /\ p \notin DOMAIN disk[r]
        /\ \A s \in saved : ~(s.by = r /\ s.to = p)
    BY <1>1, <1>2, <1>15, <1>r, <1>p DEF MemberOK, Undisputed, OnTheWay, Unsaved, SavedWell
  <2>2. others = {}
    BY <1>4, <1>6, <2>1
  <2>3. \A x \in downloads' : x.by = r /\ x.to = p => x = new
    BY <1>2, <2>1, <2>2
  <2>4. OnTheWay(new)'
    BY <1>2, <1>3, <1>8, <2>1, <2>2 DEF OnTheWay, Unsaved
  <2>5. QED  BY <1>2, <2>1, <2>3, <2>4 DEF Undisputed
<1>16. QED  BY <1>1, <1>13, <1>14, <1>15, PathStep

LEMMA FinishReceivingSaves ==
  ASSUME Typed, SavingInv, NEW d \in downloads, FinishReceiving(d), Grows
  PROVE  SavingInv'
<1>r. PICK r : r = d.by
  OBVIOUS
<1>p. PICK p : p = d.to
  OBVIOUS
<1>c. PICK came : came = source[d.on]
  OBVIOUS
<1>n. PICK new : new = [d EXCEPT !.stage = "done", !.hash = came]
  OBVIOUS
<1>1. d \in Download /\ r \in MemberId /\ MemberOK(r) /\ d.stage = "receiving"
      /\ d.file \in DOMAIN bytes[r]
  BY <1>r, DownloadFacts DEF Typed, DownloadsTyped, SavingInv, FinishReceiving
<1>2. PICK content \in {came} \cup (IF d.alone THEN {} ELSE {Mixed}) :
        bytes' = [bytes EXCEPT ![r][d.file] = content]
  BY <1>r, <1>c DEF FinishReceiving
<1>3. /\ downloads' = (downloads \ {d}) \cup {new}
      /\ UNCHANGED <<accepted, clashes, received, saved>>
      /\ IF IsFile(d.on) THEN UNCHANGED <<parts, disk>>
         ELSE /\ parts' = [parts EXCEPT ![r] = Drop(@, p)]
              /\ disk' = [disk EXCEPT ![r] = Put(@, p, d.file)]
  BY <1>r, <1>p, <1>c, <1>n DEF FinishReceiving, outcome
<1>4. /\ new.by = r /\ new.on = d.on /\ new.to = p /\ new.stage = "done"
      /\ new.file = d.file /\ new.hash = came
  BY <1>1, <1>r, <1>p, <1>n DEF Download
<1>5. /\ bytes'[r][d.file] = content /\ DOMAIN bytes'[r] = DOMAIN bytes[r]
      /\ \A f \in DOMAIN bytes[r] : f # d.file => bytes'[r][f] = bytes[r][f]
      /\ \A q \in MemberId \ {r} : bytes'[q] = bytes[q]
  <2>1. bytes \in [MemberId -> FileMap]
    BY DEF Typed, DisksTyped
  <2>2. bytes'[r] = [bytes[r] EXCEPT ![d.file] = content]
    BY <1>1, <1>2, <2>1
  <2>3. QED  BY <1>1, <1>2, <2>1, <2>2
<1>6. /\ \A q \in MemberId \ {r} : parts'[q] = parts[q] /\ disk'[q] = disk[q]
      /\ \A q : q # p => /\ q \in DOMAIN parts'[r] <=> q \in DOMAIN parts[r]
                         /\ q \in DOMAIN parts[r] => parts'[r][q] = parts[r][q]
                         /\ q \in DOMAIN disk'[r] <=> q \in DOMAIN disk[r]
                         /\ q \in DOMAIN disk[r] => disk'[r][q] = disk[r][q]
      /\ IsFile(d.on) => parts'[r] = parts[r] /\ disk'[r] = disk[r]
      /\ ~IsFile(d.on) => p \notin DOMAIN parts'[r] /\ p \in DOMAIN disk'[r] /\ disk'[r][p] = d.file
  <2>1. CASE IsFile(d.on)
    BY <1>3, <2>1
  <2>2. CASE ~IsFile(d.on)
    <3>1. parts \in [MemberId -> PathMap] /\ disk \in [MemberId -> PathMap]
      BY DEF Typed, DisksTyped
    <3>2. /\ parts'[r] = Drop(parts[r], p) /\ disk'[r] = Put(disk[r], p, d.file)
          /\ \A q \in MemberId \ {r} : parts'[q] = parts[q] /\ disk'[q] = disk[q]
      BY <1>1, <1>3, <2>2, <3>1
    <3>3. /\ DOMAIN parts'[r] = DOMAIN parts[r] \ {p}
          /\ \A q \in DOMAIN parts'[r] : parts'[r][q] = parts[r][q]
      BY <3>2 DEF Drop, Restrict
    <3>4. /\ DOMAIN disk'[r] = DOMAIN disk[r] \cup {p} /\ disk'[r][p] = d.file
          /\ \A q \in DOMAIN disk[r] : q # p => disk'[r][q] = disk[r][q]
      BY <3>2 DEF Put
    <3>5. QED  BY <2>2, <3>2, <3>3, <3>4
  <2>3. QED  BY <2>1, <2>2
<1>7. Uses(r, p, d.file)
  BY <1>1, <1>r, <1>p DEF Uses
<1>8. Elsewhere(r, p)
  <2>1. \A x : ~(x.by = r /\ x.to = p) => (x \in downloads' <=> x \in downloads)
    BY <1>3, <1>4, <1>r, <1>p
  <2>2. \A q \in MemberId \ {r} : Unmoved(q)
    BY <1>3, <1>5, <1>6, <2>1 DEF Unmoved
  <2>3. \A f \in DOMAIN bytes[r] : Uses(r, p, f) \/ bytes'[r][f] = bytes[r][f]
    BY <1>5, <1>7
  <2>4. QED  BY <1>3, <1>5, <1>6, <2>1, <2>2, <2>3 DEF Elsewhere
<1>9. Here(r, p)
  <2>1. \A x \in downloads' : x # new => x \in downloads /\ x # d
    BY <1>3
  <2>2. \A x \in downloads : x.by = r /\ x # d => x.on # d.on
    BY <1>1, <1>r DEF MemberOK, Numbered
  <2>3. \A x \in downloads' \cup received' : x.by = r /\ x.to = p =>
          \E y \in downloads \cup received : y.by = r /\ y.to = p /\ y.on = x.on
    BY <1>3, <1>4, <2>1, <1>r, <1>p
  <2>4. \A x, y \in downloads' : x.by = r /\ y.by = r /\ x.on = y.on => x = y
    BY <1>1, <1>4, <2>1, <2>2 DEF MemberOK, Numbered
  <2>5. \A x \in downloads', y \in received' : x.by = r /\ y.by = r => x.on # y.on
    BY <1>1, <1>3, <1>4, <2>1, <1>r DEF MemberOK, Numbered
  <2>6. \A x \in downloads' : x.by = r /\ x.stage = "asking" => x.on \notin DOMAIN bytes'[r]
    BY <1>1, <1>4, <1>5, <2>1 DEF MemberOK, Numbered
  <2>7. ASSUME NEW f, Uses(r, p, f)'
        PROVE  Uses(r, p, f)
    <3>1. CASE f = d.file
      BY <1>7, <3>1
    <3>2. CASE f # d.file
      <4>1. CASE \E x \in downloads' \cup received' : x.by = r /\ x.to = p /\ x.stage # "asking" /\ x.file = f
        <5>1. PICK x \in downloads' \cup received' : x.by = r /\ x.to = p /\ x.stage # "asking" /\ x.file = f
          BY <4>1
        <5>2. x \in downloads \cup received
          BY <1>3, <1>4, <2>1, <3>2, <5>1
        <5>3. QED  BY <5>1, <5>2 DEF Uses
      <4>2. CASE p \in DOMAIN parts'[r] /\ parts'[r][p] = f
        BY <1>6, <4>2 DEF Uses
      <4>3. CASE p \in DOMAIN disk'[r] /\ disk'[r][p] = f
        BY <1>6, <3>2, <4>3 DEF Uses
      <4>4. QED  BY <2>7, <4>1, <4>2, <4>3 DEF Uses
    <3>3. QED  BY <3>1, <3>2
  <2>8. \A f : Uses(r, p, f) => f \in DOMAIN bytes'[r]
    BY <1>1, <1>5 DEF MemberOK, Owned
  <2>9. /\ \A x \in received' : x.by = r => x.stage = "done"
        /\ \A x, y \in received' : x.by = r /\ y.by = r /\ x.on = y.on => x = y
    BY <1>1, <1>3 DEF MemberOK, Numbered
  <2>10. QED  BY <2>3, <2>4, <2>5, <2>6, <2>7, <2>8, <2>9 DEF Here
<1>10. ASSUME Clean(r, p) PROVE Undisputed(r, p)'
  <2>1. /\ \A x \in downloads : x.by = r /\ x.to = p => x = d
        /\ \A x \in received : x.by = r => x.to # p
        /\ p \notin DOMAIN disk[r] /\ d.alone
        /\ p \in DOMAIN parts[r] /\ parts[r][p] = d.file
        /\ \A s \in saved : ~(s.by = r /\ s.to = p)
    BY <1>1, <1>10, <1>r, <1>p DEF MemberOK, Undisputed, OnTheWay, Unsaved, SavedWell
  <2>2. \A x \in downloads' : x.by = r /\ x.to = p => x = new
    BY <1>3, <2>1
  <2>3. content = came
    BY <2>1
  <2>4. IsFile(d.on)' = IsFile(d.on)
    BY DEF Grows, SamePlan, IsFile
  <2>5. OnTheWay(new)'
    BY <1>4, <1>5, <1>6, <2>1, <2>3, <2>4 DEF OnTheWay, Unsaved, Holds
  <2>6. p \in DOMAIN disk'[r] => p \notin DOMAIN parts'[r]
    BY <1>6, <2>1
  <2>7. QED  BY <1>3, <2>1, <2>2, <2>5, <2>6 DEF Undisputed
<1>11. QED  BY <1>1, <1>8, <1>9, <1>10, PathStep

-----------------------------------------------------------------------------
(* What the digest and the download make of it.                            *)

\* The known digest is one the provider has found; x is what has been received, now or
\* before.
LEMMA FinalizeSaves ==
  ASSUME Typed, SavingInv, Grows, NEW r \in MemberId, NEW c \in Plan, NEW digest \in Found(c),
         NEW pend, NEW x, x.by = r, x.on = c, Pending(pend, r, c) = {x},
         \/ x \in received /\ pend = received /\ downloads' = downloads
         \/ /\ x \in downloads /\ x.stage = "done" /\ IsFile(c)
            /\ downloads' = downloads \ {x} /\ pend = received \cup {x},
         NEW tolerated, MaybeFinalize(r, c, digest, pend, tolerated),
         UNCHANGED <<bytes, accepted, clashes>>
  PROVE  SavingInv' /\ (ended' = ended \/ (ended' = ended \cup {r} /\ <<r, x.to>> \in clashes))
<1>p. PICK p : p = x.to
  OBVIOUS
<1>1. MemberOK(r)
  BY DEF SavingInv
<1>2. /\ \A q \in MemberId \ {r} : parts'[q] = parts[q] /\ disk'[q] = disk[q]
      /\ \/ /\ digest = NoDigest /\ received' = pend
            /\ UNCHANGED <<parts, disk, saved, ended>>
         \/ /\ digest # NoDigest /\ received' = pend \ {x}
            /\ parts'[r] = Drop(parts[r], p)
            /\ \/ UNCHANGED <<disk, saved, ended>>
               \/ /\ x.hash = digest /\ p \in DOMAIN parts[r]
                  /\ disk'[r] = Put(disk[r], p, parts[r][p])
                  /\ saved' = saved \cup {Saved(x)} /\ ended' = ended
               \/ /\ p \notin DOMAIN parts[r] /\ UNCHANGED <<disk, saved>>
                  /\ ended' = ended \/ ended' = ended \cup {r}
  <2>1. parts \in [MemberId -> PathMap] /\ disk \in [MemberId -> PathMap]
    BY DEF Typed, DisksTyped
  <2>2. CASE digest = NoDigest
    BY <2>2 DEF MaybeFinalize, outcome
  <2>3. CASE digest # NoDigest
    <3>1. /\ received' = pend \ {x}
          /\ parts' = [parts EXCEPT ![r] = Drop(@, p)]
          /\ \/ UNCHANGED <<disk, saved, ended>>
             \/ /\ x.hash = digest /\ p \in DOMAIN parts[r]
                /\ disk' = [disk EXCEPT ![r] = Put(@, p, parts[r][p])]
                /\ saved' = saved \cup {Saved(x)} /\ ended' = ended
             \/ /\ p \notin DOMAIN parts[r] /\ UNCHANGED <<disk, saved>>
                /\ ended' = ended \/ ended' = ended \cup {r}
      BY <2>3, <1>p DEF MaybeFinalize
    <3>2. parts'[r] = Drop(parts[r], p) /\ \A q \in MemberId \ {r} : parts'[q] = parts[q]
      BY <2>1, <3>1
    <3>3. ASSUME disk' = [disk EXCEPT ![r] = Put(@, p, parts[r][p])]
          PROVE  disk'[r] = Put(disk[r], p, parts[r][p])
                 /\ \A q \in MemberId \ {r} : disk'[q] = disk[q]
      BY <2>1, <3>3
    <3>4. QED  BY <2>3, <3>1, <3>2, <3>3
  <2>4. QED  BY <2>2, <2>3
<1>3. /\ \A q \in DOMAIN parts'[r] : q \in DOMAIN parts[r] /\ parts'[r][q] = parts[r][q]
      /\ \A q \in DOMAIN parts[r] : q # p => q \in DOMAIN parts'[r]
      /\ digest # NoDigest => p \notin DOMAIN parts'[r]
  <2>1. CASE UNCHANGED parts /\ digest = NoDigest
    BY <2>1
  <2>2. CASE parts'[r] = Drop(parts[r], p)
    BY <2>2 DEF Drop, Restrict
  <2>3. QED  BY <1>2, <2>1, <2>2
<1>4. /\ \A q : q # p => (q \in DOMAIN disk'[r] <=> q \in DOMAIN disk[r])
      /\ \A q \in DOMAIN disk[r] : q # p => disk'[r][q] = disk[r][q]
      /\ \/ disk'[r] = disk[r] /\ saved' = saved
         \/ /\ p \in DOMAIN parts[r] /\ p \in DOMAIN disk'[r] /\ disk'[r][p] = parts[r][p]
            /\ digest # NoDigest /\ x.hash = digest
            /\ saved' = saved \cup {Saved(x)}
  <2>1. CASE UNCHANGED <<disk, saved>>
    BY <2>1
  <2>2. CASE ~UNCHANGED <<disk, saved>>
    <3>1. /\ digest # NoDigest /\ x.hash = digest /\ p \in DOMAIN parts[r]
          /\ disk'[r] = Put(disk[r], p, parts[r][p]) /\ saved' = saved \cup {Saved(x)}
      BY <1>2, <2>2
    <3>2. /\ DOMAIN disk'[r] = DOMAIN disk[r] \cup {p} /\ disk'[r][p] = parts[r][p]
          /\ \A q \in DOMAIN disk[r] : q # p => disk'[r][q] = disk[r][q]
      BY <3>1 DEF Put
    <3>3. QED  BY <3>1, <3>2
  <2>3. QED  BY <2>1, <2>2
<1>5. /\ downloads' \subseteq downloads /\ received' \subseteq received \cup {x}
      /\ x \notin downloads' \/ x \in received
      /\ \A y : y # x => /\ y \in downloads' <=> y \in downloads
                         /\ y \in received' <=> y \in received
      /\ x \in downloads \cup received /\ x \notin downloads'
      /\ digest # NoDigest => x \notin received'
  <2>1. \A y \in downloads, z \in received : y.by = r /\ z.by = r => y.on # z.on
    BY <1>1 DEF MemberOK, Numbered
  <2>2. QED  BY <1>2, <2>1
<1>6. Saved(x).by = r /\ Saved(x).on = c /\ Saved(x).to = p /\ Saved(x).hash = x.hash
  BY <1>p DEF Saved
<1>7. Elsewhere(r, p)
  <2>1. \A q \in MemberId \ {r} : Unmoved(q)
    BY <1>2, <1>4, <1>5, <1>6 DEF Unmoved
  <2>2. \A s \in saved' : s \in saved \/ (s.by = r /\ s.to = p)
    BY <1>4, <1>6
  <2>3. \A q : q # p => /\ q \in DOMAIN parts'[r] <=> q \in DOMAIN parts[r]
                        /\ q \in DOMAIN parts[r] => parts'[r][q] = parts[r][q]
    BY <1>3
  <2>4. QED  BY <1>p, <1>4, <1>5, <2>1, <2>2, <2>3 DEF Elsewhere
<1>8. Here(r, p)
  <2>1. \A y \in downloads' \cup received' : y \in downloads \cup received
    BY <1>5
  <2>2. x.stage = "done"
    BY <1>1 DEF MemberOK, Numbered
  <2>3. \A y, z \in received' : y.by = r /\ z.by = r /\ y.on = z.on => y = z
    <3>1. \A y \in received : y.by = r /\ y # x => y.on # c
      BY <1>1, <1>5 DEF MemberOK, Numbered
    <3>2. QED  BY <1>1, <1>5, <3>1 DEF MemberOK, Numbered
  <2>4. \A y \in downloads', z \in received' : y.by = r /\ z.by = r => y.on # z.on
    <3>1. \A y \in downloads' : y.by = r => y.on # c
      BY <1>1, <1>5 DEF MemberOK, Numbered
    <3>2. QED  BY <1>1, <1>5, <3>1 DEF MemberOK, Numbered
  <2>5. ASSUME NEW f, Uses(r, p, f)' PROVE Uses(r, p, f)
    BY <1>3, <1>4, <2>1, <2>5 DEF Uses
  <2>6. \A f : Uses(r, p, f) => f \in DOMAIN bytes'[r]
    BY <1>1 DEF MemberOK, Owned
  <2>7. /\ \A y, z \in downloads' : y.by = r /\ z.by = r /\ y.on = z.on => y = z
        /\ \A y \in downloads' : y.by = r /\ y.stage = "asking" => y.on \notin DOMAIN bytes'[r]
        /\ \A y \in received' : y.by = r => y.stage = "done"
    BY <1>1, <1>5, <2>2 DEF MemberOK, Numbered
  <2>8. QED  BY <2>1, <2>3, <2>4, <2>5, <2>6, <2>7 DEF Here
<1>9. ASSUME Clean(r, p)
      PROVE  /\ Waiting(x) /\ p \notin DOMAIN disk[r]
             /\ \A y \in downloads \cup received : y.by = r /\ y.to = p => y = x
             /\ \A s \in saved : ~(s.by = r /\ s.to = p)
  <2>1. Undisputed(r, p)
    BY <1>1 DEF MemberOK
  <2>2. CASE x \in received
    BY <1>9, <1>p, <2>1, <2>2 DEF Undisputed, Waiting, Unsaved, SavedWell
  <2>3. CASE x \in downloads /\ x.stage = "done" /\ IsFile(c)
    BY <1>9, <1>p, <2>1, <2>3 DEF Undisputed, OnTheWay, Waiting, Unsaved, SavedWell
  <2>4. QED  BY <2>2, <2>3
<1>10. ASSUME Clean(r, p) PROVE Undisputed(r, p)'
  <2>1. /\ p \in DOMAIN parts[r] /\ parts[r][p] = x.file /\ bytes[r][x.file] = x.hash
        /\ p \notin DOMAIN disk[r] /\ x.stage = "done"
    BY <1>1, <1>9, <1>10, <1>p DEF Waiting, Holds, MemberOK, Numbered
  <2>2. /\ \A y \in downloads' : ~(y.by = r /\ y.to = p)
        /\ \A y \in received' : y.by = r /\ y.to = p => y = x
    BY <1>5, <1>9, <1>10
  <2>3. CASE digest = NoDigest
    <3>1. UNCHANGED <<parts, disk, saved>>
      BY <1>2, <2>3
    <3>2. Waiting(x)'
      BY <1>9, <1>10, <2>1, <3>1, CourseKeeps
    <3>3. QED  BY <1>9, <1>10, <2>1, <2>2, <3>1, <3>2 DEF Undisputed
  <2>4. CASE digest # NoDigest
    <3>1. ASSUME NEW s \in saved', s.by = r, s.to = p
          PROVE  SavedWell(s)'
      <4>1. s = Saved(x) /\ p \in DOMAIN disk'[r] /\ disk'[r][p] = x.file /\ x.hash = digest
        BY <1>4, <1>9, <1>10, <2>1, <3>1
      <4>2. s.on = c /\ s.hash = x.hash
        BY <1>6, <4>1
      <4>3. Plan' = Plan /\ digest \in Found(c)'
        BY SamePlanFacts DEF Grows
      <4>4. c \in Plan' /\ digest = prepared'[c].digest
        BY <2>4, <4>3 DEF Found
      <4>5. QED  BY <2>1, <2>4, <3>1, <4>1, <4>2, <4>4 DEF SavedWell
    <3>2. QED  BY <1>3, <1>5, <2>2, <2>4, <3>1 DEF Undisputed
  <2>5. QED  BY <2>3, <2>4
<1>11. SavingInv'
  BY <1>7, <1>8, <1>10, PathStep
<1>12. ended' = ended \/ (ended' = ended \cup {r} /\ <<r, x.to>> \in clashes)
  <2>1. CASE Clean(r, p)
    <3>1. p \in DOMAIN parts[r]
      BY <1>9, <1>p, <2>1 DEF Waiting, Holds
    <3>2. QED  BY <1>2, <3>1
  <2>2. CASE ~Clean(r, p)
    BY <1>2, <1>p, <2>2 DEF Clean
  <2>3. QED  BY <2>1, <2>2
<1>13. QED  BY <1>11, <1>12

LEMMA KnownDigestFound ==
  ASSUME Typed, NEW r \in MemberId, NEW c \in Plan
  PROVE  KnownDigest(r, c) \in Found(c)
<1>1. NoDigest \in Found(c)
  BY DEF Found
<1>2. CASE r = Host /\ c \in DOMAIN channels
  <2>1. channels[c].transfer \in Offered(c)
    BY <1>2 DEF Typed, RoomTyped
  <2>2. channels[c].transfer.digest \in Found(c)
    BY <2>1 DEF Offered
  <2>3. QED  BY <1>2, <2>2 DEF KnownDigest
<1>3. CASE r # Host /\ c \in DOMAIN view[r]
  <2>1. r \in Joiner
    BY <1>3 DEF Joiner
  <2>2. view[r][c].digest \in Found(c)
    BY <1>3, <2>1 DEF Typed, ViewsTyped
  <2>3. QED  BY <1>3, <2>2 DEF KnownDigest
<1>4. QED  BY <1>1, <1>2, <1>3 DEF KnownDigest

LEMMA NothingPending ==
  ASSUME NEW r, NEW c, NEW digest, NEW pend, Pending(pend, r, c) = {}, NEW tolerated,
         MaybeFinalize(r, c, digest, pend, tolerated)
  PROVE  received' = pend /\ UNCHANGED <<parts, disk, saved, failed, ended>>
BY DEF MaybeFinalize, outcome

LEMMA HandleReceivedSaves ==
  ASSUME Typed, SavingInv, NEW d \in downloads, HandleReceived(d), Grows
  PROVE  SavingInv' /\ (ended' = ended \/ (ended' = ended \cup {d.by} /\ <<d.by, d.to>> \in clashes))
<1>r. PICK r : r = d.by
  OBVIOUS
<1>p. PICK p : p = d.to
  OBVIOUS
<1>1. /\ d \in Download /\ r \in MemberId /\ MemberOK(r) /\ d.on \in Plan
      /\ d.stage = "done" /\ downloads' = downloads \ {d}
      /\ UNCHANGED <<bytes, accepted, clashes>>
  BY <1>r, DownloadFacts DEF Typed, DownloadsTyped, SavingInv, HandleReceived
<1>2. \A x \in received : x.by = r => x.on # d.on
  BY <1>1, <1>r DEF MemberOK, Numbered
<1>3. CASE IsFile(d.on)
  <2> DEFINE digest == KnownDigest(r, d.on)
  <2>1. (received \ Pending(received, r, d.on)) \cup {d} = received \cup {d}
    BY <1>2 DEF Pending
  <2>2. MaybeFinalize(r, d.on, digest, received \cup {d}, FALSE)
    BY <1>3, <1>r, <2>1 DEF HandleReceived, Receive
  <2>3. digest \in Found(d.on)
    BY <1>1, KnownDigestFound
  <2>4. Pending(received \cup {d}, r, d.on) = {d}
    BY <1>2, <1>r DEF Pending
  <2> HIDE DEF digest
  <2>5. PICK pend : pend = received \cup {d}
    OBVIOUS
  <2>6. QED  BY <1>1, <1>3, <1>r, <2>2, <2>3, <2>4, <2>5, FinalizeSaves
<1>4. CASE ~IsFile(d.on)
  <2>1. saved' = saved \cup {Saved(d)} /\ UNCHANGED <<received, parts, disk, ended>>
    BY <1>4 DEF HandleReceived
  <2>2. Saved(d).by = r /\ Saved(d).on = d.on /\ Saved(d).to = p /\ Saved(d).hash = d.hash
    BY <1>r, <1>p DEF Saved
  <2>3. Elsewhere(r, p)
    <3>1. \A q \in MemberId \ {r} : Unmoved(q)
      BY <1>1, <1>r, <2>1, <2>2 DEF Unmoved
    <3>2. QED  BY <1>1, <1>r, <1>p, <2>1, <2>2, <3>1 DEF Elsewhere
  <2>4. Here(r, p)
    <3>1. \A f : Uses(r, p, f)' => Uses(r, p, f)
      BY <1>1, <2>1 DEF Uses
    <3>2. QED  BY <1>1, <2>1, <3>1 DEF Here, MemberOK, Numbered, Owned
  <2>5. ASSUME Clean(r, p) PROVE Undisputed(r, p)'
    <3>1. Undisputed(r, p)
      BY <1>1 DEF MemberOK
    <3>2. /\ \A x \in downloads' : ~(x.by = r /\ x.to = p)
          /\ \A x \in received' : ~(x.by = r /\ x.to = p)
          /\ p \in DOMAIN disk[r] /\ disk[r][p] = d.file /\ bytes[r][d.file] = d.hash
      BY <1>1, <1>4, <1>r, <1>p, <2>1, <2>5, <3>1 DEF Undisputed, OnTheWay
    <3>3. ASSUME NEW s \in saved', s.by = r, s.to = p
          PROVE  SavedWell(s)'
      <4>1. CASE s \in saved
        BY <1>1, <2>1, <2>5, <3>1, <3>3, <4>1, SavedKeeps DEF Undisputed
      <4>2. CASE s = Saved(d)
        <5>1. ~IsFile(s.on)'
          BY <1>4, <2>2, <4>2 DEF Grows, SamePlan, IsFile
        <5>2. QED  BY <1>1, <2>1, <2>2, <3>2, <3>3, <4>2, <5>1 DEF SavedWell
      <4>3. QED  BY <2>1, <3>3, <4>1, <4>2
    <3>4. p \in DOMAIN disk'[r] => p \notin DOMAIN parts'[r]
      BY <2>1, <2>5, <3>1 DEF Undisputed
    <3>5. QED  BY <3>2, <3>3, <3>4 DEF Undisputed
  <2>6. SavingInv'
    BY <1>1, <2>3, <2>4, <2>5, PathStep
  <2>7. QED  BY <2>1, <2>6
<1>5. QED  BY <1>3, <1>4

\* News of a digest meets what its reader has received, or not.
LEMMA NewsFinalizes ==
  ASSUME Typed, SavingInv, Grows, NEW r \in MemberId, NEW c \in Plan, NEW digest \in Found(c),
         NEW tolerated, MaybeFinalize(r, c, digest, received, tolerated),
         UNCHANGED <<accepted, clashes, downloads, bytes>>
  PROVE  /\ SavingInv'
         /\ ended' = ended \/ \E p : ended' = ended \cup {r} /\ <<r, p>> \in clashes
<1>1. CASE Pending(received, r, c) = {}
  <2>1. received' = received /\ UNCHANGED <<parts, disk, saved, ended>>
    BY <1>1, NothingPending
  <2>2. QED  BY <2>1, NobodyMoves DEF files
<1>2. CASE Pending(received, r, c) # {}
  <2>1. PICK x : x \in received /\ x.by = r /\ x.on = c
    BY <1>2 DEF Pending
  <2>2. Pending(received, r, c) = {x}
    BY <2>1 DEF SavingInv, MemberOK, Numbered, Pending
  <2>3. PICK pend : pend = received
    OBVIOUS
  <2>4. SavingInv' /\ (ended' = ended \/ (ended' = ended \cup {r} /\ <<r, x.to>> \in clashes))
    BY <2>1, <2>2, <2>3, FinalizeSaves
  <2>5. QED  BY <2>4
<1>3. QED  BY <1>1, <1>2

LEMMA HostHandlesCommandSaves ==
  ASSUME Typed, SavingInv, NEW j \in Joiner, HostHandlesCommand(j), Grows
  PROVE  /\ SavingInv'
         /\ ended' = ended \/ \E p : ended' = ended \cup {Host} /\ <<Host, p>> \in clashes
<1> DEFINE e == Head(toHost[j])
<1>1. /\ toHost[j] # <<>> /\ UNCHANGED <<accepted, clashes, downloads, bytes>>
      /\ \/ MaybeFinalize(Host, e.on, e.digest, received, TRUE)
         \/ UNCHANGED <<received, parts, disk, saved, ended>>
  BY DEF HostHandlesCommand, outcome
<1>2. e \in News
  <2> DEFINE N == News
  <2>1. toHost[j] \in Seq(N)
    BY DEF Typed, QueuesTyped
  <2> HIDE DEF N
  <2>2. e \in N
    BY <1>1, <2>1
  <2>3. QED  BY <2>2 DEF N
<1> HIDE DEF e
<1>3. e.on \in Plan /\ e.digest \in Found(e.on)
  BY <1>2 DEF News, Plan
<1>4. CASE MaybeFinalize(Host, e.on, e.digest, received, TRUE)
  BY <1>1, <1>3, <1>4, HostIsThere, NewsFinalizes
<1>5. CASE UNCHANGED <<received, parts, disk, saved, ended>>
  BY <1>1, <1>5, NobodyMoves DEF files
<1>6. QED  BY <1>1, <1>4, <1>5

\* What a joiner forgets when somebody quits the channel leaves its .part file behind.
LEMMA ForgettingSaves ==
  ASSUME Typed, SavingInv, Grows, NEW r \in MemberId, NEW x \in received, x.by = r,
         received' = received \ {x},
         UNCHANGED <<accepted, clashes, downloads, files, saved>>
  PROVE  SavingInv'
<1>p. PICK p : p = x.to
  OBVIOUS
<1>1. MemberOK(r) /\ UNCHANGED <<parts, disk, bytes>>
  BY DEF SavingInv, files
<1>2. Elsewhere(r, p)
  <2>1. \A q \in MemberId \ {r} : Unmoved(q)
    BY <1>1 DEF Unmoved
  <2>2. QED  BY <1>1, <1>p, <2>1 DEF Elsewhere
<1>3. Here(r, p)
  <2>1. \A f : Uses(r, p, f)' => Uses(r, p, f)
    BY <1>1 DEF Uses
  <2>2. QED  BY <1>1, <2>1 DEF Here, MemberOK, Numbered, Owned
<1>4. ASSUME Clean(r, p) PROVE Undisputed(r, p)'
  <2>1. Undisputed(r, p)
    BY <1>1 DEF MemberOK
  <2>2. /\ \A y \in downloads' : ~(y.by = r /\ y.to = p)
        /\ \A y \in received' : ~(y.by = r /\ y.to = p)
    BY <1>4, <1>p, <2>1 DEF Undisputed
  <2>3. \A s \in saved' : s.by = r /\ s.to = p => SavedWell(s)'
    BY <1>1, <1>4, <2>1, SavedKeeps DEF Undisputed
  <2>4. p \in DOMAIN disk'[r] => p \notin DOMAIN parts'[r]
    BY <1>1, <1>4, <2>1 DEF Undisputed
  <2>5. QED  BY <2>2, <2>3, <2>4 DEF Undisputed
<1>5. QED  BY <1>2, <1>3, <1>4, PathStep

LEMMA JoinerReadsSaves ==
  ASSUME Typed, SavingInv, NEW j \in Joiner, JoinerReads(j), Grows
  PROVE  /\ SavingInv'
         /\ ended' = ended \/ \E p : ended' = ended \cup {j} /\ <<j, p>> \in clashes
<1> DEFINE e == Head(peerLink[j])
<1>1. /\ peerLink[j] # <<>> /\ UNCHANGED <<accepted, clashes, downloads, bytes>>
      /\ \/ MaybeFinalize(j, e.on, e.digest, received, FALSE)
         \/ received' = PendingAfter(j, e) /\ UNCHANGED <<parts, disk, saved, ended>>
  BY DEF JoinerReads, outcome
<1>2. j \in MemberId /\ MemberOK(j)
  BY HostIsThere DEF SavingInv
<1>3. e \in News
  <2> DEFINE N == News
  <2>1. peerLink[j] \in Seq(N)
    BY DEF Typed, QueuesTyped
  <2> HIDE DEF N
  <2>2. e \in N
    BY <1>1, <2>1
  <2>3. QED  BY <2>2 DEF N
<1> HIDE DEF e
<1>4. e.on \in Plan /\ e.digest \in Found(e.on)
  BY <1>3 DEF News, Plan
<1>5. CASE MaybeFinalize(j, e.on, e.digest, received, FALSE)
  BY <1>1, <1>2, <1>4, <1>5, NewsFinalizes
<1>6. CASE received' = PendingAfter(j, e) /\ UNCHANGED <<parts, disk, saved, ended>>
  <2>1. CASE received' = received
    BY <1>1, <1>6, <2>1, NobodyMoves DEF files
  <2>2. CASE received' # received
    <3>1. received' = received \ Pending(received, j, e.on)
      BY <1>6, <2>2 DEF PendingAfter
    <3>2. PICK x : x \in received /\ x.by = j /\ x.on = e.on
      BY <2>2, <3>1 DEF Pending
    <3>3. Pending(received, j, e.on) = {x}
      BY <1>2, <3>2 DEF MemberOK, Numbered, Pending
    <3>4. QED  BY <1>1, <1>2, <1>6, <3>1, <3>2, <3>3, ForgettingSaves DEF files
  <2>3. QED  BY <2>1, <2>2
<1>7. QED  BY <1>1, <1>5, <1>6

-----------------------------------------------------------------------------
(* Saved paths, for every plan.                                            *)

LEMMA SavingInit ==
  ASSUME TransferInit
  PROVE  SavingInv
<1>1. \A r \in MemberId : DOMAIN disk[r] = {} /\ DOMAIN parts[r] = {} /\ DOMAIN bytes[r] = {}
  BY DEF TransferInit, Nothing
<1>2. downloads = {} /\ received = {} /\ saved = {}
  BY DEF TransferInit
<1>3. QED
  BY <1>1, <1>2 DEF SavingInv, MemberOK, Numbered, Owned, Uses, Undisputed

LEMMA SavingNext ==
  ASSUME Typed, SavingInv, [TransferNext]_transferVars
  PROVE  SavingInv'
<1>1. CASE TransferNext
  <2>1. Grows
    BY <1>1, StepGrows
  <2>2. ASSUME NEW c \in Plan, SendPath(c) \/ EditSource(c) \/ Prepare(c) \/ Publish(c) \/ GiveUp(c)
        PROVE  SavingInv'
    BY <2>1, <2>2, NobodyMoves DEF SendPath, EditSource, Prepare, Publish, GiveUp, outcome
  <2>3. ASSUME NEW m \in MemberId, NEW c \in Plan, QuitChannel(m, c)
        PROVE  SavingInv'
    BY <2>1, <2>3, NobodyMoves DEF QuitChannel, outcome
  <2>4. ASSUME NEW m \in MemberId, NEW c \in Plan, Accept(m, c)
        PROVE  SavingInv'
    BY <2>1, <2>4, AcceptSaves
  <2>5. ASSUME NEW d \in downloads, IsRefused(d) \/ IsBroken(d)
        PROVE  SavingInv'
    BY <2>1, <2>5, FailsSaves DEF IsRefused, IsBroken
  <2>6. ASSUME NEW d \in downloads, BeginReceiving(d) \/ FinishReceiving(d) \/ HandleReceived(d)
        PROVE  SavingInv'
    BY <2>1, <2>6, BeginReceivingSaves, FinishReceivingSaves, HandleReceivedSaves
  <2>7. ASSUME NEW j \in Joiner, HostHandlesCommand(j) \/ JoinerReads(j)
        PROVE  SavingInv'
    BY <2>1, <2>7, HostHandlesCommandSaves, JoinerReadsSaves
  <2>8. QED  BY <1>1, StepIsOneOf, <2>2, <2>3, <2>4, <2>5, <2>6, <2>7
<1>2. CASE UNCHANGED transferVars
  <2>1. Grows /\ UNCHANGED <<accepted, clashes, downloads, received, files, saved>>
    BY <1>2 DEF transferVars, Grows, SamePlan, Found, provider, outcome
  <2>2. QED  BY <2>1, NobodyMoves
<1>3. QED  BY <1>1, <1>2

LEMMA SavingMeansVerified ==
  ASSUME SavingInv
  PROVE  SavedPathsHoldVerifiedBytes
<1>1. ASSUME NEW s \in saved, <<s.by, s.to>> \notin clashes PROVE SavedWell(s)
  BY <1>1 DEF SavingInv, MemberOK, Undisputed, Clean
<1>2. QED  BY <1>1 DEF SavedWell, SavedPathsHoldVerifiedBytes

LEMMA SavingAlways == TransferSpec => [](Typed /\ SavingInv)
<1>1. Typed /\ SavingInv /\ [TransferNext]_transferVars => (Typed /\ SavingInv)'
  BY TypedNext, SavingNext
<1>2. TransferInit => Typed /\ SavingInv
  BY TypedInit, SavingInit
<1>3. QED  BY <1>1, <1>2, PTL DEF TransferSpec

\* Whoever accepts what and when, what channel_path_received reports is there and holds
\* the verified bytes, for good: no other download, edit, failure or late digest touches
\* it.  The one exception is a path that two unfinished downloads were bound for
\* (maybe_finalize_host_received_file, maybe_finalize_join_received_file).
THEOREM SavedPathsAlwaysVerified == TransferSpec => []SavedPathsHoldVerifiedBytes
BY SavingAlways, SavingMeansVerified, PTL

-----------------------------------------------------------------------------
(* Processes survive.                                                      *)

\* A channel of two has no third party.
Parties ==
  \A c \in DOMAIN channels :
    plan[c].to # All => channels[c].participants \subseteq {Provider(c), plan[c].to}

LEMMA ProviderStaysIn ==
  ASSUME Typed, Parties, NEW c \in DOMAIN channels, plan[c].to # All
  PROVE  Provider(c) \in channels[c].participants
<1>1. /\ channels[c].opener = Provider(c)
      /\ HasCompany(channels[c].participants) \/ channels[c].participants = {channels[c].opener}
  BY DEF Typed, RoomTyped, IInv, NobodyIsLeftAlone
<1>2. channels[c].participants \subseteq {Provider(c), plan[c].to}
  BY DEF Parties
<1>3. CASE HasCompany(channels[c].participants)
  BY <1>2, <1>3 DEF HasCompany
<1>4. QED  BY <1>1, <1>3

LEMMA PartiesExecute ==
  ASSUME Typed, Parties, SamePlan,
         NEW m \in MemberId, NEW e \in News, Rightful(m, e), Execute(m, e)
  PROVE  Parties'
<1>1. /\ e.on \in Plan
      /\ e.type \in {"channel_opened", "channel_transfer", "channel_rejected", "channel_closed"}
      /\ e.type = "channel_opened" => Provider(e.on) = m
  BY NewsFacts DEF Typed, Rightful, Quits
<1>2. ASSUME NEW c \in DOMAIN channels', plan[c].to # All
      PROVE  channels'[c].participants \subseteq {Provider(c), plan[c].to}
  <2>1. CASE c \in DOMAIN channels /\ channels'[c].participants \subseteq channels[c].participants
    BY <1>2, <2>1 DEF Parties
  <2>2. \A d \in DOMAIN channels : channels[d] \in Channel
    BY DEF Typed, RoomTyped, IInv, TypeOK
  <2>3. CASE e.type = "channel_opened"
    <3>1. OpenChannel(m, e.on, "file", plan[e.on].to, Offer(e.on, NoDigest))
      BY <2>3 DEF Execute
    <3>2. CASE Refused("channel_opened", m, e.on)
      BY <2>1, <3>2 DEF Refused, room
    <3>3. CASE ~Refused("channel_opened", m, e.on)
      <4>1. \/ c \in DOMAIN channels /\ channels'[c] = channels[c]
            \/ c = e.on /\ channels'[c].participants = Audience(m, plan[c].to)
        BY <3>1, <3>3 DEF OpenChannel
      <4>3. c = e.on => Audience(m, plan[c].to) = {Provider(c), plan[c].to}
        BY <1>1, <1>2, <2>3 DEF Audience
      <4>4. QED  BY <2>1, <4>1, <4>3
    <3>4. QED  BY <3>2, <3>3
  <2>4. CASE e.type = "channel_transfer"
    <3>1. UpdateChannelTransfer(m, e.on, Offer(e.on, e.digest))
      BY <2>4 DEF Execute
    <3>2. CASE Refused("channel_transfer", m, e.on)
      BY <2>1, <3>2 DEF Refused, room
    <3>3. CASE ~Refused("channel_transfer", m, e.on)
      <4>1. PICK offer : channels' = [channels EXCEPT ![e.on].transfer = offer]
        BY <3>1, <3>3 DEF UpdateChannelTransfer
      <4>2. c \in DOMAIN channels /\ channels'[c].participants = channels[c].participants
        BY <2>2, <4>1 DEF Channel
      <4>3. QED  BY <2>1, <4>2
    <3>4. QED  BY <3>2, <3>3
  <2>5. CASE e.type \in {"channel_rejected", "channel_closed"}
    <3>1. PICK event : Quit(event, m, e.on)
      BY <2>5 DEF Execute, RejectChannel, CloseChannel
    <3>2. CASE Refused(event, m, e.on)
      BY <2>1, <3>2 DEF Refused, room
    <3>3. CASE ~Refused(event, m, e.on)
      <4>1. e.on \in DOMAIN channels /\ channels' = WithoutParticipant(e.on, m)
        BY <3>1, <3>3 DEF Quit, MayUse
      <4>2. c \in DOMAIN channels /\ channels'[c].participants \subseteq channels[c].participants
        BY <2>2, <4>1 DEF WithoutParticipant, Channel
      <4>3. QED  BY <2>1, <4>2
    <3>4. QED  BY <3>2, <3>3
  <2>6. QED  BY <1>1, <2>3, <2>4, <2>5
<1>3. QED  BY <1>2 DEF Parties, SamePlan, Provider

LEMMA PartiesCommand ==
  ASSUME Typed, Parties, SamePlan,
         NEW m \in MemberId, NEW e \in News, Rightful(m, e), Command(m, e)
  PROVE  Parties'
<1>1. CASE m = Host
  BY <1>1, PartiesExecute DEF Command
<1>2. CASE m # Host
  BY <1>2 DEF Command, room, Parties, SamePlan, Provider
<1>3. QED  BY <1>1, <1>2

LEMMA PartiesSame ==
  ASSUME Parties, SamePlan, UNCHANGED channels
  PROVE  Parties'
BY DEF Parties, SamePlan, Provider

LEMMA PartiesNext ==
  ASSUME Typed, Parties, [TransferNext]_transferVars
  PROVE  Parties'
<1>1. ASSUME NEW c \in Plan, SendPath(c) \/ Publish(c) \/ GiveUp(c)
      PROVE  Parties'
  <2>1. /\ SamePlan
        /\ \/ \E type \in {"channel_opened", "channel_transfer", "channel_closed"},
                 digest \in Found(c) : Command(Provider(c), Message(type, Provider(c), c, digest))
           \/ NoCommand
    BY <1>1 DEF SendPath, Publish, GiveUp, SamePlan, Found
  <2>2. CASE NoCommand
    BY <2>1, <2>2, PartiesSame DEF NoCommand, vars
  <2>3. ASSUME NEW type \in {"channel_opened", "channel_transfer", "channel_closed"},
               NEW digest \in Found(c), Command(Provider(c), Message(type, Provider(c), c, digest))
        PROVE  Parties'
    <3> DEFINE m == Provider(c)
               e == Message(type, m, c, digest)
    <3>1. m \in MemberId
      BY PlanFacts DEF Typed
    <3>2. e \in News /\ e.on = c
      BY <3>1, MakesNews DEF Typed
    <3>3. Rightful(m, e)
      BY <3>2 DEF Rightful
    <3>4. Command(m, e)
      BY <2>3
    <3> HIDE DEF m, e
    <3>5. QED  BY <2>1, <3>1, <3>2, <3>3, <3>4, PartiesCommand
  <2>4. QED  BY <2>1, <2>2, <2>3
<1>2. ASSUME NEW m \in MemberId, NEW c \in Plan, QuitChannel(m, c)
      PROVE  Parties'
  <2> DEFINE type == IF m = Provider(c) THEN "channel_closed" ELSE "channel_rejected"
             e == Message(type, m, c, NoDigest)
  <2>1. Command(m, e) /\ SamePlan
    BY <1>2 DEF QuitChannel, SamePlan
  <2>2. NoDigest \in Found(c) /\ type \in {"channel_rejected", "channel_closed"}
    BY DEF Found
  <2> HIDE DEF type
  <2>3. e \in News /\ e.type = type
    BY <2>2, MakesNews DEF Typed
  <2>4. Rightful(m, e)
    BY <2>2, <2>3 DEF Rightful, Quits
  <2> HIDE DEF e
  <2>5. QED  BY <2>1, <2>3, <2>4, PartiesCommand
<1>3. ASSUME NEW j \in Joiner, HostHandlesCommand(j)
      PROVE  Parties'
  <2> DEFINE e == Head(toHost[j])
  <2>1. Execute(j, e) /\ SamePlan /\ toHost[j] # <<>>
    BY <1>3 DEF HostHandlesCommand, SamePlan
  <2>2. e \in Ordered(j)
    <3> DEFINE O == Ordered(j)
    <3>1. toHost[j] \in Seq(O)
      BY DEF Typed, QueuesTyped
    <3> HIDE DEF O
    <3>2. e \in O
      BY <2>1, <3>1
    <3>3. QED  BY <3>2 DEF O
  <2> HIDE DEF e
  <2>3. e \in News /\ Rightful(j, e) /\ j \in MemberId
    BY <2>2, HostIsThere DEF Ordered, Rightful
  <2>4. QED  BY <2>1, <2>3, PartiesExecute
<1>4. ASSUME NEW c \in Plan, NEW m \in MemberId, EditSource(c) \/ Prepare(c) \/ Accept(m, c)
      PROVE  Parties'
  BY <1>4, PartiesSame DEF EditSource, Prepare, Accept, SamePlan, vars
<1>5. ASSUME NEW d \in downloads,
             \/ IsRefused(d) \/ BeginReceiving(d) \/ IsBroken(d)
             \/ FinishReceiving(d) \/ HandleReceived(d)
      PROVE  Parties'
  BY <1>5, PartiesSame
  DEF IsRefused, Fails, BeginReceiving, IsBroken, FinishReceiving, HandleReceived, SamePlan, vars
<1>6. ASSUME NEW j \in Joiner, JoinerReads(j)
      PROVE  Parties'
  BY <1>6, PartiesSame DEF JoinerReads, SamePlan, vars
<1>7. CASE UNCHANGED transferVars
  BY <1>7, PartiesSame DEF transferVars, SamePlan, vars
<1>8. QED
  <2>1. CASE TransferNext
    BY <2>1, StepIsOneOf, HostIsThere, <1>1, <1>2, <1>3, <1>4, <1>5, <1>6
  <2>2. QED  BY <2>1, <1>7

\* What is over stays over: with the host gone there is nothing left but edits.
LEMMA HostEnded ==
  ASSUME Typed, [TransferNext]_transferVars, Host \in ended, GaveUpOutside
  PROVE  GaveUpOutside'
<1>1. UNCHANGED <<channels, prepared, plan>>
  <2>1. ASSUME NEW c \in Plan, SendPath(c) \/ EditSource(c) \/ Prepare(c) \/ Publish(c) \/ GiveUp(c)
        PROVE  UNCHANGED <<channels, prepared, plan>>
    BY <2>1 DEF SendPath, EditSource, Prepare, Publish, GiveUp, Runs, vars
  <2>2. ASSUME NEW m \in MemberId, NEW c \in Plan, QuitChannel(m, c) \/ Accept(m, c)
        PROVE  FALSE
    BY <2>2 DEF QuitChannel, Accept, Runs
  <2>3. ASSUME NEW d \in downloads,
               \/ IsRefused(d) \/ BeginReceiving(d) \/ IsBroken(d)
               \/ FinishReceiving(d) \/ HandleReceived(d)
        PROVE  FALSE
    BY <2>3 DEF IsRefused, BeginReceiving, IsBroken, FinishReceiving, HandleReceived, Runs
  <2>4. ASSUME NEW j \in Joiner, HostHandlesCommand(j) \/ JoinerReads(j)
        PROVE  FALSE
    BY <2>4 DEF HostHandlesCommand, JoinerReads, Runs
  <2>5. CASE TransferNext
    BY <2>5, StepIsOneOf, <2>1, <2>2, <2>3, <2>4
  <2>6. CASE UNCHANGED transferVars
    BY <2>6 DEF transferVars, vars, provider
  <2>7. QED  BY <2>5, <2>6
<1>2. QED  BY <1>1 DEF GaveUpOutside, Provider

\* A host that gives up and is refused has quit a channel it opened for everybody.
LEMMA GivingUpOutside ==
  ASSUME Typed, Parties, NEW c \in Plan, GiveUp(c)
  PROVE  ended' = ended \/ (ended' = ended \cup {Host} /\ GaveUpOutside')
<1> DEFINE m == Provider(c)
<1>1. ended' = EndedByClosing(m, c)
  BY DEF GiveUp
<1>2. CASE m = Host /\ ~MayUse(Host, c) /\ c \in DOMAIN channels
  <2>1. Host \notin channels[c].participants
    BY <1>2, HostIsThere DEF MayUse, Typed, RoomTyped
  <2>2. plan[c].to = All
    BY <1>2, <2>1, ProviderStaysIn
  <2>3. channels' = channels
    <3>1. Execute(Host, Message("channel_closed", Host, c, NoDigest))
      BY <1>2 DEF GiveUp, Command
    <3>2. CloseChannel(Host, c)
      BY <3>1 DEF Execute, Message
    <3>3. QED  BY <1>2, <3>2 DEF CloseChannel, Quit, Refused, room
  <2>4. prepared'[c].stage = "given up" /\ plan' = plan
    <3>1. prepared' = [prepared EXCEPT ![c].stage = "given up"] /\ plan' = plan
      BY DEF GiveUp, Stage
    <3>2. prepared \in [Plan -> Preparation]
      BY DEF Typed, ProviderTyped
    <3>3. QED  BY <3>1, <3>2 DEF Preparation
  <2>5. GaveUpOutside'
    BY <1>2, <2>1, <2>2, <2>3, <2>4 DEF GaveUpOutside, Provider
  <2>6. QED  BY <1>1, <1>2, <2>5 DEF EndedByClosing
<1>3. CASE ~(m = Host /\ ~MayUse(Host, c) /\ c \in DOMAIN channels)
  BY <1>1, <1>3 DEF EndedByClosing
<1>4. QED  BY <1>2, <1>3

\* Who is newly ended has one of the two excuses.
LEMMA EndsForAReason ==
  ASSUME Typed, SavingInv, Parties, [TransferNext]_transferVars
  PROVE  /\ clashes \subseteq clashes'
         /\ \A m \in ended' : \/ m \in ended
                              \/ \E p : <<m, p>> \in clashes
                              \/ m = Host /\ GaveUpOutside'
<1>1. CASE TransferNext
  <2>1. Grows
    BY <1>1, StepGrows
  <2>2. ASSUME NEW c \in Plan, GiveUp(c)
        PROVE  /\ clashes' = clashes
               /\ ended' = ended \/ (ended' = ended \cup {Host} /\ GaveUpOutside')
    BY <2>2, GivingUpOutside DEF GiveUp
  <2>3. ASSUME NEW c \in Plan, SendPath(c) \/ EditSource(c) \/ Prepare(c) \/ Publish(c)
        PROVE  ended' = ended /\ clashes' = clashes
    BY <2>3 DEF SendPath, EditSource, Prepare, Publish, outcome
  <2>4. ASSUME NEW m \in MemberId, NEW c \in Plan, QuitChannel(m, c) \/ Accept(m, c)
        PROVE  ended' = ended /\ clashes \subseteq clashes'
    BY <2>4 DEF QuitChannel, Accept, outcome
  <2>5. ASSUME NEW d \in downloads,
               IsRefused(d) \/ BeginReceiving(d) \/ IsBroken(d) \/ FinishReceiving(d)
        PROVE  ended' = ended /\ clashes' = clashes
    BY <2>5 DEF IsRefused, Fails, BeginReceiving, IsBroken, FinishReceiving, outcome
  <2>6. ASSUME NEW d \in downloads, HandleReceived(d)
        PROVE  /\ clashes' = clashes
               /\ ended' = ended \/ (ended' = ended \cup {d.by} /\ <<d.by, d.to>> \in clashes)
    BY <2>1, <2>6, HandleReceivedSaves DEF HandleReceived
  <2>7. ASSUME NEW j \in Joiner, HostHandlesCommand(j) \/ JoinerReads(j)
        PROVE  /\ clashes' = clashes
               /\ \/ ended' = ended
                  \/ \E m, p : ended' = ended \cup {m} /\ <<m, p>> \in clashes
    <3>1. clashes' = clashes
      BY <2>7 DEF HostHandlesCommand, JoinerReads
    <3>2. QED  BY <2>1, <2>7, <3>1, HostHandlesCommandSaves, JoinerReadsSaves
  <2>8. QED  BY <1>1, StepIsOneOf, <2>2, <2>3, <2>4, <2>5, <2>6, <2>7
<1>2. QED  BY <1>1 DEF transferVars, outcome

LEMMA SurvivesNext ==
  ASSUME Typed, SavingInv, Parties, ProcessesSurvive, [TransferNext]_transferVars
  PROVE  ProcessesSurvive'
<1>1. SUFFICES ASSUME NEW m \in ended'
               PROVE  (\E k \in clashes' : k[1] = m) \/ (m = Host /\ GaveUpOutside')
  BY DEF ProcessesSurvive
<1>2. CASE m \in ended
  <2>1. (\E k \in clashes : k[1] = m) \/ (m = Host /\ GaveUpOutside)
    BY <1>2 DEF ProcessesSurvive
  <2>2. QED  BY <1>2, <2>1, EndsForAReason, HostEnded
<1>3. CASE \E p : <<m, p>> \in clashes
  BY <1>3, EndsForAReason
<1>4. QED  BY <1>2, <1>3, EndsForAReason

\* A transfer ends a process in two ways only, whoever offers and accepts what: the
\* rename of a .part file two unfinished downloads were bound for, and the close of a
\* channel of all members by a host that opened it, has quit it and fails to prepare its
\* path (close_channel's MemberNotInChannel ends handle_host_input).
THEOREM ProcessesAlwaysSurvive == TransferSpec => []ProcessesSurvive
<1> DEFINE Kept == Typed /\ SavingInv /\ Parties /\ ProcessesSurvive
<1>1. TransferInit => Kept
  BY TypedInit, SavingInit DEF TransferInit, Parties, ProcessesSurvive
<1>2. Kept /\ [TransferNext]_transferVars => Kept'
  BY TypedNext, SavingNext, PartiesNext, SurvivesNext
<1>3. Kept => ProcessesSurvive
  OBVIOUS
<1> HIDE DEF Kept
<1>4. QED  BY <1>1, <1>2, <1>3, PTL DEF TransferSpec
=============================================================================
