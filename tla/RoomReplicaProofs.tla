------------------------- MODULE RoomReplicaProofs --------------------------
(***************************************************************************)
(* Theorems about RoomReplica: its types, and that what the host sends to  *)
(* a joiner amounts to the engine's members and channels.  The host's      *)
(* engine is the subject of RoomEngineProofs, whose IInv is used here.     *)
(***************************************************************************)
EXTENDS RoomReplica, RoomEngineProofs, SequenceTheorems, WellFoundedInduction, TLAPS

-----------------------------------------------------------------------------
(* Reading a stream to its end.                                            *)

\* g records the copies that reading s makes of v.
Reading(g, v, j, s) == g[0] = v /\ \A i \in 1 .. Len(s) : g[i] = Apply(g[i - 1], j, s[i])

\* Induction over the copies: what holds at first and survives each message
\* holds at last.
LEMMA Carried ==
  ASSUME NEW n \in Nat, NEW g, NEW S, g[0] \in S,
         \A i \in 1 .. n : g[i - 1] \in S => g[i] \in S
  PROVE  \A i \in 0 .. n : g[i] \in S
<1> DEFINE Bad == {i \in 0 .. n : g[i] \notin S}
           R == OpToRel(<, Nat)
<1>1. SUFFICES ASSUME Bad # {} PROVE FALSE
  OBVIOUS
<1>2. PICK i \in Bad : \A k \in Bad : ~ (<<k, i>> \in R)
  <2>1. IsWellFoundedOn(R, Nat)
    BY NatLessThanWellFounded
  <2>2. Bad \subseteq Nat
    OBVIOUS
  <2> HIDE DEF R, Bad
  <2>3. QED  BY <1>1, <2>1, <2>2, WFMin
<1>3. i \in 1 .. n
  <2>1. i \in 0 .. n /\ i # 0
    BY <1>2
  <2>2. QED  BY <2>1
<1>4. i - 1 \in 0 .. n /\ i - 1 \in Nat /\ i \in Nat /\ i - 1 < i
  BY <1>3
<1>5. i - 1 \notin Bad
  <2>1. <<i - 1, i>> \in R
    BY <1>4 DEF OpToRel
  <2>2. QED  BY <1>2, <2>1
<1>6. g[i - 1] \in S
  BY <1>4, <1>5
<1>7. QED  BY <1>2, <1>3, <1>6

\* f is what After takes it to be.
Copies(f, v, j, s, n) == f = [i \in 0 .. n |-> IF i = 0 THEN v ELSE Apply(f[i - 1], j, s[i])]

LEMMA CopiesExist ==
  ASSUME NEW v, NEW j, NEW s, NEW m \in Nat
  PROVE  \E f : Copies(f, v, j, s, m)
<1> USE DEF Copies
<1> DEFINE Is(f, n) == Copies(f, v, j, s, n)
           Good == {n \in Nat : \E f : Is(f, n)}
           g == [n \in 0 .. m |-> n]
<1>1. 0 \in Good
  <2>1. Is([i \in 0 .. 0 |-> v], 0)
    OBVIOUS
  <2> HIDE DEF Is
  <2>2. QED  BY <2>1
<1>2. ASSUME NEW n \in Nat, n \in Good PROVE n + 1 \in Good
  <2>1. PICK f : Is(f, n)
    BY <1>2
  <2> DEFINE h == [i \in 0 .. n + 1 |-> IF i = n + 1 THEN Apply(f[n], j, s[n + 1]) ELSE f[i]]
  <2>2. ASSUME NEW i \in 0 .. n + 1
        PROVE  h[i] = IF i = 0 THEN v ELSE Apply(h[i - 1], j, s[i])
    <3>1. CASE i = n + 1
      <4>1. i # 0 /\ i - 1 = n /\ n # n + 1 /\ n \in 0 .. n + 1
        BY <3>1
      <4>2. h[i] = Apply(f[n], j, s[n + 1]) /\ h[n] = f[n]
        BY <3>1, <4>1
      <4>3. QED  BY <3>1, <4>1, <4>2
    <3>2. CASE i \in 0 .. n
      <4>1. i # n + 1 /\ (i # 0 => i - 1 \in 0 .. n /\ i - 1 # n + 1 /\ i - 1 \in 0 .. n + 1)
        BY <3>2
      <4>2. h[i] = f[i] /\ (i # 0 => h[i - 1] = f[i - 1])
        BY <4>1
      <4>3. f[i] = IF i = 0 THEN v ELSE Apply(f[i - 1], j, s[i])
        BY <2>1, <3>2
      <4>4. QED  BY <4>2, <4>3
    <3>3. QED  BY <3>1, <3>2
  <2>3. h = [i \in 0 .. n + 1 |-> h[i]]
    OBVIOUS
  <2>4. Is(h, n + 1)
    <3> DEFINE step(i) == IF i = 0 THEN v ELSE Apply(h[i - 1], j, s[i])
    <3>1. \A i \in 0 .. n + 1 : h[i] = step(i)
      BY <2>2
    <3> HIDE DEF h, step
    <3>2. h = [i \in 0 .. n + 1 |-> step(i)]
      BY <2>3, <3>1
    <3>3. QED  BY <3>2 DEF step
  <2> HIDE DEF Is
  <2>5. QED  BY <2>4
<1>3. \A i \in 1 .. m : g[i - 1] \in Good => g[i] \in Good
  <2> HIDE DEF Good
  <2>1. SUFFICES ASSUME NEW i \in 1 .. m, g[i - 1] \in Good PROVE g[i] \in Good
    OBVIOUS
  <2>2. i - 1 \in Nat /\ g[i - 1] = i - 1 /\ g[i] = i /\ (i - 1) + 1 = i
    OBVIOUS
  <2>3. QED  BY <1>2, <2>1, <2>2
<1>4. g[0] \in Good /\ g[m] = m /\ m \in 0 .. m
  BY <1>1
<1>5. m \in Good
  <2> HIDE DEF Good, g
  <2>1. QED  BY <1>3, <1>4, Carried
<1>6. QED  BY <1>5

LEMMA AfterHasReading ==
  ASSUME NEW v, NEW j, NEW s, Len(s) \in Nat
  PROVE  \E g : Reading(g, v, j, s) /\ After(v, j, s) = g[Len(s)]
<1> DEFINE f == CHOOSE f : Copies(f, v, j, s, Len(s))
<1>1. Copies(f, v, j, s, Len(s))
  BY CopiesExist
<1>2. After(v, j, s) = f[Len(s)]
  BY DEF After, Copies
<1> HIDE DEF f
<1>3. f[0] = v
  BY <1>1 DEF Copies
<1>4. \A i \in 1 .. Len(s) : f[i] = Apply(f[i - 1], j, s[i])
  <2>1. SUFFICES ASSUME NEW i \in 1 .. Len(s) PROVE f[i] = Apply(f[i - 1], j, s[i])
    OBVIOUS
  <2>2. i \in 0 .. Len(s) /\ i # 0
    OBVIOUS
  <2>3. QED  BY <1>1, <2>2 DEF Copies
<1>5. QED  BY <1>2, <1>3, <1>4 DEF Reading

\* A stream is read in one way only.
LEMMA AfterIs ==
  ASSUME NEW v, NEW j, NEW s, Len(s) \in Nat, NEW h, Reading(h, v, j, s)
  PROVE  After(v, j, s) = h[Len(s)]
<1>1. PICK g : Reading(g, v, j, s) /\ After(v, j, s) = g[Len(s)]
  BY AfterHasReading
<1> DEFINE same == {k \in 0 .. Len(s) : g[k] = h[k]}
           id == [k \in 0 .. Len(s) |-> k]
<1>2. id[0] \in same
  BY <1>1 DEF Reading
<1>3. ASSUME NEW i \in 1 .. Len(s), id[i - 1] \in same PROVE id[i] \in same
  <2>1. g[i - 1] = h[i - 1] /\ id[i] = i /\ i \in 0 .. Len(s)
    BY <1>3
  <2>2. g[i] = Apply(g[i - 1], j, s[i]) /\ h[i] = Apply(h[i - 1], j, s[i])
    BY <1>1 DEF Reading
  <2>3. QED  BY <2>1, <2>2
<1>4. id[Len(s)] \in same
  <2>1. Len(s) \in 0 .. Len(s)
    OBVIOUS
  <2> HIDE DEF same, id
  <2>2. QED  BY <1>2, <1>3, <2>1, Carried
<1>5. QED  BY <1>1, <1>4

LEMMA AfterNothing == \A v, j : After(v, j, <<>>) = v
<1>1. ASSUME NEW v, NEW j PROVE After(v, j, <<>>) = v
  <2> DEFINE g == [i \in {0} |-> v]
  <2>1. Reading(g, v, j, <<>>) /\ g[Len(<<>>)] = v
    BY DEF Reading
  <2> HIDE DEF g
  <2>2. QED  BY <2>1, AfterIs
<1>2. QED  BY <1>1

LEMMA AfterAppend ==
  ASSUME NEW V, NEW v, NEW j, NEW s \in Seq(V), NEW e \in V
  PROVE  After(v, j, Append(s, e)) = Apply(After(v, j, s), j, e)
<1>1. PICK g : Reading(g, v, j, s) /\ After(v, j, s) = g[Len(s)]
  BY AfterHasReading
<1> DEFINE t == Append(s, e)
           n == Len(s)
           h == [i \in 0 .. n + 1 |-> IF i = n + 1 THEN Apply(g[n], j, e) ELSE g[i]]
<1>2. n \in Nat /\ Len(t) = n + 1 /\ t[n + 1] = e /\ \A i \in 1 .. n : t[i] = s[i]
  BY AppendProperties
<1> HIDE DEF t, n
<1>3. h[0] = v /\ h[n + 1] = Apply(g[n], j, e)
  BY <1>1, <1>2 DEF Reading
<1>4. ASSUME NEW i \in 1 .. n + 1 PROVE h[i] = Apply(h[i - 1], j, t[i])
  <2>1. i - 1 \in 0 .. n + 1 /\ i - 1 # n + 1 /\ i \in 0 .. n + 1
    BY <1>2
  <2>2. h[i - 1] = g[i - 1]
    BY <2>1
  <2>3. CASE i = n + 1
    <3>1. i - 1 = n
      BY <2>3, <1>2
    <3>2. QED  BY <3>1, <2>2, <2>3, <1>2, <1>3
  <2>4. CASE i # n + 1
    <3>1. i \in 1 .. n
      BY <2>4, <1>2
    <3>2. h[i] = g[i]
      BY <2>1, <2>4
    <3>3. g[i] = Apply(g[i - 1], j, s[i])
      BY <3>1, <1>1 DEF Reading, n
    <3>4. QED  BY <3>1, <3>2, <3>3, <2>2, <1>2
  <2>5. QED  BY <2>3, <2>4
<1> HIDE DEF h
<1>5. Reading(h, v, j, t) /\ Len(t) \in Nat
  BY <1>2, <1>3, <1>4 DEF Reading
<1>6. After(v, j, t) = h[n + 1]
  BY <1>2, <1>5, AfterIs
<1>7. QED  BY <1>1, <1>3, <1>6 DEF t, n

LEMMA AfterHead ==
  ASSUME NEW V, NEW v, NEW j, NEW s \in Seq(V), s # <<>>
  PROVE  After(v, j, s) = After(Apply(v, j, Head(s)), j, Tail(s))
<1> DEFINE t == Tail(s)
           w == Apply(v, j, Head(s))
           n == Len(t)
<1>1. n \in Nat /\ Len(s) = n + 1 /\ Head(s) = s[1] /\ \A i \in 1 .. n : t[i] = s[i + 1]
  <2>1. Len(s) \in Nat /\ Len(s) # 0 /\ Head(s) = s[1] /\ Len(t) = Len(s) - 1
    BY HeadTailProperties, LenProperties, EmptySeq
  <2>2. \A i \in 1 .. n : t[i] = s[i + 1]
    BY HeadTailProperties
  <2>3. QED  BY <2>1, <2>2
<1>2. PICK g : Reading(g, w, j, t) /\ After(w, j, t) = g[Len(t)]
  BY <1>1, AfterHasReading
<1> DEFINE h == [i \in 0 .. n + 1 |-> IF i = 0 THEN v ELSE g[i - 1]]
<1> HIDE DEF n
<1>3. ASSUME NEW i \in 1 .. n + 1 PROVE h[i] = Apply(h[i - 1], j, s[i])
  <2>1. i \in 0 .. n + 1 /\ i # 0 /\ i - 1 \in 0 .. n + 1
    BY <1>1
  <2>2. h[i] = g[i - 1]
    BY <2>1
  <2>3. CASE i = 1
    <3>1. h[i - 1] = v /\ g[i - 1] = w
      BY <2>1, <2>3, <1>2 DEF Reading
    <3>2. QED  BY <3>1, <2>2, <2>3, <1>1
  <2>4. CASE i # 1
    <3>1. i - 1 \in 1 .. n /\ i - 1 # 0 /\ (i - 1) + 1 = i
      BY <2>4, <1>1
    <3>2. h[i - 1] = g[(i - 1) - 1]
      BY <3>1, <2>1
    <3>3. g[i - 1] = Apply(g[(i - 1) - 1], j, t[i - 1])
      BY <3>1, <1>2 DEF Reading, n
    <3>4. t[i - 1] = s[i]
      BY <3>1, <1>1
    <3>5. QED  BY <3>2, <3>3, <3>4, <2>2
  <2>5. QED  BY <2>3, <2>4
<1>4. h[0] = v /\ h[n + 1] = g[n]
  BY <1>1
<1> HIDE DEF h
<1>5. Reading(h, v, j, s)
  BY <1>1, <1>3, <1>4 DEF Reading
<1>6. After(v, j, s) = h[n + 1]
  <2>1. Len(s) \in Nat
    BY <1>1
  <2>2. QED  BY <1>1, <1>5, <2>1, AfterIs
<1>7. QED  BY <1>2, <1>4, <1>6 DEF n

LEMMA AfterBoth ==
  ASSUME NEW V, NEW v, NEW j, NEW s \in Seq(V), NEW t \in Seq(V)
  PROVE  After(v, j, s \o t) = After(After(v, j, s), j, t)
<1> DEFINE u == s \o t
           n == Len(s)
           m == Len(t)
<1>1. /\ n \in Nat /\ m \in Nat /\ Len(u) = n + m
      /\ \A i \in 1 .. n : u[i] = s[i]
      /\ \A i \in 1 .. m : u[n + i] = t[i]
  <2>1. n \in Nat /\ m \in Nat /\ Len(u) = n + m
    BY ConcatProperties, LenProperties
  <2>2. \A i \in 1 .. n : u[i] = s[i]
    BY <2>1, ConcatProperties
  <2>3. ASSUME NEW i \in 1 .. m PROVE u[n + i] = t[i]
    <3>1. n + i \in 1 .. n + m /\ ~(n + i <= n) /\ (n + i) - n = i
      BY <2>1
    <3>2. u[n + i] = IF n + i <= n THEN s[n + i] ELSE t[(n + i) - n]
      <4>1. \A k \in 1 .. n + m : u[k] = IF k <= n THEN s[k] ELSE t[k - n]
        BY ConcatProperties
      <4> HIDE DEF u, n, m
      <4>2. QED  BY <3>1, <4>1
    <3>3. QED  BY <3>1, <3>2
  <2>4. QED  BY <2>1, <2>2, <2>3
<1> HIDE DEF u, n, m
<1>2. PICK g : Reading(g, v, j, u) /\ After(v, j, u) = g[n + m]
  <2>1. Len(u) \in Nat
    BY <1>1
  <2>2. QED  BY <1>1, <2>1, AfterHasReading
<1> DEFINE h == [i \in 0 .. m |-> g[n + i]]
<1>3. g[0] = v /\ \A i \in 1 .. n + m : g[i] = Apply(g[i - 1], j, u[i])
  BY <1>1, <1>2 DEF Reading
<1>4. Reading(g, v, j, s)
  <2>1. \A i \in 1 .. n : i \in 1 .. n + m
    BY <1>1
  <2>2. QED  BY <1>1, <1>3, <2>1 DEF Reading, n
<1>5. After(v, j, s) = g[n]
  BY <1>1, <1>4, AfterIs DEF n
<1>6. ASSUME NEW i \in 1 .. m PROVE h[i] = Apply(h[i - 1], j, t[i])
  <2>1. i \in 0 .. m /\ i - 1 \in 0 .. m /\ n + i \in 1 .. n + m /\ (n + i) - 1 = n + (i - 1)
    BY <1>1
  <2>2. h[i] = g[n + i] /\ h[i - 1] = g[n + (i - 1)]
    BY <2>1
  <2>3. g[n + i] = Apply(g[(n + i) - 1], j, u[n + i])
    BY <1>3, <2>1
  <2>4. QED  BY <1>1, <2>1, <2>2, <2>3
<1>7. h[0] = g[n] /\ h[m] = g[n + m]
  BY <1>1
<1> HIDE DEF h
<1>8. Reading(h, g[n], j, t)
  BY <1>6, <1>7 DEF Reading, m
<1>9. After(g[n], j, t) = h[m]
  BY <1>1, <1>8, AfterIs DEF m
<1>10. QED  BY <1>2, <1>5, <1>7, <1>9 DEF u

LEMMA AppendToSecond ==
  ASSUME NEW V, NEW s \in Seq(V), NEW t \in Seq(V), NEW e \in V
  PROVE  s \o Append(t, e) = Append(s \o t, e)
<1>1. Append(t, e) = t \o <<e>> /\ <<e>> \in Seq(V) /\ s \o t \in Seq(V)
  BY AppendIsConcat, ConcatProperties
<1>2. Append(s \o t, e) = (s \o t) \o <<e>>
  BY <1>1, AppendIsConcat
<1>3. QED  BY <1>1, <1>2, ConcatAssociative

LEMMA TailOfFirst ==
  ASSUME NEW V, NEW s \in Seq(V), NEW t \in Seq(V), s # <<>>
  PROVE  s \o t # <<>> /\ Head(s \o t) = Head(s) /\ Tail(s \o t) = Tail(s) \o t
<1> DEFINE u == s \o t
           w == Tail(s) \o t
<1>1. /\ Len(s) \in Nat /\ Len(s) # 0 /\ Len(t) \in Nat
      /\ Head(s) = s[1] /\ Tail(s) \in Seq(V) /\ Len(Tail(s)) = Len(s) - 1
      /\ \A i \in 1 .. Len(Tail(s)) : Tail(s)[i] = s[i + 1]
  BY LenProperties, EmptySeq, HeadTailProperties
<1>2. /\ u \in Seq(V) /\ Len(u) = Len(s) + Len(t)
      /\ \A i \in 1 .. Len(s) + Len(t) : u[i] = IF i <= Len(s) THEN s[i] ELSE t[i - Len(s)]
  BY ConcatProperties
<1>3. /\ w \in Seq(V) /\ Len(w) = Len(Tail(s)) + Len(t)
      /\ \A i \in 1 .. Len(Tail(s)) + Len(t) :
           w[i] = IF i <= Len(Tail(s)) THEN Tail(s)[i] ELSE t[i - Len(Tail(s))]
  BY <1>1, ConcatProperties
<1> HIDE DEF u, w
<1>4. u # <<>> /\ Head(u) = s[1]
  <2>1. Len(u) # 0 /\ 1 \in 1 .. Len(s) + Len(t) /\ 1 <= Len(s)
    BY <1>1, <1>2
  <2>2. u # <<>>
    BY <2>1, EmptySeq
  <2>3. QED  BY <1>2, <2>1, <2>2
<1>5. /\ Tail(u) \in Seq(V) /\ Len(Tail(u)) = Len(u) - 1
      /\ \A i \in 1 .. Len(Tail(u)) : Tail(u)[i] = u[i + 1]
  BY <1>2, <1>4, HeadTailProperties
<1>6. Len(Tail(u)) = Len(w)
  BY <1>1, <1>2, <1>3, <1>5
<1>7. ASSUME NEW i \in 1 .. Len(Tail(u)) PROVE Tail(u)[i] = w[i]
  <2>1. /\ i + 1 \in 1 .. Len(s) + Len(t) /\ i \in 1 .. Len(Tail(s)) + Len(t)
        /\ i \in Nat /\ (i + 1 <= Len(s) <=> i <= Len(Tail(s)))
        /\ (i + 1) - Len(s) = i - Len(Tail(s))
    BY <1>1, <1>2, <1>5
  <2>2. Tail(u)[i] = IF i + 1 <= Len(s) THEN s[i + 1] ELSE t[(i + 1) - Len(s)]
    BY <1>2, <1>5, <2>1
  <2>3. w[i] = IF i <= Len(Tail(s)) THEN Tail(s)[i] ELSE t[i - Len(Tail(s))]
    BY <1>3, <2>1
  <2>4. i <= Len(Tail(s)) => Tail(s)[i] = s[i + 1]
    BY <1>1, <2>1
  <2>5. QED  BY <2>1, <2>2, <2>3, <2>4
<1>8. Tail(u) = w
  BY <1>3, <1>5, <1>6, <1>7, SeqEqual
<1>9. QED  BY <1>1, <1>4, <1>8 DEF u, w

\* A message that no copy minds may come in between.
LEMMA AfterIgnored ==
  ASSUME NEW V, NEW v, NEW j, NEW s \in Seq(V), NEW t \in Seq(V), NEW e \in V,
         \A w : Apply(w, j, e) = w
  PROVE  After(v, j, Append(s, e) \o t) = After(v, j, s \o t)
<1>1. Append(s, e) \in Seq(V)
  BY AppendProperties
<1>2. After(v, j, Append(s, e)) = After(v, j, s)
  BY AfterAppend
<1>3. After(v, j, Append(s, e) \o t) = After(After(v, j, Append(s, e)), j, t)
  <2> DEFINE a == Append(s, e)
  <2>1. a \in Seq(V)
    BY <1>1
  <2> HIDE DEF a
  <2>2. After(v, j, a \o t) = After(After(v, j, a), j, t)
    BY <2>1, AfterBoth
  <2>3. QED  BY <2>2 DEF a
<1>4. QED  BY <1>2, <1>3, AfterBoth

LEMMA AfterIgnoredThen ==
  ASSUME NEW V, NEW v, NEW j, NEW s \in Seq(V), NEW t \in Seq(V), NEW e \in V, NEW f \in V,
         \A w : Apply(w, j, e) = w
  PROVE  After(v, j, Append(s, e) \o Append(t, f)) = Apply(After(v, j, s \o t), j, f)
<1>1. PICK u \in Seq(V) : u = s \o t
  BY ConcatProperties
<1>2. PICK r \in Seq(V) : r = Append(t, f)
  BY AppendProperties
<1>3. After(v, j, Append(s, e) \o r) = After(v, j, s \o r)
  BY AfterIgnored
<1>4. s \o r = Append(u, f)
  BY <1>1, <1>2, AppendToSecond
<1>5. After(v, j, Append(u, f)) = Apply(After(v, j, u), j, f)
  BY AfterAppend
<1>6. QED  BY <1>1, <1>2, <1>3, <1>4, <1>5

LEMMA AfterTwo ==
  ASSUME NEW v, NEW j, NEW e, NEW f
  PROVE  After(v, j, <<e, f>>) = Apply(Apply(v, j, e), j, f)
<1> DEFINE w == Apply(v, j, e)
           x == Apply(w, j, f)
           g == [i \in 0 .. 2 |-> IF i = 0 THEN v ELSE IF i = 1 THEN w ELSE x]
           s == <<e, f>>
<1>1. g[0] = v /\ g[1] = w /\ g[2] = x
  OBVIOUS
<1>2. Len(s) = 2 /\ s[1] = e /\ s[2] = f
  OBVIOUS
<1> HIDE DEF g, s
<1>3. g[1] = Apply(g[0], j, s[1]) /\ g[2] = Apply(g[1], j, s[2])
  BY <1>1, <1>2
<1>4. \A i \in 1 .. 2 : i = 1 \/ i = 2
  OBVIOUS
<1>5. \A i \in 1 .. Len(s) : g[i] = Apply(g[i - 1], j, s[i])
  BY <1>2, <1>3, <1>4
<1>6. After(v, j, s) = g[Len(s)]
  <2>1. Reading(g, v, j, s) /\ Len(s) \in Nat
    BY <1>1, <1>2, <1>5 DEF Reading
  <2>2. QED  BY <2>1, AfterIs
<1>7. QED  BY <1>1, <1>2, <1>6 DEF s

\* What every message of a stream preserves is so at its end.
LEMMA AfterKeeps ==
  ASSUME NEW v, NEW j, NEW s, Len(s) \in Nat, NEW S, v \in S,
         \A w \in S, i \in 1 .. Len(s) : Apply(w, j, s[i]) \in S
  PROVE  After(v, j, s) \in S
<1>1. PICK g : Reading(g, v, j, s) /\ After(v, j, s) = g[Len(s)]
  BY AfterHasReading
<1>2. g[0] \in S /\ \A i \in 1 .. Len(s) : g[i - 1] \in S => g[i] \in S
  BY <1>1 DEF Reading
<1>3. \A i \in 0 .. Len(s) : g[i] \in S
  BY <1>2, Carried
<1>4. QED  BY <1>1, <1>3

\* Likewise for two copies that read the same.
LEMMA AfterRelates ==
  ASSUME NEW v, NEW w, NEW j, NEW s, Len(s) \in Nat, NEW S, <<v, w>> \in S,
         \A x, y : \A i \in 1 .. Len(s) :
           <<x, y>> \in S => <<Apply(x, j, s[i]), Apply(y, j, s[i])>> \in S
  PROVE  <<After(v, j, s), After(w, j, s)>> \in S
<1>1. PICK g : Reading(g, v, j, s) /\ After(v, j, s) = g[Len(s)]
  BY AfterHasReading
<1>2. PICK h : Reading(h, w, j, s) /\ After(w, j, s) = h[Len(s)]
  BY AfterHasReading
<1> DEFINE p == [i \in 0 .. Len(s) |-> <<g[i], h[i]>>]
<1>3. p[0] \in S
  BY <1>1, <1>2 DEF Reading
<1>4. ASSUME NEW i \in 1 .. Len(s), p[i - 1] \in S PROVE p[i] \in S
  <2>1. i \in 0 .. Len(s) /\ i - 1 \in 0 .. Len(s)
    OBVIOUS
  <2>2. <<g[i - 1], h[i - 1]>> \in S /\ p[i] = <<g[i], h[i]>>
    BY <1>4, <2>1
  <2>3. g[i] = Apply(g[i - 1], j, s[i]) /\ h[i] = Apply(h[i - 1], j, s[i])
    BY <1>1, <1>2 DEF Reading
  <2>4. QED  BY <2>2, <2>3
<1>5. p[Len(s)] = <<g[Len(s)], h[Len(s)]>> /\ Len(s) \in 0 .. Len(s)
  OBVIOUS
<1>6. p[Len(s)] \in S
  <2> HIDE DEF p
  <2>1. QED  BY <1>3, <1>4, <1>5, Carried
<1>7. QED  BY <1>1, <1>2, <1>5, <1>6

-----------------------------------------------------------------------------
(* Types: messages, copies, and what reading one does to the other.        *)

Routine == {"channel_opened", "channel_transfer", "channel_accepted", "channel_rejected",
            "channel_closed"}
Notice  == {"member_joined", "member_left"}
Advice  == {"room_welcome", "peer_connect", "room_closed"}

Sound(e) ==
  e.type \in Routine => /\ e.on \in ChannelId
                        /\ e.type = "channel_opened" => e.kind \in ChannelKind
                        /\ e.type = "channel_transfer" => e.offer \in TransferOffer

Letter == {e \in [type : Routine \cup Notice \cup Advice \cup {"leave_room"},
                  by : MemberId, on : ChannelId \cup {NoChannel},
                  kind : ChannelKind \cup {"none"}, to : Route,
                  offer : TransferOffer \cup {NoTransfer}] : Sound(e)}

\* What travels on toHost[m], on the authority link and on the host's peer link.
Request(m) == {e \in Letter : e.by = m /\ e.type \in Routine \cup {"leave_room"}}
Guidance   == {e \in Letter : e.type \in Advice}
                \cup [type : {"member_snapshot"}, members : SUBSET MemberId]
News       == {e \in Letter : e.type \in Routine \cup Notice}

Book == UNION {[D -> Channel] : D \in SUBSET ChannelId}
Copy == [self : BOOLEAN, members : SUBSET MemberId, channels : Book]

CountersTyped ==
  /\ roomOpen \in BOOLEAN
  /\ alive \subseteq Joiner
  /\ connected \subseteq Joiner \X MemberId
  /\ issued \in 0 .. MaxCommands
  /\ used \cup misused \subseteq ChannelId
  /\ misled \subseteq ahead /\ ahead \subseteq Joiner
LinksTyped ==
  /\ DOMAIN toHost = Joiner /\ toHost = [j \in Joiner |-> toHost[j]]
  /\ \A j \in Joiner : toHost[j] \in Seq(Request(j))
  /\ authority \in [Joiner -> Seq(Guidance)]
  /\ peerLink \in [Joiner -> Seq(News)]
CopiesTyped == view \in [Joiner -> Copy]
Typed == IInv /\ CountersTyped /\ LinksTyped /\ CopiesTyped

LEMMA MemberNumbers ==
  /\ MemberId \subseteq Nat \ {0} /\ Joiner \subseteq MemberId /\ Host \in MemberId
  /\ Host \notin Joiner /\ All \notin MemberId /\ All \in Route /\ MemberId \subseteq Route
  /\ MemberId = Joiner \cup {Host}
BY MaxMemberIndexAssumption DEF MemberId, Joiner, Host, All, Route

LEMMA BookFacts ==
  /\ \A f \in Book : /\ DOMAIN f \subseteq ChannelId /\ f = [c \in DOMAIN f |-> f[c]]
                     /\ \A c \in DOMAIN f : f[c] \in Channel
  /\ \A D \in SUBSET ChannelId : [D -> Channel] \subseteq Book
BY DEF Book

LEMMA PutInBook ==
  ASSUME NEW f \in Book, NEW c \in ChannelId, NEW x \in Channel
  PROVE  Put(f, c, x) \in Book
<1>1. Put(f, c, x) \in [DOMAIN f \cup {c} -> Channel]
  BY BookFacts DEF Put
<1>2. DOMAIN f \cup {c} \in SUBSET ChannelId
  BY BookFacts
<1>3. QED  BY <1>1, <1>2, BookFacts

LEMMA DropInBook ==
  ASSUME NEW f \in Book, NEW c
  PROVE  Drop(f, c) \in Book
<1>1. Drop(f, c) \in [DOMAIN f \ {c} -> Channel]
  BY BookFacts DEF Drop
<1>2. DOMAIN f \ {c} \in SUBSET ChannelId
  BY BookFacts
<1>3. QED  BY <1>1, <1>2, BookFacts

LEMMA CommandsAreRequests ==
  ASSUME NEW m \in MemberId, NEW cmd \in Commands(m)
  PROVE  /\ cmd \in Request(m) /\ cmd \in News /\ cmd.type \in Routine
         /\ cmd.type # "channel_opened" => cmd.to = All
<1>1. /\ cmd.by = m /\ cmd.type \in Routine /\ Sound(cmd)
      /\ cmd.on \in ChannelId /\ cmd.kind \in ChannelKind \cup {"none"}
      /\ cmd.to \in Route /\ cmd.offer \in TransferOffer \cup {NoTransfer}
      /\ cmd = Message(cmd.type, cmd.by, cmd.on, cmd.kind, cmd.to, cmd.offer)
      /\ cmd.type # "channel_opened" => cmd.to = All
  <2>1. CASE \E c \in ChannelId, kind \in ChannelKind, to \in Route,
                offer \in TransferOffer \cup {NoTransfer} :
               cmd = Message("channel_opened", m, c, kind, to, offer)
    BY <2>1 DEF Message, Sound, Routine
  <2>2. CASE \E type \in {"channel_accepted", "channel_rejected", "channel_closed"},
                c \in ChannelId : cmd = Message(type, m, c, "none", All, NoTransfer)
    BY <2>2, MemberNumbers DEF Message, Sound, Routine
  <2>3. CASE \E c \in ChannelId, offer \in TransferOffer :
               cmd = Message("channel_transfer", m, c, "none", All, offer)
    BY <2>3, MemberNumbers DEF Message, Sound, Routine
  <2>4. QED  BY <2>1, <2>2, <2>3 DEF Commands
<1>2. cmd \in Letter
  BY <1>1 DEF Letter, Message
<1>3. QED  BY <1>1, <1>2 DEF Request, News

LEMMA AboutTyped ==
  ASSUME NEW m \in MemberId
  PROVE  /\ About("leave_room", m) \in Request(m)
         /\ \A t \in Notice : About(t, m) \in News
         /\ \A t \in Advice : About(t, m) \in Guidance
         /\ \A t : About(t, m).type = t /\ About(t, m).by = m /\ About(t, m).on = NoChannel
<1>1. \A t \in Notice \cup Advice \cup {"leave_room"} : About(t, m) \in Letter
  BY MemberNumbers DEF About, Message, Letter, Sound, Routine, Notice, Advice
<1>2. \A t : About(t, m).type = t /\ About(t, m).by = m /\ About(t, m).on = NoChannel
  BY DEF About, Message
<1>3. QED  BY <1>1, <1>2 DEF Request, News, Guidance

\* A copy stays a copy, whichever of the host's messages is read.
LEMMA ApplyTyped ==
  ASSUME NEW v \in Copy, NEW j \in Joiner, NEW e \in Guidance \cup News
  PROVE  Apply(v, j, e) \in Copy
<1>0. /\ v.self \in BOOLEAN /\ v.members \subseteq MemberId /\ v.channels \in Book
      /\ v = [self |-> v.self, members |-> v.members, channels |-> v.channels]
  BY DEF Copy
<1>1. CASE e \in [type : {"member_snapshot"}, members : SUBSET MemberId]
  BY <1>0, <1>1 DEF Apply, Copy
<1>2. CASE e \in Letter
  <2>0. e.by \in MemberId /\ Sound(e) /\ e.to \in Route
        /\ e.offer \in TransferOffer \cup {NoTransfer}
    BY <1>2 DEF Letter
  <2>1. CASE e.type \in Advice
    <3>1. NewView \in Copy
      <4>1. [c \in {} |-> NoChannel] \in [{} -> Channel]
        OBVIOUS
      <4>2. [c \in {} |-> NoChannel] \in Book
        BY <4>1, BookFacts
      <4>3. QED  BY <4>2 DEF NewView, Copy
    <3>2. [NewView EXCEPT !.self = v.self] \in Copy
      BY <3>1, <1>0 DEF Copy, NewView
    <3>3. [v EXCEPT !.self = TRUE] \in Copy
      BY <1>0 DEF Copy
    <3>4. QED  BY <2>1, <3>2, <3>3, <1>0 DEF Apply, Advice
  <2>2. CASE e.type = "member_joined"
    BY <2>2, <2>0, <1>0 DEF Apply, Copy
  <2>3. CASE e.type = "member_left"
    <3>1. Apply(v, j, e) = ApplyLeft(v, j, e.by)
      BY <2>3 DEF Apply
    <3> DEFINE Rest(c) == v.channels[c].participants \ {e.by}
               D == {c \in DOMAIN v.channels : Keeps(v, j, Rest(c))}
               f == [c \in D |-> [v.channels[c] EXCEPT !.participants = Rest(c)]]
    <3>2. f \in Book
      <4>1. \A c \in D : [v.channels[c] EXCEPT !.participants = Rest(c)] \in Channel
        BY <1>0, BookFacts DEF Channel
      <4>2. D \in SUBSET ChannelId
        BY <1>0, BookFacts
      <4>3. f \in [D -> Channel]
        BY <4>1
      <4>4. QED  BY <4>2, <4>3, BookFacts
    <3>3. ApplyLeft(v, j, e.by)
            = [self |-> v.self, members |-> v.members \ {e.by}, channels |-> f]
      <4>1. ApplyLeft(v, j, e.by) = [v EXCEPT !.members = v.members \ {e.by}, !.channels = f]
        BY DEF ApplyLeft
      <4> HIDE DEF f
      <4>2. QED  BY <4>1, <1>0
    <3>4. QED  BY <3>1, <3>2, <3>3, <1>0 DEF Copy
  <2>4. CASE e.type = "channel_opened"
    <3> DEFINE x == [opener |-> e.by, kind |-> e.kind, transfer |-> e.offer,
                     participants |-> ViewAudience(v, e.by, e.to)]
    <3>1. Apply(v, j, e) = ApplyOpened(v, e)
      BY <2>4 DEF Apply
    <3>2. ViewAudience(v, e.by, e.to) \in SUBSET MemberId
      BY <2>0, <1>0, MemberNumbers DEF ViewAudience, Route
    <3>3. x \in Channel /\ e.on \in ChannelId
      BY <2>0, <2>4, <3>2 DEF Channel, Sound, Routine
    <3>4. Put(v.channels, e.on, x) \in Book
      BY <3>3, <1>0, PutInBook
    <3>5. [v EXCEPT !.channels = Put(v.channels, e.on, x)] \in Copy
      <4> HIDE DEF x
      <4>1. QED  BY <3>4, <1>0 DEF Copy
    <3>6. QED  BY <3>1, <3>5 DEF ApplyOpened
  <2>5. CASE e.type = "channel_transfer"
    <3>1. Apply(v, j, e) = ApplyTransfer(v, e)
      BY <2>5 DEF Apply
    <3>2. CASE e.on \in DOMAIN v.channels
      <4> DEFINE f == [v.channels EXCEPT ![e.on].transfer = e.offer]
      <4>1. f \in [DOMAIN v.channels -> Channel]
        BY <3>2, <2>0, <1>0, BookFacts DEF Channel
      <4>2. f \in Book
        BY <4>1, <1>0, BookFacts
      <4>3. ApplyTransfer(v, e) = [self |-> v.self, members |-> v.members, channels |-> f]
        BY <3>2, <1>0 DEF ApplyTransfer
      <4>4. QED  BY <3>1, <4>2, <4>3, <1>0 DEF Copy
    <3>3. QED  BY <3>1, <3>2 DEF ApplyTransfer
  <2>6. CASE e.type \in {"channel_rejected", "channel_closed"}
    <3>1. Apply(v, j, e) = ApplyQuit(v, j, e.on, e.by)
      BY <2>6 DEF Apply
    <3>2. CASE e.on \in DOMAIN v.channels
      <4> DEFINE rest == v.channels[e.on].participants \ {e.by}
                 f == IF Keeps(v, j, rest) THEN [v.channels EXCEPT ![e.on].participants = rest]
                                           ELSE Drop(v.channels, e.on)
      <4>1. [v.channels EXCEPT ![e.on].participants = rest] \in [DOMAIN v.channels -> Channel]
        BY <1>0, <3>2, BookFacts DEF Channel
      <4>2. f \in Book
        BY <4>1, <1>0, BookFacts, DropInBook
      <4>3. ApplyQuit(v, j, e.on, e.by)
              = [self |-> v.self, members |-> v.members, channels |-> f]
        BY <3>2, <1>0 DEF ApplyQuit
      <4>4. QED  BY <3>1, <4>2, <4>3, <1>0 DEF Copy
    <3>3. QED  BY <3>1, <3>2 DEF ApplyQuit
  <2>7. CASE e.type \in {"channel_accepted", "leave_room"}
    BY <2>7 DEF Apply
  <2>8. QED
    BY <1>2, <2>1, <2>2, <2>3, <2>4, <2>5, <2>6, <2>7 DEF Letter, Routine, Notice
<1>3. QED  BY <1>1, <1>2 DEF Guidance, News

\* What a joiner does at once leaves its copy a copy.
LEMMA OptimisticTyped ==
  ASSUME NEW v \in Copy, NEW j \in Joiner, NEW cmd \in News
  PROVE  Optimistic(v, j, cmd) \in Copy
<1>1. Apply(v, j, cmd) \in Copy
  BY ApplyTyped
<1>2. [v EXCEPT !.channels = Drop(v.channels, cmd.on)] \in Copy
  BY DropInBook DEF Copy
<1>3. QED  BY <1>1, <1>2 DEF Optimistic

-----------------------------------------------------------------------------
(* Types are kept.                                                         *)

LEMMA HeadIsTyped ==
  ASSUME NEW V, NEW s \in Seq(V), s # <<>>
  PROVE  Head(s) \in V /\ Tail(s) \in Seq(V)
BY HeadTailProperties

LEMMA DeliverTyped ==
  ASSUME LinksTyped, NEW e \in News, Deliver(e)
  PROVE  peerLink' \in [Joiner -> Seq(News)]
<1> DEFINE N == News
<1>1. peerLink \in [Joiner -> Seq(N)] /\ e \in N
  BY DEF LinksTyped
<1> HIDE DEF N
<1>2. \A j \in Joiner : Append(peerLink[j], e) \in Seq(N)
  BY <1>1, AppendProperties
<1>3. peerLink' \in [Joiner -> Seq(N)]
  BY <1>1, <1>2 DEF Deliver
<1>4. QED  BY <1>3 DEF N

LEMMA HostExecutesStep ==
  ASSUME IInv, NEW m \in MemberId, NEW cmd \in Request(m), cmd.type \in Routine,
         HostExecutes(m, cmd)
  PROVE  IInv' /\ Deliver(cmd)
<1>1. Sound(cmd) /\ cmd.to \in Route /\ cmd.offer \in TransferOffer \cup {NoTransfer}
      /\ cmd.on \in ChannelId
  BY DEF Request, Letter, Sound
<1>2. CASE cmd.type = "channel_opened"
  <2>1. OpenChannel(m, cmd.on, cmd.kind, cmd.to, cmd.offer) /\ cmd.kind \in ChannelKind
    BY <1>1, <1>2 DEF HostExecutes, Sound, Routine
  <2>2. QED  BY <1>1, <2>1, OpenChannelStep DEF HostExecutes
<1>3. CASE cmd.type = "channel_transfer"
  <2>1. UpdateChannelTransfer(m, cmd.on, cmd.offer) /\ cmd.offer \in TransferOffer
    BY <1>1, <1>3 DEF HostExecutes, Sound, Routine
  <2>2. QED  BY <1>1, <2>1, UpdateStep DEF HostExecutes
<1>4. CASE cmd.type = "channel_accepted"
  BY <1>1, <1>4, RouteStep DEF HostExecutes
<1>5. CASE cmd.type = "channel_rejected"
  <2>1. Quit("channel_rejected", m, cmd.on)
    BY <1>5 DEF HostExecutes, RejectChannel
  <2>2. QED  BY <1>1, <2>1, QuitStep DEF HostExecutes, Event
<1>6. CASE cmd.type = "channel_closed"
  <2>1. Quit("channel_closed", m, cmd.on)
    BY <1>6 DEF HostExecutes, CloseChannel
  <2>2. QED  BY <1>1, <2>1, QuitStep DEF HostExecutes, Event
<1>7. QED  BY <1>2, <1>3, <1>4, <1>5, <1>6 DEF Routine

LEMMA SameEngine ==
  ASSUME IInv, UNCHANGED <<room, reply>>
  PROVE  IInv'
BY AnswerStep DEF IInv, TypeOK

LEMMA TypedInit ==
  ASSUME ReplicaInit
  PROVE  Typed
<1>1. IInv
  BY IInvInit DEF ReplicaInit
<1>2. CountersTyped
  BY ReplicaAssumption DEF ReplicaInit, CountersTyped, history
<1>3. LinksTyped
  BY DEF ReplicaInit, LinksTyped
<1>4. CopiesTyped
  <2>1. [c \in {} |-> NoChannel] \in Book
    <3>1. [c \in {} |-> NoChannel] \in [{} -> Channel]
      OBVIOUS
    <3>2. QED  BY <3>1, BookFacts
  <2>2. NewView \in Copy
    BY <2>1 DEF NewView, Copy
  <2>3. QED  BY <2>2 DEF ReplicaInit, CopiesTyped
<1>5. QED  BY <1>1, <1>2, <1>3, <1>4 DEF Typed

LEMMA NewcomerTyped ==
  ASSUME IInv, Join
  PROVE  nextMemberIndex \in Joiner /\ members \subseteq MemberId
BY MaxMemberIndexAssumption DEF IInv, TypeOK, Join, Joiner, MemberId, Host

LEMMA HostAcceptsTyped ==
  ASSUME Typed, HostAccepts
  PROVE  Typed'
<1>1. IInv'
  BY JoinStep DEF Typed, HostAccepts
<1>2. PICK n : n = nextMemberIndex
  OBVIOUS
<1>3. n \in Joiner /\ n \in MemberId /\ members \subseteq MemberId
  BY <1>2, NewcomerTyped, MemberNumbers DEF Typed, HostAccepts
<1>4. CountersTyped'
  BY <1>2, <1>3, MemberNumbers DEF Typed, CountersTyped, history, HostAccepts
<1>5. LinksTyped'
  <2>1. About("member_joined", n) \in News
    BY <1>3, AboutTyped DEF Notice
  <2>2. peerLink' \in [Joiner -> Seq(News)]
    BY <1>2, <2>1, DeliverTyped DEF Typed, HostAccepts
  <2>3. authority' \in [Joiner -> Seq(Guidance)]
    <3> DEFINE G == Guidance
    <3>1. /\ About("room_welcome", n) \in G /\ About("peer_connect", n) \in G
          /\ Snapshot(members \cup {n}) \in G
      BY <1>3, AboutTyped DEF Advice, Snapshot, Guidance
    <3>2. authority \in [Joiner -> Seq(G)]
      BY DEF Typed, LinksTyped
    <3>3. authority' = [k \in Joiner |->
            IF k = n THEN <<About("room_welcome", n), Snapshot(members \cup {n})>>
            ELSE IF k \in members THEN Append(authority[k], About("peer_connect", n))
            ELSE authority[k]]
      BY <1>2 DEF HostAccepts
    <3> HIDE DEF G
    <3>4. <<About("room_welcome", n), Snapshot(members \cup {n})>> \in Seq(G)
      BY <3>1
    <3>5. \A k \in Joiner : Append(authority[k], About("peer_connect", n)) \in Seq(G)
      BY <3>1, <3>2, AppendProperties
    <3>6. authority' \in [Joiner -> Seq(G)]
      BY <3>2, <3>3, <3>4, <3>5
    <3>7. QED  BY <3>6 DEF G
  <2>4. UNCHANGED toHost
    BY DEF HostAccepts
  <2>5. QED  BY <2>2, <2>3, <2>4 DEF Typed, LinksTyped
<1>6. CopiesTyped'
  BY DEF Typed, CopiesTyped, HostAccepts
<1>7. QED  BY <1>1, <1>4, <1>5, <1>6 DEF Typed

\* The host lets go of j: the types of what it writes.
LEMMA HostDropsTyped ==
  ASSUME Typed, NEW j \in Joiner, HostDropsMember(j)
  PROVE  /\ IInv'
         /\ peerLink' \in [Joiner -> Seq(News)]
         /\ authority' \in [Joiner -> Seq(Guidance)]
<1>1. j \in MemberId /\ Host \in MemberId
  BY MemberNumbers
<1>2. IInv'
  BY <1>1, LeaveStep DEF Typed, HostDropsMember
<1>3. peerLink' \in [Joiner -> Seq(News)]
  <2>1. About("member_left", j) \in News
    BY <1>1, AboutTyped DEF Notice
  <2>2. QED  BY <2>1, DeliverTyped DEF Typed, HostDropsMember
<1>4. authority' \in [Joiner -> Seq(Guidance)]
  <2> DEFINE G == Guidance
  <2>1. About("room_closed", Host) \in G /\ authority \in [Joiner -> Seq(G)]
    BY <1>1, AboutTyped DEF Advice, Typed, LinksTyped
  <2> HIDE DEF G
  <2>2. Append(authority[j], About("room_closed", Host)) \in Seq(G)
    BY <2>1, AppendProperties
  <2>3. authority' \in [Joiner -> Seq(G)]
    BY <2>1, <2>2 DEF HostDropsMember
  <2>4. QED  BY <2>3 DEF G
<1>5. QED  BY <1>2, <1>3, <1>4

LEMMA ToHostShrinks ==
  ASSUME LinksTyped, NEW j \in Joiner, toHost[j] # <<>>,
         toHost' = [toHost EXCEPT ![j] = Tail(@)]
  PROVE  /\ Head(toHost[j]) \in Request(j)
         /\ DOMAIN toHost' = Joiner /\ toHost' = [k \in Joiner |-> toHost'[k]]
         /\ \A k \in Joiner : toHost'[k] \in Seq(Request(k))
<1>1. Head(toHost[j]) \in Request(j) /\ Tail(toHost[j]) \in Seq(Request(j))
  <2> DEFINE R == Request(j)
  <2>1. toHost[j] \in Seq(R)
    BY DEF LinksTyped
  <2> HIDE DEF R
  <2>2. Head(toHost[j]) \in R /\ Tail(toHost[j]) \in Seq(R)
    BY <2>1, HeadIsTyped
  <2>3. QED  BY <2>2 DEF R
<1>2. DOMAIN toHost' = Joiner /\ toHost' = [k \in Joiner |-> toHost'[k]]
  BY DEF LinksTyped
<1>3. \A k \in Joiner : toHost'[k] = IF k = j THEN Tail(toHost[j]) ELSE toHost[k]
  BY DEF LinksTyped
<1>4. \A k \in Joiner : toHost'[k] \in Seq(Request(k))
  BY <1>1, <1>3 DEF LinksTyped
<1>5. QED  BY <1>1, <1>2, <1>4

LEMMA ToHostGrows ==
  ASSUME LinksTyped, NEW j \in Joiner, NEW e \in Request(j),
         toHost' = [toHost EXCEPT ![j] = Append(@, e)]
  PROVE  /\ DOMAIN toHost' = Joiner /\ toHost' = [k \in Joiner |-> toHost'[k]]
         /\ \A k \in Joiner : toHost'[k] \in Seq(Request(k))
<1>1. Append(toHost[j], e) \in Seq(Request(j))
  <2> DEFINE R == Request(j)
  <2>1. toHost[j] \in Seq(R) /\ e \in R
    BY DEF LinksTyped
  <2> HIDE DEF R
  <2>2. Append(toHost[j], e) \in Seq(R)
    BY <2>1, AppendProperties
  <2>3. QED  BY <2>2 DEF R
<1>2. DOMAIN toHost' = Joiner /\ toHost' = [k \in Joiner |-> toHost'[k]]
  BY DEF LinksTyped
<1>3. \A k \in Joiner : toHost'[k] = IF k = j THEN Append(toHost[j], e) ELSE toHost[k]
  BY DEF LinksTyped
<1>4. \A k \in Joiner : toHost'[k] \in Seq(Request(k))
  BY <1>1, <1>3 DEF LinksTyped
<1>5. QED  BY <1>2, <1>4

LEMMA HostHandlesCommandTyped ==
  ASSUME Typed, NEW j \in Joiner, HostHandlesCommand(j)
  PROVE  Typed'
<1>0. j \in MemberId
  BY MemberNumbers
<1>1. /\ Head(toHost[j]) \in Request(j)
      /\ DOMAIN toHost' = Joiner /\ toHost' = [k \in Joiner |-> toHost'[k]]
      /\ \A k \in Joiner : toHost'[k] \in Seq(Request(k))
  BY ToHostShrinks DEF Typed, HostHandlesCommand
<1>2. CountersTyped' /\ CopiesTyped'
  BY DEF Typed, CountersTyped, history, CopiesTyped, HostHandlesCommand
<1>3. CASE j \in members /\ Head(toHost[j]).type = "leave_room"
  <2>1. HostDropsMember(j)
    BY <1>3 DEF HostHandlesCommand
  <2>2. QED  BY <1>1, <1>2, <2>1, HostDropsTyped DEF Typed, LinksTyped
<1>4. CASE j \in members /\ Head(toHost[j]).type # "leave_room"
  <2>1. HostExecutes(j, Head(toHost[j])) /\ UNCHANGED authority
    BY <1>4 DEF HostHandlesCommand
  <2>2. PICK cmd \in Request(j) : cmd = Head(toHost[j])
    BY <1>1
  <2>3. cmd.type \in Routine /\ cmd \in News
    BY <1>4, <2>2 DEF Request, News
  <2>4. IInv' /\ Deliver(cmd)
    BY <1>0, <2>1, <2>2, <2>3, HostExecutesStep DEF Typed
  <2>5. peerLink' \in [Joiner -> Seq(News)]
    BY <2>3, <2>4, DeliverTyped DEF Typed
  <2>6. QED  BY <1>1, <1>2, <2>1, <2>4, <2>5 DEF Typed, LinksTyped
<1>5. CASE j \notin members
  <2>1. UNCHANGED <<room, reply, peerLink, authority>>
    BY <1>5 DEF HostHandlesCommand
  <2>2. IInv'
    BY <2>1, SameEngine DEF Typed
  <2>3. QED  BY <1>1, <1>2, <2>1, <2>2 DEF Typed, LinksTyped
<1>6. QED  BY <1>3, <1>4, <1>5

LEMMA IssueTyped ==
  ASSUME CountersTyped, NEW m \in MemberId, NEW cmd \in Commands(m), Issue(cmd)
  PROVE  /\ issued' \in 0 .. MaxCommands /\ used' \cup misused' \subseteq ChannelId
         /\ misled' = misled /\ ahead' = ahead
<1>1. cmd.on \in ChannelId
  BY CommandsAreRequests DEF Request, Letter, Sound
<1>2. issued' \in 0 .. MaxCommands
  BY ReplicaAssumption DEF Issue, CountersTyped, history
<1>3. QED  BY <1>1, <1>2 DEF Issue, CountersTyped, history

LEMMA HostCommandsTyped ==
  ASSUME Typed, NEW cmd \in Commands(Host), HostCommands(cmd)
  PROVE  Typed'
<1>1. cmd \in Request(Host) /\ cmd \in News /\ cmd.type \in Routine
  BY CommandsAreRequests, MemberNumbers
<1>2. IInv' /\ Deliver(cmd)
  BY <1>1, HostExecutesStep, MemberNumbers DEF Typed, HostCommands
<1>3. peerLink' \in [Joiner -> Seq(News)]
  BY <1>1, <1>2, DeliverTyped DEF Typed
<1>4. /\ issued' \in 0 .. MaxCommands /\ used' \cup misused' \subseteq ChannelId
      /\ misled' = misled /\ ahead' = ahead
  BY IssueTyped, MemberNumbers DEF Typed, HostCommands
<1>5. QED
  BY <1>2, <1>3, <1>4 DEF Typed, CountersTyped, history, LinksTyped, CopiesTyped, HostCommands

LEMMA JoinerCommandsTyped ==
  ASSUME Typed, NEW j \in Joiner, NEW cmd \in Commands(j), JoinerCommands(j, cmd)
  PROVE  Typed'
<1>0. j \in MemberId
  BY MemberNumbers
<1>1. cmd \in Request(j) /\ cmd \in News
  BY <1>0, CommandsAreRequests
<1>2. IInv'
  BY SameEngine DEF Typed, JoinerCommands
<1>3. /\ issued' \in 0 .. MaxCommands /\ used' \cup misused' \subseteq ChannelId
      /\ misled' = misled /\ ahead' = ahead
  BY <1>0, IssueTyped DEF Typed, JoinerCommands
<1>4. LinksTyped'
  <2>1. /\ DOMAIN toHost' = Joiner /\ toHost' = [k \in Joiner |-> toHost'[k]]
        /\ \A k \in Joiner : toHost'[k] \in Seq(Request(k))
    BY <1>1, ToHostGrows DEF Typed, JoinerCommands
  <2>2. QED  BY <2>1 DEF Typed, LinksTyped, JoinerCommands
<1>5. CopiesTyped'
  <2>1. view[j] \in Copy
    BY DEF Typed, CopiesTyped
  <2>2. Optimistic(view[j], j, cmd) \in Copy
    BY <1>1, <2>1, OptimisticTyped
  <2>3. QED  BY <2>2 DEF Typed, CopiesTyped, JoinerCommands
<1>6. CountersTyped'
  BY <1>3 DEF Typed, CountersTyped, history, JoinerCommands
<1>7. QED  BY <1>2, <1>4, <1>5, <1>6 DEF Typed

LEMMA JoinerLeavesTyped ==
  ASSUME Typed, NEW j \in Joiner, JoinerLeaves(j)
  PROVE  Typed'
<1>1. About("leave_room", j) \in Request(j)
  BY MemberNumbers, AboutTyped
<1>2. /\ DOMAIN toHost' = Joiner /\ toHost' = [k \in Joiner |-> toHost'[k]]
      /\ \A k \in Joiner : toHost'[k] \in Seq(Request(k))
  BY <1>1, ToHostGrows DEF Typed, JoinerLeaves
<1>3. IInv'
  BY SameEngine DEF Typed, JoinerLeaves
<1>4. QED  BY <1>2, <1>3 DEF Typed, CountersTyped, history, LinksTyped, CopiesTyped, JoinerLeaves

LEMMA JoinerReadsAuthorityTyped ==
  ASSUME Typed, NEW j \in Joiner, JoinerReadsAuthority(j)
  PROVE  Typed'
<1>1. PICK msg : msg = Head(authority[j])
  OBVIOUS
<1>2. msg \in Guidance /\ authority' \in [Joiner -> Seq(Guidance)]
  <2> DEFINE G == Guidance
  <2>1. authority \in [Joiner -> Seq(G)] /\ authority[j] # <<>>
        /\ authority' = [authority EXCEPT ![j] = Tail(@)]
    BY DEF Typed, LinksTyped, JoinerReadsAuthority
  <2> HIDE DEF G
  <2>2. Head(authority[j]) \in G /\ Tail(authority[j]) \in Seq(G)
    BY <2>1, HeadIsTyped
  <2>3. authority' \in [Joiner -> Seq(G)]
    BY <2>1, <2>2
  <2>4. QED  BY <1>1, <2>2, <2>3 DEF G
<1>3. CopiesTyped'
  <2>1. Apply(view[j], j, msg) \in Copy
    BY <1>2, ApplyTyped DEF Typed, CopiesTyped
  <2>2. view' = [view EXCEPT ![j] = Apply(view[j], j, msg)]
    BY <1>1 DEF JoinerReadsAuthority
  <2>3. QED  BY <2>1, <2>2 DEF Typed, CopiesTyped
<1>4. CountersTyped'
  <2>1. connected' \subseteq Joiner \X MemberId
    <3>1. \/ connected' = connected
          \/ msg.by \in alive /\ connected' = connected \cup {<<j, msg.by>>, <<msg.by, j>>}
      BY <1>1 DEF JoinerReadsAuthority
    <3>2. connected \subseteq Joiner \X MemberId /\ alive \subseteq Joiner
      BY DEF Typed, CountersTyped, history
    <3>3. CASE msg.by \in alive /\ connected' = connected \cup {<<j, msg.by>>, <<msg.by, j>>}
      <4>1. PICK m \in Joiner : m = msg.by
        BY <3>2, <3>3
      <4>2. <<j, m>> \in Joiner \X MemberId /\ <<m, j>> \in Joiner \X MemberId
        BY MemberNumbers
      <4>3. QED  BY <3>2, <3>3, <4>1, <4>2
    <3>4. QED  BY <3>1, <3>2, <3>3
  <2>2. QED  BY <2>1 DEF Typed, CountersTyped, history, JoinerReadsAuthority
<1>5. IInv'
  BY SameEngine DEF Typed, JoinerReadsAuthority
<1>6. UNCHANGED <<toHost, peerLink>>
  BY DEF JoinerReadsAuthority
<1>7. QED  BY <1>2, <1>3, <1>4, <1>5, <1>6 DEF Typed, LinksTyped

LEMMA JoinerReadsPeerLinkTyped ==
  ASSUME Typed, NEW j \in Joiner, JoinerReadsPeerLink(j)
  PROVE  Typed'
<1>1. PICK msg : msg = Head(peerLink[j])
  OBVIOUS
<1>2. msg \in News /\ peerLink' \in [Joiner -> Seq(News)]
  <2> DEFINE G == News
  <2>1. peerLink \in [Joiner -> Seq(G)] /\ peerLink[j] # <<>>
        /\ peerLink' = [peerLink EXCEPT ![j] = Tail(@)]
    BY DEF Typed, LinksTyped, JoinerReadsPeerLink
  <2> HIDE DEF G
  <2>2. Head(peerLink[j]) \in G /\ Tail(peerLink[j]) \in Seq(G)
    BY <2>1, HeadIsTyped
  <2>3. peerLink' \in [Joiner -> Seq(G)]
    BY <2>1, <2>2
  <2>4. QED  BY <1>1, <2>2, <2>3 DEF G
<1>3. CopiesTyped'
  <2>1. Apply(view[j], j, msg) \in Copy
    BY <1>2, ApplyTyped DEF Typed, CopiesTyped
  <2>2. view' = [view EXCEPT ![j] = Apply(view[j], j, msg)]
    BY <1>1 DEF JoinerReadsPeerLink
  <2>3. QED  BY <2>1, <2>2 DEF Typed, CopiesTyped
<1>4. IInv'
  BY SameEngine DEF Typed, JoinerReadsPeerLink
<1>5. CountersTyped'
  BY DEF Typed, CountersTyped, history, JoinerReadsPeerLink
<1>6. UNCHANGED <<toHost, authority>>
  BY DEF JoinerReadsPeerLink
<1>7. QED  BY <1>2, <1>3, <1>4, <1>5, <1>6 DEF Typed, LinksTyped

LEMMA TypedNext ==
  ASSUME Typed, [ReplicaNext]_replicaVars
  PROVE  Typed'
<1>1. CASE HostAccepts
  BY <1>1, HostAcceptsTyped
<1>2. CASE HostLeaves
  <2>1. authority' \in [Joiner -> Seq(Guidance)]
    <3> DEFINE G == Guidance
    <3>1. About("room_closed", Host) \in G /\ authority \in [Joiner -> Seq(G)]
      BY MemberNumbers, AboutTyped DEF Advice, Typed, LinksTyped
    <3> HIDE DEF G
    <3>2. \A j \in Joiner : Append(authority[j], About("room_closed", Host)) \in Seq(G)
      BY <3>1, AppendProperties
    <3>3. authority' \in [Joiner -> Seq(G)]
      BY <1>2, <3>1, <3>2 DEF HostLeaves
    <3>4. QED  BY <3>3 DEF G
  <2>2. IInv'
    BY <1>2, SameEngine DEF Typed, HostLeaves
  <2>3. QED
    BY <1>2, <2>1, <2>2 DEF Typed, CountersTyped, history, LinksTyped, CopiesTyped, HostLeaves
<1>3. ASSUME NEW cmd \in Commands(Host), HostCommands(cmd) PROVE Typed'
  BY <1>3, HostCommandsTyped
<1>4. ASSUME NEW j \in Joiner, HostHandlesCommand(j) PROVE Typed'
  BY <1>4, HostHandlesCommandTyped
<1>5. ASSUME NEW j \in Joiner, HostSeesDisconnect(j) PROVE Typed'
  <2>1. HostDropsMember(j)
    BY <1>5 DEF HostSeesDisconnect
  <2>2. QED
    BY <1>5, <2>1, HostDropsTyped
    DEF Typed, CountersTyped, history, LinksTyped, CopiesTyped, HostSeesDisconnect
<1>6. ASSUME NEW j \in Joiner, NEW cmd \in Commands(j), JoinerCommands(j, cmd) PROVE Typed'
  BY <1>6, JoinerCommandsTyped
<1>7. ASSUME NEW j \in Joiner, JoinerLeaves(j) PROVE Typed'
  BY <1>7, JoinerLeavesTyped
<1>8. ASSUME NEW j \in Joiner, JoinerExits(j) PROVE Typed'
  <2>1. IInv'
    BY <1>8, SameEngine DEF Typed, JoinerExits
  <2>2. QED
    BY <1>8, <2>1 DEF Typed, CountersTyped, history, LinksTyped, CopiesTyped, JoinerExits
<1>9. ASSUME NEW j \in Joiner, JoinerReadsAuthority(j) PROVE Typed'
  BY <1>9, JoinerReadsAuthorityTyped
<1>10. ASSUME NEW j \in Joiner, JoinerReadsPeerLink(j) PROVE Typed'
  BY <1>10, JoinerReadsPeerLinkTyped
<1>11. ASSUME NEW j \in Joiner, NEW m \in MemberId, JoinerMeetsPeer(j, m) PROVE Typed'
  <2>1. IInv'
    BY <1>11, SameEngine DEF Typed, JoinerMeetsPeer
  <2>2. CopiesTyped'
    <3>1. view[j] \in Copy
      BY DEF Typed, CopiesTyped
    <3>2. [view[j] EXCEPT !.members = view[j].members \cup {m}] \in Copy
      BY <3>1 DEF Copy
    <3>3. view' = [view EXCEPT ![j] = [view[j] EXCEPT !.members = view[j].members \cup {m}]]
      BY <1>11 DEF JoinerMeetsPeer, Typed, CopiesTyped
    <3>4. QED  BY <3>2, <3>3 DEF Typed, CopiesTyped
  <2>3. CountersTyped' /\ LinksTyped'
    BY <1>11 DEF Typed, CountersTyped, history, LinksTyped, JoinerMeetsPeer
  <2>4. QED  BY <2>1, <2>2, <2>3 DEF Typed
<1>12. CASE UNCHANGED replicaVars
  <2>1. IInv'
    BY <1>12, SameEngine DEF Typed, replicaVars
  <2>2. QED
    BY <1>12, <2>1
    DEF Typed, CountersTyped, history, LinksTyped, CopiesTyped, replicaVars, linkVars
<1>13. QED
  BY <1>1, <1>2, <1>3, <1>4, <1>5, <1>6, <1>7, <1>8, <1>9, <1>10, <1>11, <1>12
  DEF ReplicaNext

LEMMA TypedAlways == ReplicaSpec => []Typed
<1>1. ReplicaInit => Typed
  BY TypedInit
<1>2. Typed /\ [ReplicaNext]_replicaVars => Typed'
  BY TypedNext
<1>3. QED  BY <1>1, <1>2, PTL DEF ReplicaSpec

LEMMA LettersAreMessages == \A m \in MemberId :
  Request(m) \subseteq MessageType /\ Guidance \subseteq MessageType /\ News \subseteq MessageType
<1>1. Letter \subseteq MessageType
  BY DEF Letter, MessageType, Event, Routine, Notice, Advice
<1>2. QED  BY <1>1 DEF Request, Guidance, News, MessageType

LEMMA ToSetTyped ==
  ASSUME NEW V, NEW s \in Seq(V)
  PROVE  ToSet(s) \subseteq V
BY ElementOfSeq, LenProperties DEF ToSet

-----------------------------------------------------------------------------
(* What has been sent to a joiner, and how it grows and is read.           *)

Wire == Guidance \cup News

LEMMA StreamsTyped ==
  ASSUME Typed, NEW j \in Joiner
  PROVE  /\ authority[j] \in Seq(Wire) /\ peerLink[j] \in Seq(Wire)
         /\ authority[j] \o peerLink[j] \in Seq(Wire)
         /\ view[j] \in Copy
<1>1. Seq(Guidance) \subseteq Seq(Wire) /\ Seq(News) \subseteq Seq(Wire)
  BY SeqMonotonic DEF Wire
<1>2. authority[j] \in Seq(Guidance) /\ peerLink[j] \in Seq(News) /\ view[j] \in Copy
  BY DEF Typed, LinksTyped, CopiesTyped
<1>3. authority[j] \in Seq(Wire) /\ peerLink[j] \in Seq(Wire)
  BY <1>1, <1>2
<1>4. \A s, t \in Seq(Wire) : s \o t \in Seq(Wire)
  BY ConcatProperties
<1>5. QED  BY <1>2, <1>3, <1>4

LEMMA AfterTyped ==
  ASSUME NEW v \in Copy, NEW j \in Joiner, NEW s \in Seq(Wire)
  PROVE  After(v, j, s) \in Copy
<1>1. Len(s) \in Nat /\ \A i \in 1 .. Len(s) : s[i] \in Wire
  BY LenProperties, ElementOfSeq
<1>2. \A w \in Copy, i \in 1 .. Len(s) : Apply(w, j, s[i]) \in Copy
  BY <1>1, ApplyTyped DEF Wire
<1>3. QED  BY <1>1, <1>2, AfterKeeps

LEMMA CaughtTyped ==
  ASSUME Typed, NEW j \in Joiner
  PROVE  Caught(j) \in Copy
BY StreamsTyped, AfterTyped DEF Caught

\* An event the engine routes comes last in the stream of each recipient.
LEMMA CaughtDelivered ==
  ASSUME Typed, NEW j \in Joiner, NEW e \in News, Deliver(e),
         authority'[j] = authority[j], view'[j] = view[j]
  PROVE  Caught(j)' = IF j \in reply'.to THEN Apply(Caught(j), j, e) ELSE Caught(j)
<1> DEFINE s == authority[j] \o peerLink[j]
           W == Wire
<1>1. /\ authority[j] \in Seq(W) /\ peerLink[j] \in Seq(W) /\ s \in Seq(W) /\ e \in W
  BY StreamsTyped DEF Wire
<1>2. CASE j \in reply'.to
  <2>1. peerLink'[j] = Append(peerLink[j], e)
    BY <1>2 DEF Deliver
  <2>2. authority[j] \o Append(peerLink[j], e) = Append(s, e)
    <3>1. PICK a \in Seq(W), p \in Seq(W) : a = authority[j] /\ p = peerLink[j]
      BY <1>1
    <3> HIDE DEF W
    <3>2. a \o Append(p, e) = Append(a \o p, e)
      BY <1>1, AppendToSecond
    <3>3. QED  BY <3>1, <3>2
  <2>3. After(view[j], j, Append(s, e)) = Apply(After(view[j], j, s), j, e)
    <3> HIDE DEF W, s
    <3>1. QED  BY <1>1, AfterAppend
  <2>4. QED  BY <1>2, <2>1, <2>2, <2>3 DEF Caught
<1>3. CASE j \notin reply'.to
  <2>1. peerLink'[j] = peerLink[j]
    BY <1>3 DEF Deliver
  <2>2. QED  BY <1>3, <2>1 DEF Caught
<1>4. QED  BY <1>2, <1>3

\* To read is to come nearer to where the stream leads.
LEMMA CaughtReadsAuthority ==
  ASSUME Typed, NEW j \in Joiner, JoinerReadsAuthority(j)
  PROVE  Caught(j)' = Caught(j)
<1> DEFINE W == Wire
           s == authority[j] \o peerLink[j]
           t == Tail(authority[j]) \o peerLink[j]
           e == Head(authority[j])
<1>1. /\ authority[j] \in Seq(W) /\ peerLink[j] \in Seq(W) /\ s \in Seq(W)
      /\ authority[j] # <<>>
  BY StreamsTyped DEF JoinerReadsAuthority
<1>2. s # <<>> /\ Head(s) = e /\ Tail(s) = t
  <2> HIDE DEF W
  <2>1. QED  BY <1>1, TailOfFirst
<1>3. After(view[j], j, s) = After(Apply(view[j], j, e), j, t)
  <2>1. After(view[j], j, s) = After(Apply(view[j], j, Head(s)), j, Tail(s))
    <3> HIDE DEF W, s
    <3>1. QED  BY <1>1, <1>2, AfterHead
  <2>2. QED  BY <1>2, <2>1
<1>4. view'[j] = Apply(view[j], j, e) /\ authority'[j] = Tail(authority[j])
      /\ peerLink'[j] = peerLink[j]
  BY DEF JoinerReadsAuthority, Typed, CopiesTyped, LinksTyped
<1>5. QED  BY <1>3, <1>4 DEF Caught

\* Introductions alone make no difference to a copy.
LEMMA IntroductionsPass ==
  ASSUME Typed, NEW j \in Joiner, ~Unsettled(j), NEW v, NEW p \in Seq(Wire)
  PROVE  After(v, j, authority[j] \o p) = After(v, j, p)
<1> DEFINE W == Wire
<1>1. PICK a \in Seq(W) : a = authority[j]
  BY StreamsTyped
<1>2. Len(a) \in Nat /\ DOMAIN a = 1 .. Len(a)
  BY LenProperties
<1>3. \A w \in {v}, i \in 1 .. Len(a) : Apply(w, j, a[i]) \in {v}
  BY <1>1, <1>2 DEF Unsettled, Apply
<1>4. After(v, j, a) = v
  <2>1. After(v, j, a) \in {v}
    BY <1>2, <1>3, AfterKeeps
  <2>2. QED  BY <2>1
<1>5. After(v, j, a \o p) = After(After(v, j, a), j, p)
  <2>1. p \in Seq(W)
    OBVIOUS
  <2> HIDE DEF W
  <2>2. QED  BY <1>1, <2>1, AfterBoth
<1>6. QED  BY <1>1, <1>4, <1>5

LEMMA CaughtReadsPeerLink ==
  ASSUME Typed, NEW j \in Joiner, JoinerReadsPeerLink(j), ~Unsettled(j)
  PROVE  Caught(j)' = Caught(j)
<1> DEFINE W == Wire
           e == Head(peerLink[j])
           t == Tail(peerLink[j])
<1>1. peerLink[j] \in Seq(W) /\ peerLink[j] # <<>> /\ t \in Seq(W)
  <2>1. peerLink[j] \in Seq(W) /\ peerLink[j] # <<>>
    BY StreamsTyped DEF JoinerReadsPeerLink
  <2>2. QED  BY <2>1, HeadTailProperties
<1>2. After(view[j], j, peerLink[j]) = After(Apply(view[j], j, e), j, t)
  <2> HIDE DEF W
  <2>1. QED  BY <1>1, AfterHead
<1>3. /\ After(view[j], j, authority[j] \o peerLink[j]) = After(view[j], j, peerLink[j])
      /\ After(Apply(view[j], j, e), j, authority[j] \o t) = After(Apply(view[j], j, e), j, t)
  <2>1. \A v, p : p \in Seq(W) => After(v, j, authority[j] \o p) = After(v, j, p)
    BY IntroductionsPass
  <2> HIDE DEF W, e, t
  <2>2. QED  BY <1>1, <2>1
<1>4. view'[j] = Apply(view[j], j, e) /\ authority'[j] = authority[j] /\ peerLink'[j] = t
  BY DEF JoinerReadsPeerLink, Typed, CopiesTyped, LinksTyped
<1>5. QED  BY <1>2, <1>3, <1>4 DEF Caught

-----------------------------------------------------------------------------
(* Membership.                                                             *)

MembersAfter(ms, e) ==
  IF e.type = "member_snapshot" THEN e.members
  ELSE IF e.type = "member_joined" THEN ms \cup {e.by}
  ELSE IF e.type = "member_left" THEN ms \ {e.by}
  ELSE IF e.type = "room_closed" THEN {}
  ELSE ms

\* Who a copy holds for a member depends on messages about members alone.
LEMMA ApplyMembers ==
  ASSUME NEW v \in Copy, NEW j \in Joiner, NEW e \in Wire
  PROVE  /\ Apply(v, j, e).members = MembersAfter(v.members, e)
         /\ Apply(v, j, e).self = IF e.type = "room_welcome" THEN TRUE ELSE v.self
<1>0. v = [self |-> v.self, members |-> v.members, channels |-> v.channels]
      /\ v.self \in BOOLEAN
  BY DEF Copy
<1>1. CASE e.type \in Advice \cup {"member_snapshot"}
  <2>1. CASE e.type = "room_closed"
    <3>1. [NewView EXCEPT !.self = v.self].members = {}
          /\ [NewView EXCEPT !.self = v.self].self = v.self
      BY DEF NewView
    <3>2. Apply(v, j, e) = [NewView EXCEPT !.self = v.self]
      BY <2>1 DEF Apply
    <3>3. QED  BY <2>1, <3>1, <3>2 DEF MembersAfter
  <2>2. CASE e.type = "member_snapshot"
    <3>1. Apply(v, j, e) = [v EXCEPT !.members = e.members]
      BY <2>2 DEF Apply
    <3>2. QED  BY <1>0, <2>2, <3>1 DEF MembersAfter
  <2>3. CASE e.type = "room_welcome"
    <3>1. Apply(v, j, e) = [v EXCEPT !.self = TRUE]
      BY <2>3 DEF Apply
    <3>2. QED  BY <1>0, <2>3, <3>1 DEF MembersAfter
  <2>4. CASE e.type = "peer_connect"
    <3>1. Apply(v, j, e) = v
      BY <2>4 DEF Apply
    <3>2. QED  BY <2>4, <3>1 DEF MembersAfter
  <2>5. QED  BY <1>1, <2>1, <2>2, <2>3, <2>4 DEF Advice
<1>2. CASE e.type = "member_joined"
  <2>1. Apply(v, j, e) = [v EXCEPT !.members = v.members \cup {e.by}]
    BY <1>2 DEF Apply
  <2>2. QED  BY <1>0, <1>2, <2>1 DEF MembersAfter
<1>3. CASE e.type = "member_left"
  <2>1. Apply(v, j, e) = ApplyLeft(v, j, e.by)
    BY <1>3 DEF Apply
  <2>2. ApplyLeft(v, j, e.by).members = v.members \ {e.by}
        /\ ApplyLeft(v, j, e.by).self = v.self
    BY <1>0 DEF ApplyLeft
  <2>3. QED  BY <1>3, <2>1, <2>2 DEF MembersAfter
<1>4. CASE e.type \in Routine
  <2>1. ApplyOpened(v, e).members = v.members /\ ApplyOpened(v, e).self = v.self
    BY <1>0 DEF ApplyOpened
  <2>2. ApplyTransfer(v, e).members = v.members /\ ApplyTransfer(v, e).self = v.self
    BY <1>0 DEF ApplyTransfer
  <2>3. ApplyQuit(v, j, e.on, e.by).members = v.members
        /\ ApplyQuit(v, j, e.on, e.by).self = v.self
    BY <1>0 DEF ApplyQuit
  <2>4. Apply(v, j, e) \in {v, ApplyOpened(v, e), ApplyTransfer(v, e),
                            ApplyQuit(v, j, e.on, e.by)}
    BY <1>4 DEF Apply, Routine
  <2>5. QED  BY <1>0, <1>4, <2>1, <2>2, <2>3, <2>4 DEF MembersAfter, Routine
<1>5. e.type \in Advice \cup Notice \cup Routine \cup {"member_snapshot"}
  BY DEF Wire, Guidance, News
<1>6. QED  BY <1>1, <1>2, <1>3, <1>4, <1>5 DEF Notice

\* Copies that agree on the members still do when both have read the same.
LEMMA AfterAgrees ==
  ASSUME NEW v \in Copy, NEW w \in Copy, NEW j \in Joiner, NEW s \in Seq(Wire),
         v.members = w.members, v.self = w.self
  PROVE  /\ After(v, j, s).members = After(w, j, s).members
         /\ After(v, j, s).self = After(w, j, s).self
<1> DEFINE S == {p \in Copy \X Copy : p[1].members = p[2].members /\ p[1].self = p[2].self}
<1>1. Len(s) \in Nat /\ \A i \in 1 .. Len(s) : s[i] \in Wire
  BY LenProperties, ElementOfSeq
<1>2. <<v, w>> \in S
  OBVIOUS
<1>3. ASSUME NEW x, NEW y, NEW i \in 1 .. Len(s), <<x, y>> \in S
      PROVE  <<Apply(x, j, s[i]), Apply(y, j, s[i])>> \in S
  <2>1. x \in Copy /\ y \in Copy /\ x.members = y.members /\ x.self = y.self
    BY <1>3
  <2>2. s[i] \in Wire
    BY <1>1
  <2>3. Apply(x, j, s[i]) \in Copy /\ Apply(y, j, s[i]) \in Copy
    BY <2>1, <2>2, ApplyTyped DEF Wire
  <2>4. /\ Apply(x, j, s[i]).members = Apply(y, j, s[i]).members
        /\ Apply(x, j, s[i]).self = Apply(y, j, s[i]).self
    <3>1. PICK e \in Wire : e = s[i]
      BY <2>2
    <3>2. \A w0 \in {x, y} : 
             /\ Apply(w0, j, e).members = MembersAfter(w0.members, e)
             /\ Apply(w0, j, e).self = IF e.type = "room_welcome" THEN TRUE ELSE w0.self
      BY <2>1, ApplyMembers
    <3>3. QED  BY <2>1, <3>1, <3>2
  <2>5. QED  BY <2>3, <2>4
<1> HIDE DEF S
<1>4. <<After(v, j, s), After(w, j, s)>> \in S
  BY <1>1, <1>2, <1>3, AfterRelates
<1>5. QED  BY <1>4 DEF S

-----------------------------------------------------------------------------
(* The host keeps its joiners informed of the members.                     *)

\* Nobody has spoken to, or heard from, a member that has not been let in yet.
Unborn ==
  \A j \in Joiner : j >= nextMemberIndex =>
    /\ view[j] = NewView /\ toHost[j] = <<>> /\ authority[j] = <<>> /\ peerLink[j] = <<>>
    /\ j \notin alive
Numbered == \A m \in members : m < nextMemberIndex
Heeded(j) == Present(j) /\ j \notin misled
Informed == \A j \in Joiner : Heeded(j) => Caught(j).members = members /\ Caught(j).self
Following == Unborn /\ Numbered /\ Informed

\* What has gone wrong is not forgotten.
Onward == misled \subseteq misled' /\ ahead \subseteq ahead'

\* What the engine does for a command: nobody comes or goes, members hear of it.
LEMMA RoomKept ==
  ASSUME NEW m, NEW cmd, cmd.type \in Routine, HostExecutes(m, cmd)
  PROVE  UNCHANGED <<members, nextMemberIndex>> /\ reply'.to \subseteq members
<1>1. CASE cmd.type = "channel_opened"
  <2>1. OpenChannel(m, cmd.on, cmd.kind, cmd.to, cmd.offer)
    BY <1>1 DEF HostExecutes
  <2>2. QED  BY <2>1 DEF OpenChannel, Refused, Routed, room, Audience
<1>2. CASE cmd.type = "channel_transfer"
  <2>1. UpdateChannelTransfer(m, cmd.on, cmd.offer)
    BY <1>2 DEF HostExecutes
  <2>2. QED  BY <2>1 DEF UpdateChannelTransfer, Refused, Routed, room, Listeners
<1>3. CASE cmd.type = "channel_accepted"
  <2>1. AcceptChannel(m, cmd.on)
    BY <1>3 DEF HostExecutes
  <2>2. QED  BY <2>1 DEF AcceptChannel, Refused, Routed, room, Listeners
<1>4. CASE cmd.type \in {"channel_rejected", "channel_closed"}
  <2>1. Quit(cmd.type, m, cmd.on)
    BY <1>4 DEF HostExecutes, RejectChannel, CloseChannel
  <2>2. QED  BY <2>1 DEF Quit, Refused, Routed, room, Listeners
<1>5. QED  BY <1>1, <1>2, <1>3, <1>4 DEF Routine

\* A command of m's is carried out.
LEMMA ExecutesInforms ==
  ASSUME Typed, Unborn, Informed, Numbered,
         NEW m \in MemberId, NEW cmd \in Request(m), cmd.type \in Routine, HostExecutes(m, cmd),
         UNCHANGED <<roomOpen, alive, authority, view>>, Onward,
         \A j \in Joiner : j >= nextMemberIndex => toHost'[j] = toHost[j]
  PROVE  Following'
<1>1. UNCHANGED <<members, nextMemberIndex>> /\ reply'.to \subseteq members
  BY RoomKept
<1>2. cmd \in News /\ Deliver(cmd)
  BY HostExecutesStep DEF Typed, Request, News
<1>3. ASSUME NEW j \in Joiner, Heeded(j)'
      PROVE  Caught(j)'.members = members /\ Caught(j)'.self
  <2>1. Heeded(j)
    BY <1>1, <1>3 DEF Present, Heeded, Onward
  <2>2. Caught(j).members = members /\ Caught(j).self
    BY <2>1 DEF Informed
  <2>3. Caught(j)' = IF j \in reply'.to THEN Apply(Caught(j), j, cmd) ELSE Caught(j)
    BY <1>2, CaughtDelivered
  <2>4. Apply(Caught(j), j, cmd).members = MembersAfter(Caught(j).members, cmd)
        /\ Apply(Caught(j), j, cmd).self = Caught(j).self
    <3>1. Caught(j) \in Copy /\ cmd \in Wire /\ cmd.type # "room_welcome"
      BY <1>2, CaughtTyped DEF Wire, Routine
    <3>2. QED  BY <3>1, ApplyMembers
  <2>5. MembersAfter(Caught(j).members, cmd) = Caught(j).members
    BY DEF MembersAfter, Routine
  <2>6. QED  BY <2>2, <2>3, <2>4, <2>5
<1>4. Informed'
  BY <1>1, <1>3 DEF Informed
<1>5. Unborn'
  <2>1. \A j \in Joiner : j >= nextMemberIndex => peerLink'[j] = peerLink[j]
    <3>1. SUFFICES ASSUME NEW j \in Joiner, j >= nextMemberIndex
                   PROVE  peerLink'[j] = peerLink[j]
      OBVIOUS
    <3>2. j \notin members
      <4>1. j \in Nat /\ nextMemberIndex \in Nat
        BY MemberNumbers, MaxMemberIndexAssumption DEF Typed, IInv, TypeOK
      <4>2. QED  BY <3>1, <4>1 DEF Numbered
    <3>3. QED  BY <1>1, <1>2, <3>2 DEF Deliver
  <2>2. QED  BY <1>1, <2>1 DEF Unborn
<1>6. QED  BY <1>1, <1>4, <1>5 DEF Following, Numbered

LEMMA NewViewTyped == NewView \in Copy /\ ~NewView.self /\ NewView.members = {}
                      /\ DOMAIN NewView.channels = {}
<1>1. [c \in {} |-> NoChannel] \in [{} -> Channel]
  OBVIOUS
<1>2. [c \in {} |-> NoChannel] \in Book
  BY <1>1, BookFacts
<1>3. QED  BY <1>2 DEF NewView, Copy

LEMMA Indices ==
  ASSUME Typed
  PROVE  nextMemberIndex \in Nat /\ members \subseteq MemberId /\ Joiner \subseteq Nat
BY MemberNumbers, MaxMemberIndexAssumption DEF Typed, IInv, TypeOK

\* What the newcomer is sent first makes it know everybody, itself included.
LEMMA NewcomerCaught ==
  ASSUME Typed, Unborn, Numbered, HostAccepts, NEW n \in Joiner, n = nextMemberIndex
  PROVE  Caught(n)' = [NewView EXCEPT !.self = TRUE, !.members = members \cup {n}]
<1>1. /\ view'[n] = NewView /\ peerLink'[n] = <<>>
      /\ authority'[n] = <<About("room_welcome", n), Snapshot(members \cup {n})>>
  <2>1. n \notin members /\ n >= nextMemberIndex
    BY Indices DEF Numbered
  <2>2. reply'.to = members
    BY DEF HostAccepts, Join, Routed
  <2>3. view[n] = NewView /\ peerLink[n] = <<>>
    BY <2>1 DEF Unborn
  <2>4. QED  BY <2>1, <2>2, <2>3 DEF HostAccepts, Deliver
<1> DEFINE W == Wire
           e == About("room_welcome", n)
           f == Snapshot(members \cup {n})
           v == [NewView EXCEPT !.self = TRUE]
<1>2. e \in W /\ f \in W
  BY MemberNumbers, AboutTyped, Indices DEF Wire, Guidance, Snapshot, Advice
<1>3. Apply(NewView, n, e) = v
  BY DEF Apply, About, Message
<1>4. Apply(v, n, f) = [v EXCEPT !.members = members \cup {n}]
  BY DEF Apply, Snapshot
<1>5. [v EXCEPT !.members = members \cup {n}]
        = [NewView EXCEPT !.self = TRUE, !.members = members \cup {n}]
  OBVIOUS
<1>6. After(NewView, n, <<e, f>>) = Apply(Apply(NewView, n, e), n, f)
  BY AfterTwo
<1>7. <<e, f>> \o <<>> = <<e, f>>
  <2>1. <<e, f>> \in Seq(W)
    BY <1>2
  <2>2. QED  BY <2>1, ConcatEmptySeq
<1> HIDE DEF e, f, v
<1>8. Caught(n)' = After(NewView, n, <<e, f>>)
  BY <1>1, <1>7 DEF Caught, e, f
<1>9. QED  BY <1>3, <1>4, <1>5, <1>6, <1>8

\* The others are told to dial it, which changes no copy, and then of its coming.
LEMMA OthersCaught ==
  ASSUME Typed, HostAccepts, NEW n \in Joiner, n = nextMemberIndex,
         NEW k \in Joiner, k \in members, k # n
  PROVE  Caught(k)' = Apply(Caught(k), k, About("member_joined", n))
<1> DEFINE W == Wire
           e == About("member_joined", n)
           p == About("peer_connect", n)
<1>1. e \in W /\ p \in W /\ authority[k] \in Seq(W) /\ peerLink[k] \in Seq(W)
  BY MemberNumbers, AboutTyped, StreamsTyped DEF Wire, Notice, Advice
<1>2. /\ view'[k] = view[k] /\ authority'[k] = Append(authority[k], p)
      /\ peerLink'[k] = Append(peerLink[k], e)
  BY DEF HostAccepts, Deliver, Join, Routed
<1>3. \A w : Apply(w, k, p) = w
  BY DEF Apply, About, Message
<1>4. PICK a \in Seq(W), q \in Seq(W) : a = authority[k] /\ q = peerLink[k]
  BY <1>1
<1>5. After(view[k], k, Append(a, p) \o Append(q, e)) = Apply(After(view[k], k, a \o q), k, e)
  <2>1. PICK v : v = view[k]
    OBVIOUS
  <2> HIDE DEF W, e, p
  <2>2. After(v, k, Append(a, p) \o Append(q, e)) = Apply(After(v, k, a \o q), k, e)
    BY <1>1, <1>3, AfterIgnoredThen
  <2>3. QED  BY <2>1, <2>2
<1> HIDE DEF e, p
<1>6. QED  BY <1>2, <1>4, <1>5 DEF Caught, e

LEMMA HostAcceptsInforms ==
  ASSUME Typed, Following, HostAccepts
  PROVE  Following'
<1>1. PICK n : n = nextMemberIndex
  OBVIOUS
<1>2. n \in Joiner /\ n \in MemberId /\ members \subseteq MemberId /\ n \in Nat
  BY <1>1, NewcomerTyped, MemberNumbers, Indices DEF Typed, HostAccepts
<1>3. members' = members \cup {n} /\ nextMemberIndex' = n + 1 /\ reply'.to = members
      /\ roomOpen' = roomOpen /\ alive' = alive \cup {n} /\ misled' = misled
  BY <1>1 DEF HostAccepts, Join, Routed, history
<1>4. \A m \in members : m \in Nat /\ m < n
  BY <1>1, <1>2, MemberNumbers DEF Following, Numbered
<1>5. ASSUME NEW k \in Joiner, Heeded(k)'
      PROVE  Caught(k)'.members = members' /\ Caught(k)'.self
  <2>1. CASE k = n
    <3>1. Caught(k)' = [NewView EXCEPT !.self = TRUE, !.members = members \cup {n}]
      BY <1>1, <1>2, <2>1, NewcomerCaught DEF Following
    <3>2. QED  BY <1>3, <3>1 DEF NewView
  <2>2. CASE k # n
    <3>1. Heeded(k) /\ k \in members
      BY <1>3, <1>5, <2>2 DEF Present, Heeded
    <3>2. Caught(k).members = members /\ Caught(k).self
      BY <3>1 DEF Following, Informed
    <3>3. Caught(k)' = Apply(Caught(k), k, About("member_joined", n))
      BY <1>1, <1>2, <2>2, <3>1, OthersCaught
    <3>4. PICK e \in News : e = About("member_joined", n)
      BY <1>2, AboutTyped DEF Notice
    <3>5. e.type = "member_joined" /\ e.by = n
      BY <1>2, <3>4, AboutTyped
    <3>6. Apply(Caught(k), k, e).members = MembersAfter(Caught(k).members, e)
          /\ Apply(Caught(k), k, e).self = Caught(k).self
      <4>1. Caught(k) \in Copy /\ e \in Wire /\ e.type # "room_welcome"
        BY <3>5, CaughtTyped DEF Wire
      <4>2. QED  BY <4>1, ApplyMembers
    <3>7. MembersAfter(members, e) = members \cup {n}
      BY <3>5 DEF MembersAfter
    <3>8. QED  BY <1>3, <3>2, <3>3, <3>4, <3>6, <3>7
  <2>3. QED  BY <2>1, <2>2
<1>6. Informed'
  BY <1>5 DEF Informed
<1>7. Numbered'
  <2>1. \A m \in members \cup {n} : m < n + 1
    BY <1>2, <1>4
  <2>2. QED  BY <1>3, <2>1 DEF Numbered
<1>8. Unborn'
  <2>1. ASSUME NEW k \in Joiner, k >= n + 1
        PROVE  /\ view'[k] = NewView /\ toHost'[k] = <<>> /\ authority'[k] = <<>>
               /\ peerLink'[k] = <<>> /\ k \notin alive'
    <3>1. k \in Nat /\ k # n /\ k >= nextMemberIndex /\ k \notin members
      BY <1>1, <1>2, <1>4, <2>1, Indices
    <3>2. /\ view[k] = NewView /\ toHost[k] = <<>> /\ authority[k] = <<>>
          /\ peerLink[k] = <<>> /\ k \notin alive
      BY <3>1 DEF Following, Unborn
    <3>3. view'[k] = view[k] /\ toHost'[k] = toHost[k] /\ peerLink'[k] = peerLink[k]
      BY <1>3, <3>1 DEF HostAccepts, Deliver
    <3>4. authority'[k] = authority[k]
      BY <1>1, <3>1 DEF HostAccepts
    <3>5. QED  BY <1>3, <3>1, <3>2, <3>3, <3>4
  <2>2. QED  BY <1>3, <2>1 DEF Unborn
<1>9. QED  BY <1>6, <1>7, <1>8 DEF Following

\* j is let go: the others hear of it, and j is no longer the host's concern.
LEMMA DropInforms ==
  ASSUME Typed, Following, NEW j \in Joiner, j \in members, HostDropsMember(j),
         UNCHANGED <<roomOpen, alive, view>>, Onward,
         \A k \in Joiner : k >= nextMemberIndex => toHost'[k] = toHost[k]
  PROVE  Following'
<1>1. /\ members' = members \ {j} /\ nextMemberIndex' = nextMemberIndex
      /\ reply'.to = members \ {j}
  BY MemberNumbers DEF HostDropsMember, Leave, Routed
<1>2. PICK e \in News : e = About("member_left", j)
  BY MemberNumbers, AboutTyped DEF Notice
<1>3. e.type = "member_left" /\ e.by = j /\ Deliver(e)
  BY <1>2, MemberNumbers, AboutTyped DEF HostDropsMember
<1>4. ASSUME NEW k \in Joiner, k # j PROVE authority'[k] = authority[k]
  BY <1>4 DEF HostDropsMember, Typed, LinksTyped
<1>5. ASSUME NEW k \in Joiner, Heeded(k)'
      PROVE  Caught(k)'.members = members' /\ Caught(k)'.self
  <2>1. k \in members /\ k # j /\ Heeded(k)
    BY <1>1, <1>5 DEF Present, Heeded, Onward
  <2>2. Caught(k)' = Apply(Caught(k), k, e)
    <3>1. authority'[k] = authority[k] /\ view'[k] = view[k] /\ k \in reply'.to
      BY <1>1, <1>4, <2>1
    <3>2. QED  BY <1>3, <3>1, CaughtDelivered
  <2>3. Caught(k).members = members /\ Caught(k).self
    BY <2>1 DEF Following, Informed
  <2>4. Apply(Caught(k), k, e).members = MembersAfter(Caught(k).members, e)
        /\ Apply(Caught(k), k, e).self = Caught(k).self
    <3>1. Caught(k) \in Copy /\ e \in Wire /\ e.type # "room_welcome"
      BY <1>3, CaughtTyped DEF Wire
    <3>2. QED  BY <3>1, ApplyMembers
  <2>5. MembersAfter(members, e) = members \ {j}
    BY <1>3 DEF MembersAfter
  <2>6. QED  BY <1>1, <2>2, <2>3, <2>4, <2>5
<1>6. Informed'
  BY <1>5 DEF Informed
<1>7. Numbered'
  BY <1>1 DEF Following, Numbered
<1>8. Unborn'
  <2>1. ASSUME NEW k \in Joiner, k >= nextMemberIndex
        PROVE  peerLink'[k] = peerLink[k] /\ authority'[k] = authority[k]
    <3>1. k \notin members
      BY <2>1, Indices DEF Following, Numbered
    <3>2. QED  BY <1>1, <1>3, <1>4, <3>1 DEF Deliver
  <2>2. QED  BY <1>1, <2>1 DEF Following, Unborn
<1>9. QED  BY <1>6, <1>7, <1>8 DEF Following

\* A step that changes neither the room nor what leads to the copies.
LEMMA QuietFollowing ==
  ASSUME Typed, Following, UNCHANGED <<members, nextMemberIndex>>,
         \A j \in Joiner : Heeded(j)' => Heeded(j),
         \A j \in Joiner : Heeded(j)' =>
            /\ Caught(j)'.members = Caught(j).members /\ Caught(j)'.self = Caught(j).self,
         \A j \in Joiner : j >= nextMemberIndex =>
            /\ view'[j] = view[j] /\ toHost'[j] = toHost[j] /\ authority'[j] = authority[j]
            /\ peerLink'[j] = peerLink[j] /\ (j \in alive' => j \in alive)
  PROVE  Following'
BY DEF Following, Unborn, Numbered, Informed

LEMMA SameCaught ==
  ASSUME NEW j, view'[j] = view[j], authority'[j] = authority[j], peerLink'[j] = peerLink[j]
  PROVE  Caught(j)' = Caught(j)
BY DEF Caught

\* What a joiner does at once concerns its channels only.
LEMMA OptimisticMembers ==
  ASSUME NEW v \in Copy, NEW j \in Joiner, NEW cmd \in News, cmd.type \in Routine
  PROVE  /\ Optimistic(v, j, cmd).members = v.members
         /\ Optimistic(v, j, cmd).self = v.self
<1>1. Apply(v, j, cmd).members = v.members /\ Apply(v, j, cmd).self = v.self
  <2>1. cmd \in Wire
    BY DEF Wire
  <2>2. QED  BY <2>1, ApplyMembers DEF MembersAfter, Routine
<1>2. [v EXCEPT !.channels = Drop(v.channels, cmd.on)].members = v.members
      /\ [v EXCEPT !.channels = Drop(v.channels, cmd.on)].self = v.self
  BY DEF Copy
<1>3. QED  BY <1>1, <1>2 DEF Optimistic

LEMMA JoinerCommandsFollowing ==
  ASSUME Typed, Following, NEW j \in Joiner, NEW cmd \in Commands(j), JoinerCommands(j, cmd)
  PROVE  Following'
<1>1. cmd \in News /\ cmd.type \in Routine
  BY MemberNumbers, CommandsAreRequests
<1>2. j \in alive /\ ~(j >= nextMemberIndex)
  BY DEF JoinerCommands, TakesInput, Following, Unborn
<1>3. /\ UNCHANGED <<members, nextMemberIndex, roomOpen, alive, authority, peerLink>>
      /\ \A k \in Joiner \ {j} : view'[k] = view[k] /\ toHost'[k] = toHost[k]
  BY DEF JoinerCommands, room, Typed, LinksTyped, CopiesTyped
<1>4. PICK v : v = view[j]
  OBVIOUS
<1>5. v \in Copy /\ view'[j] = Optimistic(v, j, cmd)
  BY <1>4 DEF JoinerCommands, Typed, CopiesTyped
<1>6. PICK s : s = authority[j] \o peerLink[j]
  OBVIOUS
<1>7. Caught(j)'.members = Caught(j).members /\ Caught(j)'.self = Caught(j).self
  <2>1. s \in Seq(Wire)
    BY <1>6, StreamsTyped
  <2>2. PICK w \in Copy : w = Optimistic(v, j, cmd)
    BY <1>1, <1>5, OptimisticTyped
  <2>3. v.members = w.members /\ v.self = w.self
    BY <1>1, <1>5, <2>2, OptimisticMembers
  <2>4. After(v, j, s).members = After(w, j, s).members
        /\ After(v, j, s).self = After(w, j, s).self
    BY <1>5, <2>1, <2>3, AfterAgrees
  <2>5. Caught(j) = After(v, j, s) /\ Caught(j)' = After(w, j, s)
    BY <1>3, <1>4, <1>5, <1>6, <2>2 DEF Caught
  <2>6. QED  BY <2>4, <2>5
<1>8. \A k \in Joiner \ {j} : Caught(k)' = Caught(k)
  BY <1>3, SameCaught
<1>9. \A k \in Joiner : Heeded(k)' => Heeded(k)
  BY <1>3 DEF Present, Heeded, JoinerCommands, Issue
<1>10. QED  BY <1>2, <1>3, <1>7, <1>8, <1>9, QuietFollowing

LEMMA HostHandlesCommandFollowing ==
  ASSUME Typed, Following, NEW j \in Joiner, HostHandlesCommand(j)
  PROVE  Following'
<1>0. j \in MemberId
  BY MemberNumbers
<1>1. /\ toHost[j] # <<>> /\ Head(toHost[j]) \in Request(j)
      /\ UNCHANGED <<roomOpen, alive, view>> /\ Onward
  BY ToHostShrinks DEF HostHandlesCommand, Typed, history, Onward
<1>2. \A k \in Joiner : k >= nextMemberIndex => toHost'[k] = toHost[k]
  <2>1. ~(j >= nextMemberIndex)
    BY <1>1 DEF Following, Unborn
  <2>2. \A k \in Joiner \ {j} : toHost'[k] = toHost[k]
    BY DEF HostHandlesCommand, Typed, LinksTyped
  <2>3. QED  BY <2>1, <2>2
<1>3. CASE j \in members /\ Head(toHost[j]).type = "leave_room"
  <2>1. HostDropsMember(j)
    BY <1>3 DEF HostHandlesCommand
  <2>2. QED  BY <1>1, <1>2, <1>3, <2>1, DropInforms
<1>4. CASE j \in members /\ Head(toHost[j]).type # "leave_room"
  <2>1. HostExecutes(j, Head(toHost[j])) /\ UNCHANGED authority
    BY <1>4 DEF HostHandlesCommand
  <2>2. PICK cmd \in Request(j) : cmd = Head(toHost[j])
    BY <1>1
  <2>3. cmd.type \in Routine
    BY <1>4, <2>2 DEF Request
  <2>4. HostExecutes(j, cmd)
    BY <2>1, <2>2
  <2>5. QED  BY <1>0, <1>1, <1>2, <2>1, <2>3, <2>4, ExecutesInforms DEF Following
<1>5. CASE j \notin members
  <2>1. UNCHANGED <<members, nextMemberIndex, peerLink, authority>>
    BY <1>5 DEF HostHandlesCommand, room
  <2>2. \A k \in Joiner : Caught(k)' = Caught(k) /\ (Heeded(k)' => Heeded(k))
    BY <1>1, <2>1, SameCaught DEF Present, Heeded, Onward
  <2>3. QED  BY <1>1, <1>2, <2>1, <2>2, QuietFollowing
<1>6. QED  BY <1>3, <1>4, <1>5

\* What the authority link makes of a copy depends on its members only until they are
\* overwritten.
LEMMA GuidanceParts ==
  ASSUME NEW x \in Copy, NEW y \in Copy, NEW j \in Joiner, NEW e \in Guidance,
         x.self = y.self, x.channels = y.channels
  PROVE  /\ Apply(x, j, e).self = Apply(y, j, e).self
         /\ Apply(x, j, e).channels = Apply(y, j, e).channels
         /\ x.members = y.members \/ e.type = "member_snapshot"
              => Apply(x, j, e).members = Apply(y, j, e).members
<1>0. /\ x = [self |-> x.self, members |-> x.members, channels |-> x.channels]
      /\ y = [self |-> y.self, members |-> y.members, channels |-> y.channels]
  BY DEF Copy
<1>1. CASE e.type = "room_closed"
  <2>1. /\ Apply(x, j, e) = [NewView EXCEPT !.self = x.self]
        /\ Apply(y, j, e) = [NewView EXCEPT !.self = y.self]
    BY <1>1 DEF Apply
  <2>2. QED  BY <2>1
<1>2. CASE e.type = "member_snapshot"
  <2>1. /\ Apply(x, j, e) = [x EXCEPT !.members = e.members]
        /\ Apply(y, j, e) = [y EXCEPT !.members = e.members]
    BY <1>2 DEF Apply
  <2>2. QED  BY <1>0, <2>1
<1>3. CASE e.type = "room_welcome"
  <2>1. Apply(x, j, e) = [x EXCEPT !.self = TRUE] /\ Apply(y, j, e) = [y EXCEPT !.self = TRUE]
    BY <1>3 DEF Apply
  <2>2. QED  BY <1>0, <1>3, <2>1
<1>4. CASE e.type = "peer_connect"
  <2>1. Apply(x, j, e) = x /\ Apply(y, j, e) = y
    BY <1>4 DEF Apply
  <2>2. QED  BY <1>4, <2>1
<1>5. QED  BY <1>1, <1>2, <1>3, <1>4 DEF Guidance, Advice

LEMMA Overwritten ==
  ASSUME NEW v \in Copy, NEW w \in Copy, NEW j \in Joiner, NEW a \in Seq(Guidance),
         NEW n \in 1 .. Len(a), a[n].type = "member_snapshot",
         v.self = w.self, v.channels = w.channels
  PROVE  After(v, j, a) = After(w, j, a)
<1>1. Len(a) \in Nat /\ \A i \in 1 .. Len(a) : a[i] \in Guidance
  BY LenProperties, ElementOfSeq
<1>2. PICK g : Reading(g, v, j, a) /\ After(v, j, a) = g[Len(a)]
  BY <1>1, AfterHasReading
<1>3. PICK h : Reading(h, w, j, a) /\ After(w, j, a) = h[Len(a)]
  BY <1>1, AfterHasReading
<1> DEFINE Alike(i, x, y) == /\ x \in Copy /\ y \in Copy
                             /\ x.self = y.self /\ x.channels = y.channels
                             /\ i >= n => x.members = y.members
           good == {i \in 0 .. Len(a) : Alike(i, g[i], h[i])}
           id == [i \in 0 .. Len(a) |-> i]
<1>4. id[0] \in good
  <2>1. g[0] = v /\ h[0] = w /\ ~(0 >= n) /\ 0 \in 0 .. Len(a)
    BY <1>1, <1>2, <1>3 DEF Reading
  <2>2. QED  BY <2>1
<1>5. ASSUME NEW i \in 1 .. Len(a), id[i - 1] \in good PROVE id[i] \in good
  <2>1. id[i - 1] = i - 1 /\ id[i] = i /\ i \in 0 .. Len(a) /\ a[i] \in Guidance
    BY <1>1
  <2>2. Alike(i - 1, g[i - 1], h[i - 1])
    BY <1>5, <2>1
  <2>3. g[i] = Apply(g[i - 1], j, a[i]) /\ h[i] = Apply(h[i - 1], j, a[i])
    BY <1>2, <1>3 DEF Reading
  <2>4. PICK x \in Copy, y \in Copy : /\ x = g[i - 1] /\ y = h[i - 1]
                                      /\ x.self = y.self /\ x.channels = y.channels
                                      /\ i - 1 >= n => x.members = y.members
    BY <2>2
  <2> HIDE DEF Alike, good, id
  <2>5. PICK e \in Guidance : e = a[i]
    BY <2>1
  <2>6. /\ Apply(x, j, e).self = Apply(y, j, e).self
        /\ Apply(x, j, e).channels = Apply(y, j, e).channels
        /\ x.members = y.members \/ e.type = "member_snapshot"
             => Apply(x, j, e).members = Apply(y, j, e).members
        /\ Apply(x, j, e) \in Copy /\ Apply(y, j, e) \in Copy
    <3>1. Apply(x, j, e) \in Copy /\ Apply(y, j, e) \in Copy
      BY ApplyTyped
    <3>2. QED  BY <2>4, <3>1, GuidanceParts
  <2>7. i >= n => i - 1 >= n \/ i = n
    OBVIOUS
  <2>8. Alike(i, g[i], h[i])
    BY <2>3, <2>4, <2>5, <2>6, <2>7 DEF Alike
  <2>9. QED  BY <2>1, <2>8 DEF good
<1>6. id[Len(a)] \in good
  <2>1. Len(a) \in 0 .. Len(a)
    BY <1>1
  <2> HIDE DEF good, id
  <2>2. QED  BY <1>1, <1>4, <1>5, <2>1, Carried
<1>7. Alike(Len(a), g[Len(a)], h[Len(a)]) /\ Len(a) >= n
  BY <1>1, <1>6
<1>8. g[Len(a)] = h[Len(a)]
  BY <1>7 DEF Copy
<1>9. QED  BY <1>2, <1>3, <1>8

\* A member more at first is at most that member more at last.
LEMMA AfterMeeting ==
  ASSUME NEW v \in Copy, NEW w \in Copy, NEW j \in Joiner, NEW m, NEW s \in Seq(Wire),
         v.members \subseteq w.members, w.members \subseteq v.members \cup {m}, v.self = w.self
  PROVE  /\ After(v, j, s).members \subseteq After(w, j, s).members
         /\ After(w, j, s).members \subseteq After(v, j, s).members \cup {m}
         /\ After(v, j, s).self = After(w, j, s).self
<1> DEFINE S == {p \in Copy \X Copy : /\ p[1].members \subseteq p[2].members
                                      /\ p[2].members \subseteq p[1].members \cup {m}
                                      /\ p[1].self = p[2].self}
<1>1. Len(s) \in Nat /\ \A i \in 1 .. Len(s) : s[i] \in Wire
  BY LenProperties, ElementOfSeq
<1>2. <<v, w>> \in S
  OBVIOUS
<1>3. ASSUME NEW x, NEW y, NEW i \in 1 .. Len(s), <<x, y>> \in S
      PROVE  <<Apply(x, j, s[i]), Apply(y, j, s[i])>> \in S
  <2>1. /\ x \in Copy /\ y \in Copy /\ x.members \subseteq y.members
        /\ y.members \subseteq x.members \cup {m} /\ x.self = y.self
    BY <1>3
  <2>2. PICK e \in Wire : e = s[i]
    BY <1>1
  <2>3. Apply(x, j, e) \in Copy /\ Apply(y, j, e) \in Copy
    BY <2>1, ApplyTyped DEF Wire
  <2>4. \A z \in {x, y} :
           /\ Apply(z, j, e).members = MembersAfter(z.members, e)
           /\ Apply(z, j, e).self = IF e.type = "room_welcome" THEN TRUE ELSE z.self
    BY <2>1, ApplyMembers
  <2>5. /\ MembersAfter(x.members, e) \subseteq MembersAfter(y.members, e)
        /\ MembersAfter(y.members, e) \subseteq MembersAfter(x.members, e) \cup {m}
    BY <2>1 DEF MembersAfter
  <2>6. /\ Apply(x, j, e).members \subseteq Apply(y, j, e).members
        /\ Apply(y, j, e).members \subseteq Apply(x, j, e).members \cup {m}
        /\ Apply(x, j, e).self = Apply(y, j, e).self
    BY <2>1, <2>4, <2>5
  <2>7. QED  BY <2>2, <2>3, <2>6
<1> HIDE DEF S
<1>4. <<After(v, j, s), After(w, j, s)>> \in S
  BY <1>1, <1>2, <1>3, AfterRelates
<1>5. QED  BY <1>4 DEF S

LEMMA MeetingIs ==
  ASSUME Typed, NEW j \in Joiner, NEW m \in MemberId, JoinerMeetsPeer(j, m)
  PROVE  /\ view'[j] \in Copy
         /\ view'[j].members = view[j].members \cup {m}
         /\ view'[j].self = view[j].self /\ view'[j].channels = view[j].channels
         /\ \A k \in Joiner : k # j => view'[k] = view[k]
<1>1. view[j] \in Copy /\ view \in [Joiner -> Copy]
  BY DEF Typed, CopiesTyped
<1>2. view' = [view EXCEPT ![j] = [view[j] EXCEPT !.members = view[j].members \cup {m}]]
  BY <1>1 DEF JoinerMeetsPeer
<1>3. PICK v \in Copy : v = view[j]
  BY <1>1
<1>4. /\ view'[j] = [v EXCEPT !.members = v.members \cup {m}]
      /\ \A k \in Joiner : k # j => view'[k] = view[k]
  BY <1>1, <1>2, <1>3
<1>5. /\ [v EXCEPT !.members = v.members \cup {m}] \in Copy
      /\ [v EXCEPT !.members = v.members \cup {m}].members = v.members \cup {m}
      /\ [v EXCEPT !.members = v.members \cup {m}].self = v.self
      /\ [v EXCEPT !.members = v.members \cup {m}].channels = v.channels
  BY <1>3 DEF Copy
<1>6. QED  BY <1>3, <1>4, <1>5

\* To meet somebody is nothing new to a joiner that knows, or is yet to be told, who is
\* in the room.
LEMMA MeetingQuiet ==
  ASSUME Typed, NEW j \in Joiner, NEW m \in MemberId, JoinerMeetsPeer(j, m),
         m \in view[j].members \/ SnapshotPending(j)
  PROVE  Caught(j)' = Caught(j)
<1>1. PICK v \in Copy : v = view[j]
  BY DEF Typed, CopiesTyped
<1>2. PICK w \in Copy : w = view'[j]
  BY MeetingIs
<1>3. /\ w.members = v.members \cup {m} /\ w.self = v.self /\ w.channels = v.channels
      /\ UNCHANGED <<authority, peerLink>>
  BY <1>1, <1>2, MeetingIs DEF JoinerMeetsPeer
<1>4. CASE m \in v.members
  <2>1. w = v
    BY <1>3, <1>4 DEF Copy
  <2>2. QED  BY <1>1, <1>2, <1>3, <2>1 DEF Caught
<1>5. CASE SnapshotPending(j)
  <2>1. PICK a \in Seq(Guidance) : a = authority[j]
    BY DEF Typed, LinksTyped
  <2>2. PICK n \in 1 .. Len(a) : a[n].type = "member_snapshot"
    <3>1. DOMAIN a = 1 .. Len(a)
      BY LenProperties
    <3>2. QED  BY <1>5, <2>1, <3>1 DEF SnapshotPending
  <2>3. After(v, j, a) = After(w, j, a)
    BY <1>3, <2>2, Overwritten
  <2> DEFINE W == Wire
  <2>4. PICK p \in Seq(W) : p = peerLink[j]
    BY StreamsTyped
  <2>5. a \in Seq(W)
    BY <2>1, StreamsTyped
  <2> HIDE DEF W
  <2>6. \A x : After(x, j, a \o p) = After(After(x, j, a), j, p)
    BY <2>4, <2>5, AfterBoth
  <2>7. QED  BY <1>1, <1>2, <1>3, <2>1, <2>3, <2>4, <2>6 DEF Caught
<1>6. QED  BY <1>1, <1>4, <1>5

LEMMA MeetingFollowing ==
  ASSUME Typed, Following, NEW j \in Joiner, NEW m \in MemberId, JoinerMeetsPeer(j, m)
  PROVE  Following'
<1>1. /\ UNCHANGED <<members, nextMemberIndex, roomOpen, alive, toHost, authority, peerLink>>
      /\ \A k \in Joiner : k \notin misled' => k \notin misled
  BY DEF JoinerMeetsPeer, room
<1>2. \A k \in Joiner : k # j => view'[k] = view[k] /\ Caught(k)' = Caught(k)
  BY <1>1, MeetingIs, SameCaught
<1>3. \A k \in Joiner : Heeded(k)' => Heeded(k)
  BY <1>1 DEF Present, Heeded
<1>4. ASSUME Heeded(j)'
      PROVE  Caught(j)'.members = Caught(j).members /\ Caught(j)'.self = Caught(j).self
  <2>1. CASE m \in view[j].members \/ SnapshotPending(j)
    BY <2>1, MeetingQuiet
  <2>2. CASE ~(m \in view[j].members \/ SnapshotPending(j))
    <3>1. m \in members
      BY <1>4, <2>2 DEF JoinerMeetsPeer, Heeded
    <3>2. Caught(j).members = members
      BY <1>3, <1>4 DEF Following, Informed
    <3>3. PICK s \in Seq(Wire) : s = authority[j] \o peerLink[j]
      BY StreamsTyped
    <3>4. PICK v \in Copy : v = view[j]
      BY DEF Typed, CopiesTyped
    <3>5. PICK w \in Copy : w = view'[j]
      BY MeetingIs
    <3>6. w.members = v.members \cup {m} /\ w.self = v.self
      BY <3>4, <3>5, MeetingIs
    <3>7. /\ After(v, j, s).members \subseteq After(w, j, s).members
          /\ After(w, j, s).members \subseteq After(v, j, s).members \cup {m}
          /\ After(v, j, s).self = After(w, j, s).self
      BY <3>6, AfterMeeting
    <3>8. Caught(j) = After(v, j, s) /\ Caught(j)' = After(w, j, s)
      BY <1>1, <3>3, <3>4, <3>5 DEF Caught
    <3>9. After(w, j, s).members = After(v, j, s).members
      BY <3>1, <3>2, <3>7, <3>8
    <3>10. QED  BY <3>7, <3>8, <3>9
  <2>3. QED  BY <2>1, <2>2
<1>5. ~(j >= nextMemberIndex)
  BY DEF JoinerMeetsPeer, Following, Unborn
<1>6. QED  BY <1>1, <1>2, <1>3, <1>4, <1>5, QuietFollowing
LEMMA FollowingInit ==
  ASSUME ReplicaInit
  PROVE  Following
<1>1. Unborn
  BY DEF ReplicaInit, Unborn
<1>2. Numbered
  BY DEF ReplicaInit, Init, Numbered, Host
<1>3. Informed
  BY DEF ReplicaInit, Informed, Present, Heeded
<1>4. QED  BY <1>1, <1>2, <1>3 DEF Following

LEMMA FollowingNext ==
  ASSUME Typed, Following, [ReplicaNext]_replicaVars
  PROVE  Following'
<1>1. CASE HostAccepts
  BY <1>1, HostAcceptsInforms
<1>2. CASE HostLeaves
  <2>1. UNCHANGED <<members, nextMemberIndex, toHost, view, peerLink, alive>> /\ ~roomOpen'
    BY <1>2 DEF HostLeaves, room
  <2>2. \A j \in Joiner : j >= nextMemberIndex => authority'[j] = authority[j]
    <3>1. \A j \in Joiner : j >= nextMemberIndex => j \notin members
      BY Indices DEF Following, Numbered
    <3>2. QED  BY <1>2, <3>1 DEF HostLeaves
  <2>3. \A j \in Joiner : ~Heeded(j)'
    BY <2>1 DEF Present, Heeded
  <2>4. QED  BY <2>1, <2>2, <2>3, QuietFollowing
<1>3. ASSUME NEW cmd \in Commands(Host), HostCommands(cmd) PROVE Following'
  <2>1. cmd \in Request(Host) /\ cmd.type \in Routine
    BY MemberNumbers, CommandsAreRequests
  <2>2. /\ HostExecutes(Host, cmd) /\ UNCHANGED <<roomOpen, alive, toHost, authority, view>>
        /\ Onward
    BY <1>3 DEF HostCommands, Issue, Onward
  <2>3. QED  BY <2>1, <2>2, MemberNumbers, ExecutesInforms DEF Following
<1>4. ASSUME NEW j \in Joiner, HostHandlesCommand(j) PROVE Following'
  BY <1>4, HostHandlesCommandFollowing
<1>5. ASSUME NEW j \in Joiner, HostSeesDisconnect(j) PROVE Following'
  <2>1. /\ j \in members /\ HostDropsMember(j) /\ UNCHANGED <<roomOpen, alive, toHost, view>>
        /\ Onward
    BY <1>5 DEF HostSeesDisconnect, history, Onward
  <2>2. QED  BY <2>1, DropInforms
<1>6. ASSUME NEW j \in Joiner, NEW cmd \in Commands(j), JoinerCommands(j, cmd)
      PROVE  Following'
  BY <1>6, JoinerCommandsFollowing
<1>7. ASSUME NEW j \in Joiner, JoinerLeaves(j) PROVE Following'
  <2>1. /\ UNCHANGED <<members, nextMemberIndex, roomOpen, alive, authority, peerLink, view,
                       misled>>
        /\ \A k \in Joiner \ {j} : toHost'[k] = toHost[k]
    BY <1>7 DEF JoinerLeaves, room, history, Typed, LinksTyped
  <2>2. ~(j >= nextMemberIndex)
    BY <1>7 DEF JoinerLeaves, TakesInput, Following, Unborn
  <2>3. \A k \in Joiner : Caught(k)' = Caught(k) /\ (Heeded(k)' => Heeded(k))
    BY <2>1, SameCaught DEF Present, Heeded
  <2>4. QED  BY <2>1, <2>2, <2>3, QuietFollowing
<1>8. ASSUME NEW j \in Joiner, JoinerExits(j) PROVE Following'
  <2>1. /\ UNCHANGED <<members, nextMemberIndex, roomOpen, authority, peerLink, view, toHost,
                       misled>>
        /\ alive' \subseteq alive
    BY <1>8 DEF JoinerExits, room, history
  <2>2. \A k \in Joiner : Caught(k)' = Caught(k) /\ (Heeded(k)' => Heeded(k))
    BY <2>1, SameCaught DEF Present, Heeded
  <2>3. QED  BY <2>1, <2>2, QuietFollowing
<1>9. ASSUME NEW j \in Joiner, JoinerReadsAuthority(j) PROVE Following'
  <2>1. /\ UNCHANGED <<members, nextMemberIndex, roomOpen, alive, toHost, peerLink, misled>>
        /\ \A k \in Joiner \ {j} : view'[k] = view[k] /\ authority'[k] = authority[k]
    BY <1>9 DEF JoinerReadsAuthority, room, history, Typed, LinksTyped, CopiesTyped
  <2>2. ~(j >= nextMemberIndex)
    BY <1>9 DEF JoinerReadsAuthority, Following, Unborn
  <2>3. \A k \in Joiner : Caught(k)' = Caught(k)
    BY <1>9, <2>1, SameCaught, CaughtReadsAuthority
  <2>4. \A k \in Joiner : Heeded(k)' => Heeded(k)
    BY <2>1 DEF Present, Heeded
  <2>5. QED  BY <2>1, <2>2, <2>3, <2>4, QuietFollowing
<1>10. ASSUME NEW j \in Joiner, JoinerReadsPeerLink(j) PROVE Following'
  <2>1. /\ UNCHANGED <<members, nextMemberIndex, roomOpen, alive, toHost, authority>>
        /\ \A k \in Joiner \ {j} : view'[k] = view[k] /\ peerLink'[k] = peerLink[k]
    BY <1>10 DEF JoinerReadsPeerLink, room, Typed, LinksTyped, CopiesTyped
  <2>2. ~(j >= nextMemberIndex) /\ (j \notin misled' => ~Unsettled(j))
        /\ (\A k \in Joiner : k \notin misled' => k \notin misled)
    BY <1>10 DEF JoinerReadsPeerLink, Following, Unborn
  <2>3. \A k \in Joiner : k \notin misled' => Caught(k)' = Caught(k)
    BY <1>10, <2>1, <2>2, SameCaught, CaughtReadsPeerLink
  <2>4. \A k \in Joiner : Heeded(k)' => Heeded(k) /\ k \notin misled'
    BY <2>1, <2>2 DEF Present, Heeded
  <2>5. QED  BY <2>1, <2>2, <2>3, <2>4, QuietFollowing
<1>11. ASSUME NEW j \in Joiner, NEW m \in MemberId, JoinerMeetsPeer(j, m) PROVE Following'
  BY <1>11, MeetingFollowing
<1>12. CASE UNCHANGED replicaVars
  <2>1. UNCHANGED <<members, nextMemberIndex, roomOpen, alive, toHost, authority, peerLink, view,
                    misled>>
    BY <1>12 DEF replicaVars, room, linkVars, history
  <2>2. \A k \in Joiner : Caught(k)' = Caught(k) /\ (Heeded(k)' => Heeded(k))
    BY <2>1, SameCaught DEF Present, Heeded
  <2>3. QED  BY <2>1, <2>2, QuietFollowing
<1>13. QED
  BY <1>1, <1>2, <1>3, <1>4, <1>5, <1>6, <1>7, <1>8, <1>9, <1>10, <1>11, <1>12
  DEF ReplicaNext

LEMMA FollowingAlways == ReplicaSpec => [](Typed /\ Following)
<1>1. ReplicaInit => Typed /\ Following
  BY TypedInit, FollowingInit
<1>2. Typed /\ Following /\ [ReplicaNext]_replicaVars => (Typed /\ Following)'
  BY TypedNext, FollowingNext
<1>3. QED  BY <1>1, <1>2, PTL DEF ReplicaSpec

\* Whatever clients send and however the streams are read, they carry messages of the
\* protocol, and every joiner's JoinState is well-formed: apply_machine_event never
\* leaves a channel without a kind or with a participant that cannot be a member.  And
\* the host never has anyone in the room, nor is a joiner running, that it has not
\* numbered: handle_host_peer_connected gives out the index before anything is sent.
THEOREM ReplicaTypeCorrect == ReplicaSpec => []ReplicaTypeOK
<1>1. Typed /\ Following => ReplicaTypeOK
  <2>1. SUFFICES ASSUME Typed, Following PROVE ReplicaTypeOK
    OBVIOUS
  <2>2. ASSUME NEW j \in Joiner
        PROVE  /\ ToSet(toHost[j]) \cup ToSet(authority[j]) \cup ToSet(peerLink[j])
                    \subseteq MessageType
               /\ view[j].self \in BOOLEAN
               /\ view[j].members \subseteq MemberId
               /\ DOMAIN view[j].channels \subseteq ChannelId
               /\ \A c \in DOMAIN view[j].channels : view[j].channels[c] \in Channel
    <3>1. ToSet(toHost[j]) \subseteq Request(j)
      <4>1. toHost[j] \in Seq(Request(j))
        BY <2>1 DEF Typed, LinksTyped
      <4>2. QED  BY <4>1, ToSetTyped
    <3>2. ToSet(authority[j]) \subseteq Guidance
      <4>1. authority[j] \in Seq(Guidance)
        BY <2>1 DEF Typed, LinksTyped
      <4>2. QED  BY <4>1, ToSetTyped
    <3>3. ToSet(peerLink[j]) \subseteq News
      <4>1. peerLink[j] \in Seq(News)
        BY <2>1 DEF Typed, LinksTyped
      <4>2. QED  BY <4>1, ToSetTyped
    <3>4. view[j] \in Copy
      BY <2>1 DEF Typed, CopiesTyped
    <3>5. /\ view[j].self \in BOOLEAN /\ view[j].members \subseteq MemberId
          /\ view[j].channels \in Book
      BY <3>4 DEF Copy
    <3>6. QED  BY <3>1, <3>2, <3>3, <3>5, BookFacts, LettersAreMessages, MemberNumbers
  <2>3. \A m \in members \cup alive : m < nextMemberIndex
    <3>1. alive \subseteq Joiner /\ \A m \in members : m < nextMemberIndex
      BY <2>1 DEF Typed, CountersTyped, Following, Numbered
    <3>2. \A j \in Joiner : j >= nextMemberIndex => j \notin alive
      BY <2>1 DEF Following, Unborn
    <3>3. nextMemberIndex \in Nat /\ Joiner \subseteq Nat
      BY <2>1, Indices
    <3>4. \A j \in Joiner : ~(j >= nextMemberIndex) => j < nextMemberIndex
      BY <3>3
    <3>5. QED  BY <3>1, <3>2, <3>4
  <2>4. QED  BY <2>1, <2>2, <2>3 DEF ReplicaTypeOK, Typed, CountersTyped
<1>2. QED  BY <1>1, FollowingAlways, PTL

\* What the host has sent to a joiner always amounts to the members of its engine,
\* for any number of members and whatever clients do: deliver_routed_events and the
\* welcome, snapshot and introductions of handle_host_peer_connected leave nothing out.
\* A joiner may be wrong only if it has read the host's peer link before its snapshot, or
\* has finished a dial to a member that was gone.
THEOREM StreamsAlwaysCarryMembership == ReplicaSpec => []StreamsCarryMembership
<1>1. Typed /\ Following => StreamsCarryMembership
  BY DEF Following, Informed, Heeded, StreamsCarryMembership
<1>2. QED  BY <1>1, FollowingAlways, PTL

-----------------------------------------------------------------------------
(* What each message makes of one channel of a copy.                       *)

\* v and w hold the same of channel c.
SameAt(v, w, c) ==
  /\ c \in DOMAIN v.channels <=> c \in DOMAIN w.channels
  /\ c \in DOMAIN v.channels => v.channels[c] = w.channels[c]

LEMMA CopyFacts ==
  ASSUME NEW v \in Copy
  PROVE  /\ v = [self |-> v.self, members |-> v.members, channels |-> v.channels]
         /\ v.self \in BOOLEAN /\ v.members \subseteq MemberId /\ v.channels \in Book
         /\ DOMAIN v.channels \subseteq ChannelId
         /\ \A c \in DOMAIN v.channels : v.channels[c] \in Channel
BY BookFacts DEF Copy

LEMMA WithChannels ==
  ASSUME NEW v \in Copy, NEW f
  PROVE  [v EXCEPT !.channels = f].channels = f
BY CopyFacts

LEMMA ApplyToMembers ==
  ASSUME NEW v \in Copy, NEW j, NEW e,
         e.type \in {"room_welcome", "member_snapshot", "member_joined", "peer_connect",
                     "channel_accepted"}
  PROVE  Apply(v, j, e).channels = v.channels
<1>1. CASE e.type = "room_welcome"
  <2>1. Apply(v, j, e) = [v EXCEPT !.self = TRUE]
    BY <1>1 DEF Apply
  <2>2. QED  BY <2>1, CopyFacts
<1>2. CASE e.type = "member_snapshot"
  <2>1. Apply(v, j, e) = [v EXCEPT !.members = e.members]
    BY <1>2 DEF Apply
  <2>2. QED  BY <2>1, CopyFacts
<1>3. CASE e.type = "member_joined"
  <2>1. Apply(v, j, e) = [v EXCEPT !.members = v.members \cup {e.by}]
    BY <1>3 DEF Apply
  <2>2. QED  BY <2>1, CopyFacts
<1>4. CASE e.type \in {"peer_connect", "channel_accepted"}
  BY <1>4 DEF Apply
<1>5. QED  BY <1>1, <1>2, <1>3, <1>4

LEMMA ApplyClosed ==
  ASSUME NEW v, NEW j, NEW e, e.type = "room_closed"
  PROVE  DOMAIN Apply(v, j, e).channels = {}
<1>1. Apply(v, j, e) = [NewView EXCEPT !.self = v.self]
  BY DEF Apply
<1>2. [NewView EXCEPT !.self = v.self].channels = NewView.channels
  BY DEF NewView
<1>3. QED  BY <1>1, <1>2, NewViewTyped

\* A channel without somebody, and one with other metadata.
Without(ch, m) == [ch EXCEPT !.participants = ch.participants \ {m}]
Told(ch, offer) == [ch EXCEPT !.transfer = offer]

\* Does j keep channel c of its copy v when m goes out of it?
Stays(v, j, c, m) == Keeps(v, j, v.channels[c].participants \ {m})

LEMMA ChannelParts ==
  ASSUME NEW ch \in Channel, NEW m, NEW offer
  PROVE  /\ Without(ch, m).opener = ch.opener /\ Without(ch, m).kind = ch.kind
         /\ Without(ch, m).transfer = ch.transfer
         /\ Without(ch, m).participants = ch.participants \ {m}
         /\ Told(ch, offer).opener = ch.opener /\ Told(ch, offer).kind = ch.kind
         /\ Told(ch, offer).participants = ch.participants
BY DEF Without, Told, Channel

LEMMA ApplyLeftAt ==
  ASSUME NEW v \in Copy, NEW j, NEW e, e.type = "member_left", NEW c
  PROVE  /\ c \in DOMAIN Apply(v, j, e).channels
              <=> c \in DOMAIN v.channels /\ Stays(v, j, c, e.by)
         /\ c \in DOMAIN Apply(v, j, e).channels
              => Apply(v, j, e).channels[c] = Without(v.channels[c], e.by)
<1> DEFINE Rest(d) == v.channels[d].participants \ {e.by}
           D == {d \in DOMAIN v.channels : Keeps(v, j, Rest(d))}
           f == [d \in D |-> [v.channels[d] EXCEPT !.participants = Rest(d)]]
<1>1. Apply(v, j, e) = ApplyLeft(v, j, e.by)
  BY DEF Apply
<1>2. ApplyLeft(v, j, e.by) = [v EXCEPT !.members = v.members \ {e.by}, !.channels = f]
  BY DEF ApplyLeft
<1>3. [v EXCEPT !.members = v.members \ {e.by}, !.channels = f].channels = f
  <2> HIDE DEF f
  <2>1. QED  BY CopyFacts
<1>4. /\ c \in DOMAIN f <=> c \in DOMAIN v.channels /\ Keeps(v, j, Rest(c))
      /\ c \in DOMAIN f => f[c] = [v.channels[c] EXCEPT !.participants = Rest(c)]
  OBVIOUS
<1>5. /\ c \in DOMAIN f <=> c \in DOMAIN v.channels /\ Stays(v, j, c, e.by)
      /\ c \in DOMAIN f => f[c] = Without(v.channels[c], e.by)
  <2> HIDE DEF f
  <2>1. QED  BY <1>4 DEF Stays, Without
<1> HIDE DEF f
<1>6. Apply(v, j, e).channels = f
  BY <1>1, <1>2, <1>3
<1>7. QED  BY <1>5, <1>6

\* The members a channel_opened names are known; the channel that comes of it.
Hears(v, e)  == Known(v, e.by) /\ (e.to = All \/ Known(v, e.to))
Opened(v, e) == [opener |-> e.by, kind |-> e.kind, transfer |-> e.offer,
                 participants |-> ViewAudience(v, e.by, e.to)]

LEMMA ApplyOpenedAt ==
  ASSUME NEW v \in Copy, NEW j, NEW e, e.type = "channel_opened", NEW c
  PROVE  /\ e.on = c /\ Hears(v, e) => /\ c \in DOMAIN Apply(v, j, e).channels
                                      /\ Apply(v, j, e).channels[c] = Opened(v, e)
         /\ ~ (e.on = c /\ Hears(v, e)) => SameAt(v, Apply(v, j, e), c)
<1> DEFINE x == Opened(v, e)
<1>1. Apply(v, j, e) = ApplyOpened(v, e)
  BY DEF Apply
<1>2. CASE Hears(v, e)
  <2>1. Apply(v, j, e) = [v EXCEPT !.channels = Put(v.channels, e.on, x)]
    BY <1>1, <1>2 DEF ApplyOpened, Hears, Opened
  <2>2. Apply(v, j, e).channels = Put(v.channels, e.on, x)
    BY <2>1, WithChannels
  <2> HIDE DEF x
  <2>3. /\ e.on = c => c \in DOMAIN Put(v.channels, e.on, x) /\ Put(v.channels, e.on, x)[c] = x
        /\ e.on # c => /\ c \in DOMAIN v.channels <=> c \in DOMAIN Put(v.channels, e.on, x)
                       /\ c \in DOMAIN v.channels
                            => v.channels[c] = Put(v.channels, e.on, x)[c]
    BY DEF Put
  <2>4. QED  BY <1>2, <2>2, <2>3 DEF SameAt, x
<1>3. CASE ~Hears(v, e)
  <2>1. Apply(v, j, e) = v
    BY <1>1, <1>3 DEF ApplyOpened, Hears, Opened
  <2>2. QED  BY <1>3, <2>1 DEF SameAt
<1>4. QED  BY <1>2, <1>3

LEMMA ApplyTransferAt ==
  ASSUME NEW v \in Copy, NEW j, NEW e, e.type = "channel_transfer", NEW c
  PROVE  /\ e.on # c => SameAt(v, Apply(v, j, e), c)
         /\ e.on = c => /\ c \in DOMAIN Apply(v, j, e).channels <=> c \in DOMAIN v.channels
                        /\ c \in DOMAIN v.channels =>
                             Apply(v, j, e).channels[c] = Told(v.channels[c], e.offer)
<1>1. Apply(v, j, e) = ApplyTransfer(v, e)
  BY DEF Apply
<1>2. CASE e.on \in DOMAIN v.channels
  <2> DEFINE f == [v.channels EXCEPT ![e.on] = [v.channels[e.on] EXCEPT !.transfer = e.offer]]
  <2>1. Apply(v, j, e) = [v EXCEPT !.channels = f]
    BY <1>1, <1>2, CopyFacts DEF ApplyTransfer
  <2>2. /\ DOMAIN f = DOMAIN v.channels
        /\ f[e.on] = [v.channels[e.on] EXCEPT !.transfer = e.offer]
        /\ \A d \in DOMAIN v.channels \ {e.on} : f[d] = v.channels[d]
    BY <1>2
  <2> HIDE DEF f
  <2>3. Apply(v, j, e).channels = f
    BY <2>1, WithChannels
  <2>4. QED  BY <1>2, <2>2, <2>3 DEF SameAt, Told
<1>3. CASE e.on \notin DOMAIN v.channels
  <2>1. Apply(v, j, e) = v
    BY <1>1, <1>3 DEF ApplyTransfer
  <2>2. QED  BY <1>3, <2>1 DEF SameAt
<1>4. QED  BY <1>2, <1>3

LEMMA ApplyQuitAt ==
  ASSUME NEW v \in Copy, NEW j, NEW e,
         e.type \in {"channel_rejected", "channel_closed"}, NEW c
  PROVE  /\ e.on # c => SameAt(v, Apply(v, j, e), c)
         /\ e.on = c =>
              /\ c \in DOMAIN Apply(v, j, e).channels
                   <=> c \in DOMAIN v.channels /\ Stays(v, j, c, e.by)
              /\ c \in DOMAIN Apply(v, j, e).channels
                   => Apply(v, j, e).channels[c] = Without(v.channels[c], e.by)
<1>1. Apply(v, j, e) = ApplyQuit(v, j, e.on, e.by)
  BY DEF Apply
<1>2. CASE e.on \notin DOMAIN v.channels
  <2>1. Apply(v, j, e) = v
    BY <1>1, <1>2 DEF ApplyQuit
  <2>2. QED  BY <1>2, <2>1 DEF SameAt
<1>3. CASE e.on \in DOMAIN v.channels
  <2> DEFINE r == v.channels[e.on].participants \ {e.by}
             g == [v.channels EXCEPT ![e.on] = [v.channels[e.on] EXCEPT !.participants = r]]
             f == IF Keeps(v, j, r) THEN g ELSE Drop(v.channels, e.on)
  <2>1. Apply(v, j, e) = [v EXCEPT !.channels = f]
    BY <1>1, <1>3, CopyFacts DEF ApplyQuit
  <2>2. CASE Keeps(v, j, r)
    <3>1. /\ DOMAIN g = DOMAIN v.channels
          /\ g[e.on] = [v.channels[e.on] EXCEPT !.participants = r]
          /\ \A d \in DOMAIN v.channels \ {e.on} : g[d] = v.channels[d]
      BY <1>3
    <3>2. f = g
      BY <2>2
    <3> HIDE DEF f, g
    <3>3. Apply(v, j, e).channels = g
      BY <2>1, <3>2, WithChannels
    <3>4. QED  BY <1>3, <2>2, <3>1, <3>3 DEF SameAt, Stays, Without
  <2>3. CASE ~Keeps(v, j, r)
    <3>1. f = Drop(v.channels, e.on)
      BY <2>3
    <3> HIDE DEF f
    <3>2. Apply(v, j, e).channels = Drop(v.channels, e.on)
      BY <2>1, <3>1, WithChannels
    <3>3. /\ DOMAIN Drop(v.channels, e.on) = DOMAIN v.channels \ {e.on}
          /\ \A d \in DOMAIN v.channels \ {e.on} : Drop(v.channels, e.on)[d] = v.channels[d]
      BY DEF Drop
    <3>4. QED  BY <1>3, <2>3, <3>2, <3>3 DEF SameAt, Stays
  <2>4. QED  BY <2>2, <2>3
<1>4. QED  BY <1>2, <1>3

OpenOf(c) == {e \in Letter : e.type = "channel_opened" /\ e.on = c}
QuitOf(c) == {e \in Letter : e.type \in {"channel_rejected", "channel_closed"} /\ e.on = c}
AskOf(c)  == {e \in Letter : e.on = c}

Has(s, P)  == \E i \in DOMAIN s : s[i] \in P
Once(s, P) == \A i, k \in DOMAIN s : s[i] \in P /\ s[k] \in P => i = k

\* No channel comes into a copy, and none changes its opener, but by its opening.
LEMMA ApplyDomain ==
  ASSUME NEW v \in Copy, NEW j, NEW e \in Wire, NEW c, e \notin OpenOf(c),
         c \in DOMAIN Apply(v, j, e).channels
  PROVE  /\ c \in DOMAIN v.channels
         /\ Apply(v, j, e).channels[c].opener = v.channels[c].opener
<1>0. /\ e.type \in Advice \cup Notice \cup Routine \cup {"member_snapshot"}
      /\ e.type = "channel_opened" => e.on # c
  <2>1. CASE e \in [type : {"member_snapshot"}, members : SUBSET MemberId]
    BY <2>1
  <2>2. CASE e \in Letter
    BY <2>2 DEF OpenOf, Wire, Guidance, News
  <2>3. QED  BY <2>1, <2>2 DEF Wire, Guidance, News
<1>1. c \in DOMAIN v.channels =>
        /\ Without(v.channels[c], e.by).opener = v.channels[c].opener
        /\ Told(v.channels[c], e.offer).opener = v.channels[c].opener
  BY CopyFacts, ChannelParts
<1>2. CASE e.type \in {"room_welcome", "member_snapshot", "member_joined", "peer_connect",
                       "channel_accepted"}
  BY <1>2, ApplyToMembers
<1>3. CASE e.type = "room_closed"
  BY <1>3, ApplyClosed
<1>4. CASE e.type = "member_left"
  <2>1. /\ c \in DOMAIN v.channels
        /\ Apply(v, j, e).channels[c] = Without(v.channels[c], e.by)
    BY <1>4, ApplyLeftAt
  <2>2. QED  BY <1>1, <2>1
<1>5. CASE e.type = "channel_opened"
  <2>1. SameAt(v, Apply(v, j, e), c)
    BY <1>0, <1>5, ApplyOpenedAt
  <2>2. QED  BY <2>1 DEF SameAt
<1>6. CASE e.type = "channel_transfer"
  <2>1. CASE e.on = c
    <3>1. /\ c \in DOMAIN v.channels
          /\ Apply(v, j, e).channels[c] = Told(v.channels[c], e.offer)
      BY <1>6, <2>1, ApplyTransferAt
    <3>2. QED  BY <1>1, <3>1
  <2>2. CASE e.on # c
    <3>1. SameAt(v, Apply(v, j, e), c)
      BY <1>6, <2>2, ApplyTransferAt
    <3>2. QED  BY <3>1 DEF SameAt
  <2>3. QED  BY <2>1, <2>2
<1>7. CASE e.type \in {"channel_rejected", "channel_closed"}
  <2>1. CASE e.on = c
    <3>1. /\ c \in DOMAIN v.channels
          /\ Apply(v, j, e).channels[c] = Without(v.channels[c], e.by)
      BY <1>7, <2>1, ApplyQuitAt
    <3>2. QED  BY <1>1, <3>1
  <2>2. CASE e.on # c
    <3>1. SameAt(v, Apply(v, j, e), c)
      BY <1>7, <2>2, ApplyQuitAt
    <3>2. QED  BY <3>1 DEF SameAt
  <2>3. QED  BY <2>1, <2>2
<1>8. QED
  BY <1>0, <1>2, <1>3, <1>4, <1>5, <1>6, <1>7 DEF Advice, Notice, Routine

LEMMA AfterDomain ==
  ASSUME NEW v \in Copy, NEW j \in Joiner, NEW s \in Seq(Wire), NEW c, ~Has(s, OpenOf(c)),
         c \in DOMAIN After(v, j, s).channels
  PROVE  /\ c \in DOMAIN v.channels
         /\ After(v, j, s).channels[c].opener = v.channels[c].opener
<1> DEFINE S == {w \in Copy : c \in DOMAIN w.channels =>
                   /\ c \in DOMAIN v.channels
                   /\ w.channels[c].opener = v.channels[c].opener}
<1>1. Len(s) \in Nat /\ \A i \in 1 .. Len(s) : s[i] \in Wire /\ s[i] \notin OpenOf(c)
  BY LenProperties, ElementOfSeq DEF Has
<1>2. v \in S
  OBVIOUS
<1>3. ASSUME NEW w \in S, NEW i \in 1 .. Len(s) PROVE Apply(w, j, s[i]) \in S
  <2>1. PICK e \in Wire : e = s[i] /\ e \notin OpenOf(c)
    BY <1>1
  <2>2. w \in Copy /\ Apply(w, j, e) \in Copy
    BY ApplyTyped DEF Wire
  <2>3. c \in DOMAIN Apply(w, j, e).channels =>
          /\ c \in DOMAIN w.channels
          /\ Apply(w, j, e).channels[c].opener = w.channels[c].opener
    BY <2>1, <2>2, ApplyDomain
  <2>4. QED  BY <2>1, <2>2, <2>3
<1> HIDE DEF S
<1>4. After(v, j, s) \in S
  BY <1>1, <1>2, <1>3, AfterKeeps
<1>5. QED  BY <1>4 DEF S

\* Copies that agree on the members and on c still do when both have read the same.
LEMMA ApplySameAt ==
  ASSUME NEW v \in Copy, NEW w \in Copy, NEW j, NEW e \in Wire, NEW c,
         v.members = w.members, v.self = w.self, SameAt(v, w, c)
  PROVE  SameAt(Apply(v, j, e), Apply(w, j, e), c)
<1>0. e.type \in Advice \cup Notice \cup Routine \cup {"member_snapshot"}
  BY DEF Wire, Guidance, News
<1>1. CASE e.type \in {"room_welcome", "member_snapshot", "member_joined", "peer_connect",
                       "channel_accepted"}
  BY <1>1, ApplyToMembers DEF SameAt
<1>2. CASE e.type = "room_closed"
  BY <1>2, ApplyClosed DEF SameAt
<1>3. c \in DOMAIN v.channels => (Stays(v, j, c, e.by) <=> Stays(w, j, c, e.by))
  BY DEF Stays, Keeps, SameAt
<1>4. CASE e.on # c /\ e.type \in {"channel_opened", "channel_transfer",
                                  "channel_rejected", "channel_closed"}
  <2>1. SameAt(v, Apply(v, j, e), c)
    BY <1>4, ApplyOpenedAt, ApplyTransferAt, ApplyQuitAt
  <2>2. SameAt(w, Apply(w, j, e), c)
    BY <1>4, ApplyOpenedAt, ApplyTransferAt, ApplyQuitAt
  <2>3. QED  BY <2>1, <2>2 DEF SameAt
<1>5. CASE e.type = "member_left"
  <2>1. /\ c \in DOMAIN Apply(v, j, e).channels
             <=> c \in DOMAIN v.channels /\ Stays(v, j, c, e.by)
        /\ c \in DOMAIN Apply(v, j, e).channels
             => Apply(v, j, e).channels[c] = Without(v.channels[c], e.by)
    BY <1>5, ApplyLeftAt
  <2>2. /\ c \in DOMAIN Apply(w, j, e).channels
             <=> c \in DOMAIN w.channels /\ Stays(w, j, c, e.by)
        /\ c \in DOMAIN Apply(w, j, e).channels
             => Apply(w, j, e).channels[c] = Without(w.channels[c], e.by)
    BY <1>5, ApplyLeftAt
  <2>3. QED  BY <1>3, <2>1, <2>2 DEF SameAt
<1>6. CASE e.on = c /\ e.type = "channel_opened"
  <2>1. (Hears(v, e) <=> Hears(w, e)) /\ Opened(v, e) = Opened(w, e)
    BY DEF Hears, Opened, Known, ViewAudience
  <2>2. CASE Hears(v, e)
    <3>1. c \in DOMAIN Apply(v, j, e).channels /\ Apply(v, j, e).channels[c] = Opened(v, e)
      BY <1>6, <2>2, ApplyOpenedAt
    <3>2. c \in DOMAIN Apply(w, j, e).channels /\ Apply(w, j, e).channels[c] = Opened(w, e)
      BY <1>6, <2>1, <2>2, ApplyOpenedAt
    <3>3. QED  BY <2>1, <3>1, <3>2 DEF SameAt
  <2>3. CASE ~Hears(v, e)
    <3>1. SameAt(v, Apply(v, j, e), c)
      BY <1>6, <2>3, ApplyOpenedAt
    <3>2. SameAt(w, Apply(w, j, e), c)
      BY <1>6, <2>1, <2>3, ApplyOpenedAt
    <3>3. QED  BY <3>1, <3>2 DEF SameAt
  <2>4. QED  BY <2>2, <2>3
<1>7. CASE e.on = c /\ e.type = "channel_transfer"
  <2>1. /\ c \in DOMAIN Apply(v, j, e).channels <=> c \in DOMAIN v.channels
        /\ c \in DOMAIN v.channels =>
             Apply(v, j, e).channels[c] = Told(v.channels[c], e.offer)
    BY <1>7, ApplyTransferAt
  <2>2. /\ c \in DOMAIN Apply(w, j, e).channels <=> c \in DOMAIN w.channels
        /\ c \in DOMAIN w.channels =>
             Apply(w, j, e).channels[c] = Told(w.channels[c], e.offer)
    BY <1>7, ApplyTransferAt
  <2>3. QED  BY <2>1, <2>2 DEF SameAt
<1>8. CASE e.on = c /\ e.type \in {"channel_rejected", "channel_closed"}
  <2>1. /\ c \in DOMAIN Apply(v, j, e).channels
             <=> c \in DOMAIN v.channels /\ Stays(v, j, c, e.by)
        /\ c \in DOMAIN Apply(v, j, e).channels
             => Apply(v, j, e).channels[c] = Without(v.channels[c], e.by)
    BY <1>8, ApplyQuitAt
  <2>2. /\ c \in DOMAIN Apply(w, j, e).channels
             <=> c \in DOMAIN w.channels /\ Stays(w, j, c, e.by)
        /\ c \in DOMAIN Apply(w, j, e).channels
             => Apply(w, j, e).channels[c] = Without(w.channels[c], e.by)
    BY <1>8, ApplyQuitAt
  <2>3. QED  BY <1>3, <2>1, <2>2 DEF SameAt
<1>9. QED
  BY <1>0, <1>1, <1>2, <1>4, <1>5, <1>6, <1>7, <1>8 DEF Advice, Notice, Routine

LEMMA AfterSameAt ==
  ASSUME NEW v \in Copy, NEW w \in Copy, NEW j \in Joiner, NEW s \in Seq(Wire), NEW c,
         v.members = w.members, v.self = w.self, SameAt(v, w, c)
  PROVE  SameAt(After(v, j, s), After(w, j, s), c)
<1> DEFINE S == {p \in Copy \X Copy : /\ p[1].members = p[2].members /\ p[1].self = p[2].self
                                      /\ SameAt(p[1], p[2], c)}
<1>1. Len(s) \in Nat /\ \A i \in 1 .. Len(s) : s[i] \in Wire
  BY LenProperties, ElementOfSeq
<1>2. <<v, w>> \in S
  OBVIOUS
<1>3. ASSUME NEW x, NEW y, NEW i \in 1 .. Len(s), <<x, y>> \in S
      PROVE  <<Apply(x, j, s[i]), Apply(y, j, s[i])>> \in S
  <2>1. x \in Copy /\ y \in Copy /\ x.members = y.members /\ x.self = y.self
        /\ SameAt(x, y, c)
    BY <1>3
  <2>2. PICK e \in Wire : e = s[i]
    BY <1>1
  <2>3. Apply(x, j, e) \in Copy /\ Apply(y, j, e) \in Copy
    BY <2>1, ApplyTyped DEF Wire
  <2>4. \A z \in {x, y} :
          /\ Apply(z, j, e).members = MembersAfter(z.members, e)
          /\ Apply(z, j, e).self = IF e.type = "room_welcome" THEN TRUE ELSE z.self
    BY <2>1, ApplyMembers
  <2>5. SameAt(Apply(x, j, e), Apply(y, j, e), c)
    BY <2>1, ApplySameAt
  <2>6. QED  BY <2>1, <2>2, <2>3, <2>4, <2>5
<1> HIDE DEF S
<1>4. <<After(v, j, s), After(w, j, s)>> \in S
  BY <1>1, <1>2, <1>3, AfterRelates
<1>5. QED  BY <1>4 DEF S

-----------------------------------------------------------------------------
(* Each channel id is opened once, and each opening is told once.          *)

LEMMA AppendedHas ==
  ASSUME NEW V, NEW s \in Seq(V), NEW e \in V, NEW P
  PROVE  /\ Has(Append(s, e), P) <=> Has(s, P) \/ e \in P
         /\ Once(s, P) /\ (e \in P => ~Has(s, P)) => Once(Append(s, e), P)
<1> DEFINE t == Append(s, e)
           n == Len(s)
<1>1. /\ n \in Nat /\ Len(t) = n + 1 /\ t[n + 1] = e /\ \A i \in 1 .. n : t[i] = s[i]
      /\ DOMAIN s = 1 .. n /\ DOMAIN t = 1 .. n + 1
  BY AppendProperties, LenProperties
<1> HIDE DEF t, n
<1>2. \A i : i \in 1 .. n + 1 <=> i \in 1 .. n \/ i = n + 1
  BY <1>1
<1>3. n + 1 \notin 1 .. n
  BY <1>1
<1>4. Has(t, P) <=> Has(s, P) \/ e \in P
  <2>1. ASSUME Has(t, P) PROVE Has(s, P) \/ e \in P
    BY <1>1, <1>2, <2>1 DEF Has
  <2>2. ASSUME Has(s, P) PROVE Has(t, P)
    BY <1>1, <1>2, <2>2 DEF Has
  <2>3. ASSUME e \in P PROVE Has(t, P)
    BY <1>1, <1>2, <2>3 DEF Has
  <2>4. QED  BY <2>1, <2>2, <2>3
<1>5. ASSUME Once(s, P), e \in P => ~Has(s, P) PROVE Once(t, P)
  <2>1. SUFFICES ASSUME NEW i \in 1 .. n + 1, NEW k \in 1 .. n + 1, t[i] \in P, t[k] \in P
                 PROVE  i = k
    BY <1>1 DEF Once
  <2>2. CASE i \in 1 .. n /\ k \in 1 .. n
    BY <1>1, <1>5, <2>1, <2>2 DEF Once
  <2>3. CASE i = n + 1 /\ k \in 1 .. n
    BY <1>1, <1>5, <2>1, <2>3 DEF Has
  <2>4. CASE i \in 1 .. n /\ k = n + 1
    BY <1>1, <1>5, <2>1, <2>4 DEF Has
  <2>5. QED  BY <1>2, <2>2, <2>3, <2>4
<1>6. QED  BY <1>4, <1>5 DEF t

LEMMA TailHas ==
  ASSUME NEW V, NEW s \in Seq(V), s # <<>>, NEW P
  PROVE  /\ Has(Tail(s), P) => Has(s, P)
         /\ Has(s, P) => Has(Tail(s), P) \/ Head(s) \in P
         /\ Head(s) \in P => Has(s, P)
         /\ Once(s, P) => Once(Tail(s), P)
         /\ Once(s, P) /\ Head(s) \in P => ~Has(Tail(s), P)
<1> DEFINE t == Tail(s)
           n == Len(t)
<1>1. /\ n \in Nat /\ Head(s) = s[1] /\ \A i \in 1 .. n : t[i] = s[i + 1]
      /\ DOMAIN s = 1 .. n + 1 /\ DOMAIN t = 1 .. n
  <2>1. Len(s) \in Nat /\ Len(s) # 0 /\ Head(s) = s[1] /\ Len(t) = Len(s) - 1
        /\ DOMAIN s = 1 .. Len(s)
    BY HeadTailProperties, LenProperties, EmptySeq
  <2>2. t \in Seq(V) /\ \A i \in 1 .. n : t[i] = s[i + 1]
    BY HeadTailProperties
  <2>3. DOMAIN t = 1 .. n
    BY <2>2, LenProperties
  <2>4. QED  BY <2>1, <2>2, <2>3
<1> HIDE DEF t, n
<1>2. /\ \A i \in 1 .. n : i + 1 \in 1 .. n + 1 /\ i + 1 # 1
      /\ \A i \in 1 .. n + 1 : i = 1 \/ (i - 1 \in 1 .. n /\ (i - 1) + 1 = i)
      /\ 1 \in 1 .. n + 1
  BY <1>1
<1>3. Has(t, P) => Has(s, P)
  BY <1>1, <1>2 DEF Has
<1>4. Has(s, P) => Has(t, P) \/ Head(s) \in P
  <2>1. SUFFICES ASSUME NEW i \in 1 .. n + 1, s[i] \in P, Head(s) \notin P PROVE Has(t, P)
    BY <1>1 DEF Has
  <2>2. i - 1 \in 1 .. n /\ t[i - 1] = s[i]
    BY <1>1, <1>2, <2>1
  <2>3. QED  BY <1>1, <2>1, <2>2 DEF Has
<1>5. Head(s) \in P => Has(s, P)
  BY <1>1, <1>2 DEF Has
<1>6. ASSUME Once(s, P) PROVE Once(t, P)
  <2>1. SUFFICES ASSUME NEW i \in 1 .. n, NEW k \in 1 .. n, t[i] \in P, t[k] \in P
                 PROVE  i = k
    BY <1>1 DEF Once
  <2>2. i + 1 = k + 1
    BY <1>1, <1>2, <1>6, <2>1 DEF Once
  <2>3. QED  BY <2>2
<1>7. ASSUME Once(s, P), Head(s) \in P PROVE ~Has(t, P)
  BY <1>1, <1>2, <1>7 DEF Once, Has
<1>8. QED  BY <1>3, <1>4, <1>5, <1>6, <1>7 DEF t

\* t has no more of P than s.
NoMore(t, s, P) == (Has(t, P) => Has(s, P)) /\ (Once(s, P) => Once(t, P))

\* Whoever has asked to open c, or is told of it, or holds it, it is in use.
InUse(c) ==
  /\ c \in DOMAIN channels => c \in used
  /\ \A j \in Joiner :
       Has(toHost[j], AskOf(c)) \/ Has(peerLink[j], OpenOf(c)) \/ c \in DOMAIN view[j].channels
         => c \in used

\* While somebody waits for the host to open c, nobody else has to do with it.
AskedOnce(c) ==
  \A m \in Joiner :
    /\ Once(toHost[m], OpenOf(c))
    /\ Has(toHost[m], OpenOf(c)) =>
         /\ c \notin DOMAIN channels
         /\ \A n \in Joiner :
              /\ ~Has(peerLink[n], OpenOf(c))
              /\ n # m => c \notin DOMAIN view[n].channels /\ ~Has(toHost[n], AskOf(c))

ToldOnce(c) ==
  \A j \in Joiner : /\ Once(peerLink[j], OpenOf(c))
                    /\ Has(peerLink[j], OpenOf(c)) => c \notin DOMAIN view[j].channels

\* Who has given c up has seen the last of it.
QuitForGood(c) ==
  \A j \in Joiner : Has(toHost[j], QuitOf(c)) =>
    ~Has(peerLink[j], OpenOf(c)) /\ c \notin DOMAIN view[j].channels

Booked(c) == InUse(c) /\ AskedOnce(c) /\ ToldOnce(c) /\ QuitForGood(c)

\* A step that asks for nothing new about c, and tells nothing new of it.
Unconcerned(c) ==
  /\ c \in DOMAIN channels' => c \in DOMAIN channels
  /\ used \subseteq used'
  /\ \A j \in Joiner :
       /\ NoMore(toHost'[j], toHost[j], AskOf(c))
       /\ NoMore(toHost'[j], toHost[j], OpenOf(c))
       /\ NoMore(toHost'[j], toHost[j], QuitOf(c))
       /\ NoMore(peerLink'[j], peerLink[j], OpenOf(c))
       /\ c \in DOMAIN view'[j].channels => c \in DOMAIN view[j].channels

LEMMA UnconcernedBooked ==
  ASSUME NEW c, Booked(c), Unconcerned(c)
  PROVE  Booked(c)'
<1>1. InUse(c)'
  BY DEF Booked, InUse, Unconcerned, NoMore
<1>2. AskedOnce(c)'
  BY DEF Booked, AskedOnce, Unconcerned, NoMore
<1>3. ToldOnce(c)'
  BY DEF Booked, ToldOnce, Unconcerned, NoMore
<1>4. QuitForGood(c)'
  BY DEF Booked, QuitForGood, Unconcerned, NoMore
<1>5. QED  BY <1>1, <1>2, <1>3, <1>4 DEF Booked

LEMMA NoMoreFacts ==
  /\ \A s, P : NoMore(s, s, P)
  /\ \A V : \A s \in Seq(V), e \in V : \A P : e \notin P => NoMore(Append(s, e), s, P)
  /\ \A V : \A s \in Seq(V) : \A P : s # <<>> => NoMore(Tail(s), s, P)
<1>1. \A s, P : NoMore(s, s, P)
  BY DEF NoMore
<1>2. ASSUME NEW V, NEW s \in Seq(V), NEW e \in V, NEW P, e \notin P
      PROVE  NoMore(Append(s, e), s, P)
  BY <1>2, AppendedHas DEF NoMore
<1>3. ASSUME NEW V, NEW s \in Seq(V), NEW P, s # <<>>
      PROVE  NoMore(Tail(s), s, P)
  BY <1>3, TailHas DEF NoMore
<1>4. QED  BY <1>1, <1>2, <1>3

LEMMA AskedIsAsked ==
  ASSUME NEW s, NEW c
  PROVE  Has(s, OpenOf(c)) \/ Has(s, QuitOf(c)) => Has(s, AskOf(c))
BY DEF Has, OpenOf, QuitOf, AskOf

LEMMA DeliverTells ==
  ASSUME Typed, NEW e \in News, Deliver(e), NEW c, NEW j \in Joiner
  PROVE  /\ e \notin OpenOf(c) => NoMore(peerLink'[j], peerLink[j], OpenOf(c))
         /\ ~Has(peerLink[j], OpenOf(c)) =>
              /\ Once(peerLink'[j], OpenOf(c))
              /\ Has(peerLink'[j], OpenOf(c)) => j \in reply'.to
<1> DEFINE W == Wire
           P == OpenOf(c)
<1>1. peerLink[j] \in Seq(W) /\ e \in W
  BY StreamsTyped DEF Wire
<1>2. PICK s \in Seq(W) : s = peerLink[j]
  BY <1>1
<1>3. peerLink'[j] = IF j \in reply'.to THEN Append(s, e) ELSE s
  BY <1>2 DEF Deliver
<1>4. ~Has(s, P) => Once(s, P)
  BY DEF Has, Once
<1> HIDE DEF W, P
<1>5. /\ e \notin P => NoMore(Append(s, e), s, P)
      /\ Once(s, P) /\ ~Has(s, P) => Once(Append(s, e), P)
  BY <1>1, NoMoreFacts, AppendedHas
<1>6. NoMore(s, s, P)
  BY NoMoreFacts
<1>7. /\ e \notin P => NoMore(peerLink'[j], peerLink[j], P)
      /\ ~Has(peerLink[j], P) => /\ Once(peerLink'[j], P)
                                 /\ Has(peerLink'[j], P) => j \in reply'.to
  BY <1>2, <1>3, <1>4, <1>5, <1>6
<1>8. QED  BY <1>7 DEF P

\* The engine opens what it is asked to open, and tells the others.
LEMMA EngineOpens ==
  ASSUME NEW m, NEW cmd \in Request(m), cmd.type \in Routine, HostExecutes(m, cmd), NEW c
  PROVE  /\ c \in DOMAIN channels' => c \in DOMAIN channels \/ cmd \in OpenOf(c)
         /\ m \notin reply'.to
<1>1. CASE cmd.type = "channel_opened"
  <2>1. OpenChannel(m, cmd.on, cmd.kind, cmd.to, cmd.offer)
    BY <1>1 DEF HostExecutes
  <2>2. DOMAIN channels' = DOMAIN channels \/ DOMAIN channels' = DOMAIN channels \cup {cmd.on}
    BY <2>1 DEF OpenChannel, Refused, room
  <2>3. m \notin reply'.to
    BY <2>1 DEF OpenChannel, Refused, Routed
  <2>4. QED  BY <1>1, <2>2, <2>3 DEF OpenOf, Request
<1>2. CASE cmd.type = "channel_transfer"
  <2>1. UpdateChannelTransfer(m, cmd.on, cmd.offer)
    BY <1>2 DEF HostExecutes
  <2>2. DOMAIN channels' = DOMAIN channels
    BY <2>1 DEF UpdateChannelTransfer, Refused, room
  <2>3. m \notin reply'.to
    BY <2>1 DEF UpdateChannelTransfer, Refused, Routed, Listeners
  <2>4. QED  BY <2>2, <2>3
<1>3. CASE cmd.type = "channel_accepted"
  <2>1. AcceptChannel(m, cmd.on)
    BY <1>3 DEF HostExecutes
  <2>2. channels' = channels
    BY <2>1 DEF AcceptChannel, Refused, room
  <2>3. m \notin reply'.to
    BY <2>1 DEF AcceptChannel, Refused, Routed, Listeners
  <2>4. QED  BY <2>2, <2>3
<1>4. CASE cmd.type \in {"channel_rejected", "channel_closed"}
  <2>1. Quit(cmd.type, m, cmd.on)
    BY <1>4 DEF HostExecutes, RejectChannel, CloseChannel
  <2>2. DOMAIN channels' \subseteq DOMAIN channels
    BY <2>1 DEF Quit, Refused, room, WithoutParticipant
  <2>3. m \notin reply'.to
    BY <2>1 DEF Quit, Refused, Routed, Listeners
  <2>4. QED  BY <2>2, <2>3
<1>5. QED  BY <1>1, <1>2, <1>3, <1>4 DEF Routine

\* Nobody but m has to do with c yet, and m does not ask for it again.
Fresh(m, c) ==
  /\ c \in used' /\ c \notin DOMAIN channels
  /\ \A n \in Joiner :
       /\ ~Has(peerLink[n], OpenOf(c))
       /\ ~Has(toHost'[n], OpenOf(c))
       /\ n # m => c \notin DOMAIN view[n].channels /\ ~Has(toHost[n], AskOf(c))

LEMMA ExecutesBooked ==
  ASSUME Typed, NEW c, Booked(c), NEW m \in MemberId, NEW cmd \in Request(m),
         cmd.type \in Routine, HostExecutes(m, cmd), UNCHANGED view, used \subseteq used',
         \A j \in Joiner : /\ NoMore(toHost'[j], toHost[j], AskOf(c))
                           /\ NoMore(toHost'[j], toHost[j], OpenOf(c))
                           /\ NoMore(toHost'[j], toHost[j], QuitOf(c)),
         cmd \in OpenOf(c) => Fresh(m, c)
  PROVE  Booked(c)'
<1>1. cmd \in News /\ Deliver(cmd)
  BY HostExecutesStep DEF Typed, Request, News
<1>2. CASE cmd \notin OpenOf(c)
  <2>1. \A j \in Joiner : NoMore(peerLink'[j], peerLink[j], OpenOf(c))
    BY <1>1, <1>2, DeliverTells
  <2>2. c \in DOMAIN channels' => c \in DOMAIN channels
    BY <1>2, EngineOpens
  <2>3. Unconcerned(c)
    BY <2>1, <2>2 DEF Unconcerned
  <2>4. QED  BY <2>3, UnconcernedBooked
<1>3. CASE cmd \in OpenOf(c)
  <2>1. Fresh(m, c) /\ m \notin reply'.to
    BY <1>3, EngineOpens
  <2>2. \A j \in Joiner : /\ Once(peerLink'[j], OpenOf(c))
                          /\ Has(peerLink'[j], OpenOf(c)) => j \in reply'.to
    BY <1>1, <2>1, DeliverTells DEF Fresh
  <2>3. InUse(c)'
    BY <2>1 DEF InUse, Fresh
  <2>4. AskedOnce(c)'
    BY <2>1 DEF AskedOnce, Fresh, Booked, NoMore
  <2>5. ToldOnce(c)'
    BY <2>1, <2>2 DEF ToldOnce, Fresh
  <2>6. QuitForGood(c)'
    <3>1. SUFFICES ASSUME NEW j \in Joiner, Has(toHost'[j], QuitOf(c))
                   PROVE  ~Has(peerLink'[j], OpenOf(c)) /\ c \notin DOMAIN view'[j].channels
      BY DEF QuitForGood
    <3>2. Has(toHost[j], QuitOf(c)) /\ Has(toHost[j], AskOf(c))
      BY <3>1, AskedIsAsked DEF NoMore
    <3>3. j = m
      BY <2>1, <3>2 DEF Fresh
    <3>4. QED  BY <2>1, <2>2, <3>2, <3>3 DEF Booked, QuitForGood
  <2>7. QED  BY <2>3, <2>4, <2>5, <2>6 DEF Booked
<1>4. QED  BY <1>2, <1>3

LEMMA ToHostLetters ==
  ASSUME Typed, NEW j \in Joiner
  PROVE  toHost[j] \in Seq(Request(j))
BY DEF Typed, LinksTyped

LEMMA HostCommandsBooked ==
  ASSUME Typed, NEW c, c \notin misused', Booked(c),
         NEW cmd \in Commands(Host), HostCommands(cmd)
  PROVE  Booked(c)'
<1>1. cmd \in Request(Host) /\ cmd.type \in Routine /\ Host \in MemberId
  BY MemberNumbers, CommandsAreRequests
<1>2. HostExecutes(Host, cmd) /\ UNCHANGED <<view, toHost>> /\ Issue(cmd)
  BY DEF HostCommands
<1>3. used \subseteq used'
  BY <1>2 DEF Issue
<1>4. \A j \in Joiner : /\ NoMore(toHost'[j], toHost[j], AskOf(c))
                        /\ NoMore(toHost'[j], toHost[j], OpenOf(c))
                        /\ NoMore(toHost'[j], toHost[j], QuitOf(c))
  BY <1>2, NoMoreFacts
<1>5. cmd \in OpenOf(c) => Fresh(Host, c)
  <2>1. SUFFICES ASSUME cmd.type = "channel_opened", cmd.on = c PROVE Fresh(Host, c)
    BY DEF OpenOf
  <2>2. c \notin used /\ c \in used'
    BY <1>2, <2>1 DEF Issue, Sensible
  <2>3. QED  BY <1>2, <2>2, AskedIsAsked DEF Fresh, Booked, InUse
<1>6. QED  BY <1>1, <1>2, <1>3, <1>4, <1>5, ExecutesBooked

LEMMA HostHandlesCommandBooked ==
  ASSUME Typed, NEW c, Booked(c), NEW j \in Joiner, HostHandlesCommand(j)
  PROVE  Booked(c)'
<1>0. j \in MemberId /\ toHost[j] # <<>> /\ UNCHANGED <<view, used>>
      /\ toHost' = [toHost EXCEPT ![j] = Tail(toHost[j])]
  BY MemberNumbers DEF HostHandlesCommand, history
<1>1. PICK s \in Seq(Request(j)) : s = toHost[j]
  BY ToHostLetters
<1>2. s # <<>> /\ toHost'[j] = Tail(s) /\ \A k \in Joiner : k # j => toHost'[k] = toHost[k]
  <2>1. DOMAIN toHost = Joiner
    BY DEF Typed, LinksTyped
  <2>2. QED  BY <1>0, <1>1, <2>1
<1>3. \A k \in Joiner : /\ NoMore(toHost'[k], toHost[k], AskOf(c))
                        /\ NoMore(toHost'[k], toHost[k], OpenOf(c))
                        /\ NoMore(toHost'[k], toHost[k], QuitOf(c))
  <2>1. \A P : NoMore(Tail(s), s, P)
    BY <1>2, NoMoreFacts
  <2>2. QED  BY <1>1, <1>2, <2>1, NoMoreFacts
<1>4. CASE j \in members /\ Head(s).type = "leave_room"
  <2>1. HostDropsMember(j)
    BY <1>1, <1>4 DEF HostHandlesCommand
  <2>2. PICK e \in News : e = About("member_left", j)
    BY <1>0, AboutTyped DEF Notice
  <2>3. e.type = "member_left" /\ Deliver(e)
    BY <1>0, <2>1, <2>2, AboutTyped DEF HostDropsMember
  <2>4. \A k \in Joiner : NoMore(peerLink'[k], peerLink[k], OpenOf(c))
    BY <2>3, DeliverTells DEF OpenOf
  <2>5. DOMAIN channels' \subseteq DOMAIN channels
    BY <2>1 DEF HostDropsMember, Leave, WithoutMember, Refused, room
  <2>6. Unconcerned(c)
    BY <1>0, <1>3, <2>4, <2>5 DEF Unconcerned
  <2>7. QED  BY <2>6, UnconcernedBooked
<1>5. CASE j \in members /\ Head(s).type # "leave_room"
  <2>1. PICK cmd \in Request(j) : cmd = Head(s)
    BY <1>2, HeadIsTyped
  <2>2. cmd.type \in Routine /\ HostExecutes(j, cmd)
    BY <1>1, <1>5, <2>1 DEF HostHandlesCommand, Request
  <2>3. cmd \in OpenOf(c) => Fresh(j, c)
    <3>1. SUFFICES ASSUME Head(s) \in OpenOf(c) PROVE Fresh(j, c)
      BY <2>1
    <3>2. Has(s, OpenOf(c)) /\ (Once(s, OpenOf(c)) => ~Has(Tail(s), OpenOf(c)))
      BY <1>2, <3>1, TailHas
    <3>3. ~Has(toHost'[j], OpenOf(c)) /\ Has(toHost[j], AskOf(c))
      BY <1>1, <1>2, <3>2, AskedIsAsked DEF Booked, AskedOnce
    <3>4. /\ c \notin DOMAIN channels
          /\ \A n \in Joiner :
               /\ ~Has(peerLink[n], OpenOf(c))
               /\ n # j => c \notin DOMAIN view[n].channels /\ ~Has(toHost[n], AskOf(c))
      BY <1>1, <3>2 DEF Booked, AskedOnce
    <3>5. c \in used'
      BY <1>0, <3>3 DEF Booked, InUse
    <3>6. \A n \in Joiner : ~Has(toHost'[n], OpenOf(c))
      BY <1>2, <3>3, <3>4, AskedIsAsked
    <3>7. QED  BY <3>4, <3>5, <3>6 DEF Fresh
  <2>4. QED  BY <1>0, <1>3, <2>2, <2>3, ExecutesBooked
<1>6. CASE j \notin members
  <2>1. UNCHANGED <<channels, peerLink>>
    BY <1>6 DEF HostHandlesCommand, room
  <2>2. Unconcerned(c)
    BY <1>0, <1>3, <2>1, NoMoreFacts DEF Unconcerned
  <2>3. QED  BY <2>2, UnconcernedBooked
<1>7. QED  BY <1>4, <1>5, <1>6

\* What a joiner does at once with its own command, to that channel and to others.
LEMMA OptimisticAt ==
  ASSUME NEW v \in Copy, NEW j, NEW cmd \in News, cmd.type \in Routine, NEW c
  PROVE  /\ c # cmd.on => SameAt(v, Optimistic(v, j, cmd), c)
         /\ cmd.type \in {"channel_rejected", "channel_closed"} =>
              cmd.on \notin DOMAIN Optimistic(v, j, cmd).channels
         /\ cmd.type = "channel_accepted" => Optimistic(v, j, cmd) = v
         /\ cmd.type \in {"channel_opened", "channel_transfer"} =>
              Optimistic(v, j, cmd) = Apply(v, j, cmd)
<1>1. CASE cmd.type \in {"channel_rejected", "channel_closed"}
  <2>1. Optimistic(v, j, cmd) = [v EXCEPT !.channels = Drop(v.channels, cmd.on)]
    BY <1>1 DEF Optimistic
  <2>2. Optimistic(v, j, cmd).channels = Drop(v.channels, cmd.on)
    BY <2>1, WithChannels
  <2>3. QED  BY <1>1, <2>2 DEF SameAt, Drop
<1>2. CASE cmd.type \in {"channel_opened", "channel_transfer"}
  <2>1. Optimistic(v, j, cmd) = Apply(v, j, cmd)
    BY <1>2 DEF Optimistic
  <2>2. c # cmd.on => SameAt(v, Apply(v, j, cmd), c)
    BY <1>2, ApplyOpenedAt, ApplyTransferAt
  <2>3. QED  BY <1>2, <2>1, <2>2
<1>3. CASE cmd.type = "channel_accepted"
  <2>1. Optimistic(v, j, cmd) = v
    BY <1>3 DEF Optimistic
  <2>2. QED  BY <1>3, <2>1 DEF SameAt
<1>4. QED  BY <1>1, <1>2, <1>3 DEF Routine

LEMMA JoinerCommandsBooked ==
  ASSUME Typed, NEW c, c \notin misused', Booked(c),
         NEW j \in Joiner, NEW cmd \in Commands(j), JoinerCommands(j, cmd)
  PROVE  Booked(c)'
<1>1. cmd \in Request(j) /\ cmd \in News /\ cmd.type \in Routine /\ cmd.by = j
  BY MemberNumbers, CommandsAreRequests DEF Request
<1>2. /\ UNCHANGED <<channels, peerLink>> /\ used \subseteq used'
      /\ cmd.on = c /\ cmd.type = "channel_opened" => cmd.on \notin used /\ cmd.on \in used'
      /\ cmd.on = c /\ cmd.type # "channel_opened" => cmd.on \in DOMAIN view[j].channels
  BY <1>1 DEF JoinerCommands, Issue, Sensible, room
<1>3. PICK s \in Seq(Request(j)) : s = toHost[j]
  BY ToHostLetters
<1>4. PICK v \in Copy : v = view[j]
  BY DEF Typed, CopiesTyped
<1>5. PICK w \in Copy : w = Optimistic(v, j, cmd)
  BY <1>1, OptimisticTyped
<1>6. /\ toHost'[j] = Append(s, cmd) /\ view'[j] = w
      /\ \A k \in Joiner : k # j => toHost'[k] = toHost[k] /\ view'[k] = view[k]
  <2>1. DOMAIN toHost = Joiner /\ DOMAIN view = Joiner
    BY DEF Typed, LinksTyped, CopiesTyped
  <2>2. QED  BY <1>3, <1>4, <1>5, <2>1 DEF JoinerCommands
<1>7. \A P : /\ cmd \notin P => NoMore(Append(s, cmd), s, P)
             /\ Has(Append(s, cmd), P) <=> Has(s, P) \/ cmd \in P
             /\ Once(s, P) /\ (cmd \in P => ~Has(s, P)) => Once(Append(s, cmd), P)
  BY <1>1, NoMoreFacts, AppendedHas
<1>8. CASE cmd.on # c
  <2>1. cmd \notin AskOf(c) /\ cmd \notin OpenOf(c) /\ cmd \notin QuitOf(c)
    BY <1>8 DEF AskOf, OpenOf, QuitOf
  <2>2. \A k \in Joiner : /\ NoMore(toHost'[k], toHost[k], AskOf(c))
                          /\ NoMore(toHost'[k], toHost[k], OpenOf(c))
                          /\ NoMore(toHost'[k], toHost[k], QuitOf(c))
    BY <1>3, <1>6, <1>7, <2>1, NoMoreFacts
  <2>3. SameAt(v, w, c)
    BY <1>1, <1>5, <1>8, OptimisticAt
  <2>4. \A k \in Joiner : c \in DOMAIN view'[k].channels => c \in DOMAIN view[k].channels
    BY <1>4, <1>6, <2>3 DEF SameAt
  <2>5. Unconcerned(c)
    BY <1>2, <2>2, <2>4, NoMoreFacts DEF Unconcerned
  <2>6. QED  BY <2>5, UnconcernedBooked
<1>9. CASE cmd.on = c /\ cmd.type = "channel_opened"
  <2>1. /\ c \notin DOMAIN channels /\ c \in used'
        /\ \A k \in Joiner : /\ ~Has(toHost[k], AskOf(c)) /\ ~Has(peerLink[k], OpenOf(c))
                             /\ ~Has(toHost[k], OpenOf(c)) /\ ~Has(toHost[k], QuitOf(c))
                             /\ c \notin DOMAIN view[k].channels
    BY <1>2, <1>9, AskedIsAsked DEF Booked, InUse
  <2>2. Once(toHost'[j], OpenOf(c)) /\ ~Has(toHost'[j], QuitOf(c))
    <3>1. cmd \notin QuitOf(c)
      BY <1>9 DEF QuitOf
    <3>2. QED  BY <1>3, <1>6, <1>7, <2>1, <3>1 DEF Booked, AskedOnce
  <2>3. InUse(c)'
    BY <2>1 DEF InUse
  <2>4. AskedOnce(c)'
    BY <1>2, <1>6, <2>1, <2>2 DEF AskedOnce, Booked
  <2>5. ToldOnce(c)'
    BY <1>2, <2>1 DEF ToldOnce, Booked
  <2>6. QuitForGood(c)'
    BY <1>2, <1>6, <2>1, <2>2 DEF QuitForGood
  <2>7. QED  BY <2>3, <2>4, <2>5, <2>6 DEF Booked
<1>10. CASE cmd.on = c /\ cmd.type # "channel_opened"
  <2>1. /\ c \in DOMAIN v.channels /\ c \in used
        /\ ~Has(peerLink[j], OpenOf(c))
        /\ \A m \in Joiner : m # j => ~Has(toHost[m], OpenOf(c))
    BY <1>2, <1>4, <1>10 DEF Booked, InUse, ToldOnce, AskedOnce
  <2>2. NoMore(toHost'[j], toHost[j], OpenOf(c))
    <3>1. cmd \notin OpenOf(c)
      BY <1>10 DEF OpenOf
    <3>2. QED  BY <1>3, <1>6, <1>7, <3>1
  <2>3. InUse(c)'
    BY <1>2, <2>1 DEF InUse
  <2>4. AskedOnce(c)'
    BY <1>2, <1>6, <2>1, <2>2 DEF AskedOnce, Booked, NoMore
  <2>5. ToldOnce(c)'
    BY <1>2, <1>6, <2>1 DEF ToldOnce, Booked
  <2>6. QuitForGood(c)'
    <3>1. SUFFICES ASSUME NEW k \in Joiner, Has(toHost'[k], QuitOf(c))
                   PROVE  ~Has(peerLink[k], OpenOf(c)) /\ c \notin DOMAIN view'[k].channels
      BY <1>2 DEF QuitForGood
    <3>2. CASE k # j
      BY <1>6, <3>1, <3>2 DEF Booked, QuitForGood
    <3>3. CASE k = j /\ cmd.type \in {"channel_rejected", "channel_closed"}
      <4>1. c \notin DOMAIN w.channels
        BY <1>1, <1>5, <1>10, <3>3, OptimisticAt
      <4>2. QED  BY <1>6, <2>1, <3>3, <4>1
    <3>4. CASE k = j /\ cmd.type \notin {"channel_rejected", "channel_closed"}
      <4>1. Has(s, QuitOf(c))
        BY <1>6, <1>7, <3>1, <3>4 DEF QuitOf
      <4>2. c \notin DOMAIN v.channels
        BY <1>3, <1>4, <4>1 DEF Booked, QuitForGood
      <4>3. QED  BY <2>1, <4>2
    <3>5. QED  BY <3>2, <3>3, <3>4
  <2>7. QED  BY <2>3, <2>4, <2>5, <2>6 DEF Booked
<1>11. QED  BY <1>8, <1>9, <1>10

LEMMA JoinerReadsPeerLinkBooked ==
  ASSUME Typed, NEW c, Booked(c), NEW j \in Joiner, JoinerReadsPeerLink(j)
  PROVE  Booked(c)'
<1>1. PICK s \in Seq(News) : s = peerLink[j]
  BY DEF Typed, LinksTyped
<1>2. /\ s # <<>> /\ peerLink'[j] = Tail(s) /\ UNCHANGED <<channels, toHost, used>>
      /\ \A k \in Joiner : k # j => peerLink'[k] = peerLink[k] /\ view'[k] = view[k]
  <2>1. DOMAIN peerLink = Joiner /\ DOMAIN view = Joiner
    BY DEF Typed, LinksTyped, CopiesTyped
  <2>2. QED  BY <1>1, <2>1 DEF JoinerReadsPeerLink, room
<1>3. PICK e \in News : e = Head(s)
  BY <1>2, HeadIsTyped
<1>4. PICK v \in Copy : v = view[j]
  BY DEF Typed, CopiesTyped
<1>5. view'[j] = Apply(v, j, e)
  <2>1. view' = [view EXCEPT ![j] = Apply(view[j], j, e)] /\ DOMAIN view = Joiner
    BY <1>1, <1>3 DEF JoinerReadsPeerLink, Typed, CopiesTyped
  <2>2. QED  BY <1>4, <2>1
<1>6. \A P : NoMore(Tail(s), s, P)
  BY <1>2, NoMoreFacts
<1>7. CASE e \notin OpenOf(c)
  <2>1. c \in DOMAIN Apply(v, j, e).channels => c \in DOMAIN v.channels
    BY <1>7, ApplyDomain DEF Wire
  <2>2. \A k \in Joiner : /\ NoMore(peerLink'[k], peerLink[k], OpenOf(c))
                          /\ c \in DOMAIN view'[k].channels => c \in DOMAIN view[k].channels
    BY <1>1, <1>2, <1>4, <1>5, <1>6, <2>1, NoMoreFacts
  <2>3. Unconcerned(c)
    BY <1>2, <2>2, NoMoreFacts DEF Unconcerned
  <2>4. QED  BY <2>3, UnconcernedBooked
<1>8. CASE e \in OpenOf(c)
  <2>1. Has(s, OpenOf(c)) /\ (Once(s, OpenOf(c)) => ~Has(Tail(s), OpenOf(c)))
    BY <1>2, <1>3, <1>8, TailHas
  <2>2. /\ Has(peerLink[j], OpenOf(c)) /\ ~Has(peerLink'[j], OpenOf(c))
        /\ Once(peerLink'[j], OpenOf(c))
    BY <1>1, <1>2, <1>6, <2>1 DEF Booked, ToldOnce, NoMore
  <2>3. c \in used /\ (\A m \in Joiner : ~Has(toHost[m], OpenOf(c)))
        /\ ~Has(toHost[j], QuitOf(c))
    BY <2>2 DEF Booked, InUse, AskedOnce, QuitForGood
  <2>4. InUse(c)'
    BY <1>2, <2>3 DEF InUse
  <2>5. AskedOnce(c)'
    BY <1>2, <2>3 DEF AskedOnce, Booked
  <2>6. ToldOnce(c)'
    BY <1>2, <2>2 DEF ToldOnce, Booked
  <2>7. QuitForGood(c)'
    BY <1>2, <2>3 DEF QuitForGood, Booked
  <2>8. QED  BY <2>4, <2>5, <2>6, <2>7 DEF Booked
<1>9. QED  BY <1>7, <1>8

LEMMA JoinerReadsAuthorityBooked ==
  ASSUME Typed, NEW c, Booked(c), NEW j \in Joiner, JoinerReadsAuthority(j)
  PROVE  Booked(c)'
<1>1. PICK s \in Seq(Guidance) : s = authority[j]
  BY DEF Typed, LinksTyped
<1>2. /\ s # <<>> /\ UNCHANGED <<channels, toHost, peerLink, used>>
      /\ \A k \in Joiner : k # j => view'[k] = view[k]
  BY <1>1 DEF JoinerReadsAuthority, room, history, Typed, CopiesTyped
<1>3. PICK e \in Guidance : e = Head(s)
  BY <1>2, HeadIsTyped
<1>4. PICK v \in Copy : v = view[j]
  BY DEF Typed, CopiesTyped
<1>5. view'[j] = Apply(v, j, e)
  <2>1. view' = [view EXCEPT ![j] = Apply(view[j], j, e)] /\ DOMAIN view = Joiner
    BY <1>1, <1>3 DEF JoinerReadsAuthority, Typed, CopiesTyped
  <2>2. QED  BY <1>4, <2>1
<1>6. c \in DOMAIN Apply(v, j, e).channels => c \in DOMAIN v.channels
  <2>1. e \in Wire /\ e \notin OpenOf(c)
    BY <1>3 DEF Wire, OpenOf, Guidance, Advice
  <2>2. QED  BY <2>1, ApplyDomain
<1>7. Unconcerned(c)
  BY <1>2, <1>4, <1>5, <1>6, NoMoreFacts DEF Unconcerned
<1>8. QED  BY <1>7, UnconcernedBooked

\* Comings and goings open nothing.
LEMMA RoomNewsBooked ==
  ASSUME Typed, NEW c, Booked(c), NEW e \in News, e.type \in Notice, Deliver(e),
         UNCHANGED <<toHost, view, used>>, DOMAIN channels' \subseteq DOMAIN channels
  PROVE  Booked(c)'
<1>1. \A k \in Joiner : NoMore(peerLink'[k], peerLink[k], OpenOf(c))
  BY DeliverTells DEF OpenOf, Notice
<1>2. Unconcerned(c)
  BY <1>1, NoMoreFacts DEF Unconcerned
<1>3. QED  BY <1>2, UnconcernedBooked

LEMMA BookedInit ==
  ASSUME ReplicaInit, NEW c
  PROVE  Booked(c)
<1>1. \A P : ~Has(<<>>, P) /\ Once(<<>>, P)
  BY DEF Has, Once
<1>2. /\ channels = [d \in {} |-> NoChannel] /\ \A j \in Joiner : view[j] = NewView
      /\ \A j \in Joiner : toHost[j] = <<>> /\ peerLink[j] = <<>>
  BY DEF ReplicaInit, Init
<1>3. InUse(c)
  BY <1>1, <1>2, NewViewTyped DEF InUse
<1>4. AskedOnce(c) /\ ToldOnce(c) /\ QuitForGood(c)
  BY <1>1, <1>2 DEF AskedOnce, ToldOnce, QuitForGood
<1>5. QED  BY <1>3, <1>4 DEF Booked

LEMMA BookedNext ==
  ASSUME Typed, NEW c \in ChannelId, c \notin misused', Booked(c),
         [ReplicaNext]_replicaVars
  PROVE  Booked(c)'
<1>1. CASE HostAccepts
  <2>1. PICK n \in MemberId : n = nextMemberIndex
    BY <1>1, NewcomerTyped, MemberNumbers DEF Typed, HostAccepts
  <2>2. PICK e \in News : e = About("member_joined", n)
    BY AboutTyped DEF Notice
  <2>3. e.type \in Notice /\ Deliver(e)
    BY <1>1, <2>1, <2>2, AboutTyped DEF HostAccepts, Notice
  <2>4. UNCHANGED <<toHost, view, used, channels>>
    BY <1>1 DEF HostAccepts, Join, history
  <2>5. QED  BY <2>3, <2>4, RoomNewsBooked
<1>2. CASE HostLeaves
  <2>1. UNCHANGED <<channels, used, toHost, peerLink, view>>
    BY <1>2 DEF HostLeaves, room, history
  <2>2. Unconcerned(c)
    BY <2>1, NoMoreFacts DEF Unconcerned
  <2>3. QED  BY <2>2, UnconcernedBooked
<1>3. ASSUME NEW cmd \in Commands(Host), HostCommands(cmd) PROVE Booked(c)'
  BY <1>3, HostCommandsBooked
<1>4. ASSUME NEW j \in Joiner, HostHandlesCommand(j) PROVE Booked(c)'
  BY <1>4, HostHandlesCommandBooked
<1>5. ASSUME NEW j \in Joiner, HostSeesDisconnect(j) PROVE Booked(c)'
  <2>1. HostDropsMember(j) /\ UNCHANGED <<toHost, view, used>>
    BY <1>5 DEF HostSeesDisconnect, history
  <2>2. PICK e \in News : e = About("member_left", j)
    BY MemberNumbers, AboutTyped DEF Notice
  <2>3. e.type \in Notice /\ Deliver(e)
    BY <2>1, <2>2, MemberNumbers, AboutTyped DEF HostDropsMember, Notice
  <2>4. DOMAIN channels' \subseteq DOMAIN channels
    BY <2>1 DEF HostDropsMember, Leave, WithoutMember, Refused, room
  <2>5. QED  BY <2>1, <2>3, <2>4, RoomNewsBooked
<1>6. ASSUME NEW j \in Joiner, NEW cmd \in Commands(j), JoinerCommands(j, cmd)
      PROVE  Booked(c)'
  BY <1>6, JoinerCommandsBooked
<1>7. ASSUME NEW j \in Joiner, JoinerLeaves(j) PROVE Booked(c)'
  <2>1. PICK e \in Request(j) : e = About("leave_room", j)
    BY MemberNumbers, AboutTyped
  <2>2. e \notin AskOf(c) /\ e \notin OpenOf(c) /\ e \notin QuitOf(c)
    <3>1. e.type = "leave_room" /\ e.on = NoChannel
      BY <2>1, MemberNumbers, AboutTyped
    <3>2. c # NoChannel
      BY NoChannelAssumption
    <3>3. QED  BY <3>1, <3>2 DEF AskOf, OpenOf, QuitOf
  <2>3. PICK s \in Seq(Request(j)) : s = toHost[j]
    BY ToHostLetters
  <2>4. toHost'[j] = Append(s, e) /\ \A k \in Joiner : k # j => toHost'[k] = toHost[k]
    <3>1. DOMAIN toHost = Joiner
      BY DEF Typed, LinksTyped
    <3>2. QED  BY <1>7, <2>1, <2>3, <3>1 DEF JoinerLeaves
  <2>5. \A k \in Joiner : /\ NoMore(toHost'[k], toHost[k], AskOf(c))
                          /\ NoMore(toHost'[k], toHost[k], OpenOf(c))
                          /\ NoMore(toHost'[k], toHost[k], QuitOf(c))
    <3>1. \A P : e \notin P => NoMore(Append(s, e), s, P)
      BY NoMoreFacts
    <3>2. QED  BY <2>2, <2>3, <2>4, <3>1, NoMoreFacts
  <2>6. UNCHANGED <<channels, used, peerLink, view>>
    BY <1>7 DEF JoinerLeaves, room, history
  <2>7. Unconcerned(c)
    BY <2>5, <2>6, NoMoreFacts DEF Unconcerned
  <2>8. QED  BY <2>7, UnconcernedBooked
<1>8. ASSUME NEW j \in Joiner, JoinerExits(j) PROVE Booked(c)'
  <2>1. UNCHANGED <<channels, used, toHost, peerLink, view>>
    BY <1>8 DEF JoinerExits, room, history
  <2>2. Unconcerned(c)
    BY <2>1, NoMoreFacts DEF Unconcerned
  <2>3. QED  BY <2>2, UnconcernedBooked
<1>9. ASSUME NEW j \in Joiner, JoinerReadsAuthority(j) PROVE Booked(c)'
  BY <1>9, JoinerReadsAuthorityBooked
<1>10. ASSUME NEW j \in Joiner, JoinerReadsPeerLink(j) PROVE Booked(c)'
  BY <1>10, JoinerReadsPeerLinkBooked
<1>11. ASSUME NEW j \in Joiner, NEW m \in MemberId, JoinerMeetsPeer(j, m) PROVE Booked(c)'
  <2>1. UNCHANGED <<channels, used, toHost, peerLink>>
    BY <1>11 DEF JoinerMeetsPeer, room
  <2>2. \A k \in Joiner : view'[k].channels = view[k].channels
    BY <1>11, MeetingIs
  <2>3. Unconcerned(c)
    BY <2>1, <2>2, NoMoreFacts DEF Unconcerned
  <2>4. QED  BY <2>3, UnconcernedBooked
<1>12. CASE UNCHANGED replicaVars
  <2>1. UNCHANGED <<channels, used, toHost, peerLink, view>>
    BY <1>12 DEF replicaVars, room, linkVars, history
  <2>2. Unconcerned(c)
    BY <2>1, NoMoreFacts DEF Unconcerned
  <2>3. QED  BY <2>2, UnconcernedBooked
<1>13. QED
  BY <1>1, <1>2, <1>3, <1>4, <1>5, <1>6, <1>7, <1>8, <1>9, <1>10, <1>11, <1>12
  DEF ReplicaNext

-----------------------------------------------------------------------------
(* The host keeps its joiners informed of the channels.                    *)

\* What v, the copy j would have, holds of c is the engine's channel.
Matches(j, c, v) ==
  /\ (/\ c \in DOMAIN channels
      /\ channels[c].opener # j
      /\ j \in channels[c].participants
      /\ ~Quitting(j, c)) => c \in DOMAIN v.channels /\ v.channels[c] = channels[c]
  /\ (c \in DOMAIN v.channels /\ v.channels[c].opener # j) =>
       /\ c \in DOMAIN channels
       /\ v.channels[c] = channels[c]
       /\ j \in channels[c].participants
Ordered(j) == Present(j) /\ j \notin ahead
Matching(c) == \A j \in Joiner : Ordered(j) => Matches(j, c, Caught(j))

LEMMA OrderedIsHeeded ==
  ASSUME Typed, NEW j, Ordered(j)
  PROVE  Heeded(j)
BY DEF Typed, CountersTyped, Ordered, Heeded

\* The engine's channel c stays as it is.
EngineSameAt(c) ==
  /\ c \in DOMAIN channels' <=> c \in DOMAIN channels
  /\ c \in DOMAIN channels => channels'[c] = channels[c]

LEMMA MatchesQuietly ==
  ASSUME NEW j, NEW c, NEW v, NEW w, Matches(j, c, v), SameAt(v, w, c), EngineSameAt(c),
         Quitting(j, c) => Quitting(j, c)'
  PROVE  Matches(j, c, w)'
BY DEF Matches, SameAt, EngineSameAt

LEMMA ApplyElsewhere ==
  ASSUME NEW v \in Copy, NEW j, NEW e, e.type \in Routine, NEW c, e.on # c
  PROVE  SameAt(v, Apply(v, j, e), c)
<1>1. CASE e.type = "channel_accepted"
  <2>1. Apply(v, j, e) = v
    BY <1>1 DEF Apply
  <2>2. QED  BY <2>1 DEF SameAt
<1>2. CASE e.type # "channel_accepted"
  BY <1>2, ApplyOpenedAt, ApplyTransferAt, ApplyQuitAt DEF Routine
<1>3. QED  BY <1>1, <1>2

LEMMA EngineElsewhere ==
  ASSUME IInv, NEW m, NEW cmd, cmd.type \in Routine, HostExecutes(m, cmd), NEW c, cmd.on # c
  PROVE  EngineSameAt(c)
<1>1. CASE cmd.type = "channel_opened"
  <2>1. OpenChannel(m, cmd.on, cmd.kind, cmd.to, cmd.offer)
    BY <1>1 DEF HostExecutes
  <2>2. QED  BY <2>1 DEF OpenChannel, Refused, room, EngineSameAt
<1>2. CASE cmd.type = "channel_transfer"
  <2>1. UpdateChannelTransfer(m, cmd.on, cmd.offer)
    BY <1>2 DEF HostExecutes
  <2>2. QED  BY <2>1 DEF UpdateChannelTransfer, Refused, room, EngineSameAt, IInv, TypeOK
<1>3. CASE cmd.type = "channel_accepted"
  <2>1. AcceptChannel(m, cmd.on)
    BY <1>3 DEF HostExecutes
  <2>2. QED  BY <2>1 DEF AcceptChannel, Refused, room, EngineSameAt
<1>4. CASE cmd.type \in {"channel_rejected", "channel_closed"}
  <2>1. Quit(cmd.type, m, cmd.on)
    BY <1>4 DEF HostExecutes, RejectChannel, CloseChannel
  <2>2. QED
    BY <2>1 DEF Quit, Refused, room, WithoutParticipant, EngineSameAt, IInv, TypeOK
<1>5. QED  BY <1>1, <1>2, <1>3, <1>4 DEF Routine

LEMMA OpenMatches ==
  ASSUME Typed, NEW m \in MemberId, NEW cmd \in Request(m), cmd.type = "channel_opened",
         HostExecutes(m, cmd), NEW j \in Joiner, j \in members, NEW v \in Copy,
         v.members = members, NEW c, c = cmd.on, Matches(j, c, v), NEW w,
         w = IF j \in reply'.to THEN Apply(v, j, cmd) ELSE v,
         Quitting(j, c) => Quitting(j, c)'
  PROVE  Matches(j, c, w)'
<1>1. OpenChannel(m, c, cmd.kind, cmd.to, cmd.offer) /\ cmd.by = m
  BY DEF HostExecutes, Request
<1> DEFINE Allowed == /\ m \in members
                      /\ c \notin DOMAIN channels
                      /\ cmd.to = All \/ cmd.to \in members
                      /\ ValidOffer(cmd.kind, cmd.offer)
<1>2. CASE ~Allowed
  <2>1. channels' = channels /\ reply'.to = {}
    BY <1>1, <1>2 DEF OpenChannel, Refused, room
  <2>2. w = v /\ SameAt(v, v, c) /\ EngineSameAt(c)
    BY <2>1 DEF SameAt, EngineSameAt
  <2>3. QED  BY <2>2, MatchesQuietly
<1>3. CASE Allowed
  <2> DEFINE ps == Audience(m, cmd.to)
             new == [opener |-> m, kind |-> cmd.kind, participants |-> ps,
                     transfer |-> cmd.offer]
  <2>1. /\ c \in DOMAIN channels' /\ channels'[c] = new
        /\ reply'.to = ps \ {m} /\ c \notin DOMAIN channels
    BY <1>1, <1>3 DEF OpenChannel, Routed
  <2>2. CASE j \in reply'.to
    <3>1. Hears(v, cmd) /\ Opened(v, cmd) = new /\ new.opener = m /\ new.participants = ps
      BY <1>1, <1>3 DEF Hears, Known, Opened, ViewAudience, Audience
    <3>2. c \in DOMAIN w.channels /\ w.channels[c] = Opened(v, cmd)
      BY <2>2, <3>1, ApplyOpenedAt
    <3> HIDE DEF new, ps
    <3>3. j \in ps
      BY <2>1, <2>2
    <3>4. QED  BY <2>1, <3>1, <3>2, <3>3 DEF Matches
  <2>3. CASE j \notin reply'.to
    <3>1. w = v /\ new.opener = m /\ new.participants = ps /\ (j = m \/ j \notin ps)
      BY <2>1, <2>3
    <3> HIDE DEF new, ps
    <3>2. QED  BY <2>1, <3>1 DEF Matches
  <2>4. QED  BY <2>2, <2>3
<1>4. QED  BY <1>2, <1>3

LEMMA TransferMatches ==
  ASSUME Typed, NEW m \in MemberId, NEW cmd \in Request(m), cmd.type = "channel_transfer",
         HostExecutes(m, cmd), NEW j \in Joiner, j \in members, NEW v \in Copy,
         NEW c, c = cmd.on, Matches(j, c, v), NEW w,
         w = IF j \in reply'.to THEN Apply(v, j, cmd) ELSE v,
         Quitting(j, c) => Quitting(j, c)'
  PROVE  Matches(j, c, w)'
<1>1. UpdateChannelTransfer(m, c, cmd.offer)
  BY DEF HostExecutes
<1> DEFINE Allowed == /\ m \in members
                      /\ c \in DOMAIN channels
                      /\ channels[c].opener = m
                      /\ channels[c].kind = "file"
<1>2. CASE ~Allowed
  <2>1. channels' = channels /\ reply'.to = {}
    BY <1>1, <1>2 DEF UpdateChannelTransfer, Refused, room
  <2>2. w = v /\ SameAt(v, v, c) /\ EngineSameAt(c)
    BY <2>1 DEF SameAt, EngineSameAt
  <2>3. QED  BY <2>2, MatchesQuietly
<1>3. CASE Allowed
  <2>1. PICK ch \in Channel : ch = channels[c]
    BY <1>3 DEF Typed, IInv, TypeOK
  <2>2. /\ c \in DOMAIN channels' /\ channels'[c] = Told(ch, cmd.offer)
        /\ reply'.to = Listeners(m, c)
    BY <1>1, <1>3, <2>1 DEF UpdateChannelTransfer, Routed, Told, Typed, IInv, TypeOK
  <2>3. /\ Told(ch, cmd.offer).opener = ch.opener
        /\ Told(ch, cmd.offer).participants = ch.participants
    BY <2>1, ChannelParts
  <2>4. j \in reply'.to <=> j \in ch.participants /\ j # m
    BY <2>1, <2>2 DEF Listeners
  <2>5. CASE j \in reply'.to
    <3>1. /\ c \in DOMAIN w.channels <=> c \in DOMAIN v.channels
          /\ c \in DOMAIN v.channels => w.channels[c] = Told(v.channels[c], cmd.offer)
      BY <2>5, ApplyTransferAt
    <3>2. c \in DOMAIN v.channels =>
            Told(v.channels[c], cmd.offer).opener = v.channels[c].opener
      BY CopyFacts, ChannelParts
    <3>3. QED  BY <1>3, <2>1, <2>2, <2>3, <2>4, <2>5, <3>1, <3>2 DEF Matches
  <2>6. CASE j \notin reply'.to
    BY <1>3, <2>1, <2>2, <2>3, <2>4, <2>6 DEF Matches
  <2>7. QED  BY <2>5, <2>6
<1>4. QED  BY <1>2, <1>3

LEMMA QuitMatches ==
  ASSUME Typed, NEW m \in MemberId, NEW cmd \in Request(m),
         cmd.type \in {"channel_rejected", "channel_closed"},
         HostExecutes(m, cmd), NEW j \in Joiner, j \in members, NEW v \in Copy, v.self,
         NEW c, c = cmd.on, Matches(j, c, v), NEW w,
         w = IF j \in reply'.to THEN Apply(v, j, cmd) ELSE v,
         j = m => c \notin DOMAIN v.channels,
         Quitting(j, c) => Quitting(j, c)' \/ j = m
  PROVE  Matches(j, c, w)'
<1>1. Quit(cmd.type, m, c) /\ cmd.by = m
  BY DEF HostExecutes, RejectChannel, CloseChannel, Request
<1>2. CASE ~MayUse(m, c)
  <2>1. channels' = channels /\ reply'.to = {}
    BY <1>1, <1>2 DEF Quit, Refused, room
  <2>2. CASE j = m
    BY <1>2, <2>1, <2>2 DEF MayUse, Matches
  <2>3. CASE j # m
    <3>1. w = v /\ SameAt(v, v, c) /\ EngineSameAt(c)
      BY <2>1 DEF SameAt, EngineSameAt
    <3>2. QED  BY <2>3, <3>1, MatchesQuietly
  <2>4. QED  BY <2>2, <2>3
<1>3. CASE MayUse(m, c)
  <2>1. PICK ch \in Channel : ch = channels[c]
    BY <1>3 DEF MayUse, Typed, IInv, TypeOK
  <2> DEFINE rest == ch.participants \ {m}
  <2>2. /\ c \in DOMAIN channels /\ m \in ch.participants
        /\ channels' = WithoutParticipant(c, m) /\ reply'.to = Listeners(m, c)
    BY <1>1, <1>3, <2>1 DEF MayUse, Quit, Routed
  <2>3. /\ c \in DOMAIN channels' <=> HasCompany(rest)
        /\ c \in DOMAIN channels' => channels'[c] = Without(ch, m)
    BY <2>1, <2>2 DEF WithoutParticipant, Without, Typed, IInv, TypeOK
  <2>4. Without(ch, m).opener = ch.opener /\ Without(ch, m).participants = rest
    BY <2>1, ChannelParts
  <2>5. j \in reply'.to <=> j \in ch.participants /\ j # m
    BY <2>1, <2>2 DEF Listeners
  <2>6. CASE j \in reply'.to
    <3>1. /\ c \in DOMAIN w.channels <=> c \in DOMAIN v.channels /\ Stays(v, j, c, m)
          /\ c \in DOMAIN w.channels => w.channels[c] = Without(v.channels[c], m)
      BY <1>1, <2>6, ApplyQuitAt
    <3>2. c \in DOMAIN v.channels => Without(v.channels[c], m).opener = v.channels[c].opener
      BY CopyFacts, ChannelParts
    <3>3. c \in DOMAIN v.channels /\ v.channels[c] = ch
            => (Stays(v, j, c, m) <=> HasCompany(rest) /\ j \in rest)
      BY DEF Stays, Keeps
    <3>4. j \in rest /\ j # m
      BY <2>5, <2>6
    <3> HIDE DEF rest
    <3>5. QED  BY <2>1, <2>2, <2>3, <2>4, <2>5, <2>6, <3>1, <3>2, <3>3, <3>4 DEF Matches
  <2>7. CASE j \notin reply'.to
    BY <2>1, <2>2, <2>3, <2>4, <2>5, <2>7 DEF Matches
  <2>8. QED  BY <2>6, <2>7
<1>4. QED  BY <1>2, <1>3

LEMMA ExecutesMatch ==
  ASSUME Typed, NEW m \in MemberId, NEW cmd \in Request(m), cmd.type \in Routine,
         HostExecutes(m, cmd), NEW j \in Joiner, j \in members, NEW v \in Copy,
         v.members = members, v.self, NEW c, Matches(j, c, v), NEW w,
         w = IF j \in reply'.to THEN Apply(v, j, cmd) ELSE v,
         j = m /\ cmd \in QuitOf(c) => c \notin DOMAIN v.channels,
         Quitting(j, c) => Quitting(j, c)' \/ (j = m /\ cmd \in QuitOf(c))
  PROVE  Matches(j, c, w)'
<1>0. IInv /\ cmd \in Letter
  BY DEF Typed, Request
<1>1. CASE cmd.on # c
  <2>1. EngineSameAt(c)
    BY <1>0, <1>1, EngineElsewhere
  <2>2. SameAt(v, Apply(v, j, cmd), c) /\ SameAt(v, v, c)
    BY <1>1, ApplyElsewhere DEF SameAt
  <2>3. SameAt(v, w, c)
    BY <2>2
  <2>4. Quitting(j, c) => Quitting(j, c)'
    BY <1>1 DEF QuitOf
  <2>5. QED  BY <2>1, <2>3, <2>4, MatchesQuietly
<1>2. CASE cmd.on = c /\ cmd.type = "channel_accepted"
  <2>1. AcceptChannel(m, cmd.on)
    BY <1>2 DEF HostExecutes
  <2>2. EngineSameAt(c)
    BY <2>1 DEF AcceptChannel, Refused, room, EngineSameAt
  <2>3. Apply(v, j, cmd) = v
    BY <1>2 DEF Apply
  <2>4. SameAt(v, w, c)
    BY <2>3 DEF SameAt
  <2>5. Quitting(j, c) => Quitting(j, c)'
    BY <1>2 DEF QuitOf
  <2>6. QED  BY <2>2, <2>4, <2>5, MatchesQuietly
<1>3. CASE cmd.on = c /\ cmd.type \in {"channel_opened", "channel_transfer"}
  <2>1. Quitting(j, c) => Quitting(j, c)'
    BY <1>3 DEF QuitOf
  <2>2. CASE cmd.type = "channel_opened"
    BY <1>3, <2>1, <2>2, OpenMatches
  <2>3. CASE cmd.type = "channel_transfer"
    BY <1>3, <2>1, <2>3, TransferMatches
  <2>4. QED  BY <1>3, <2>2, <2>3
<1>4. CASE cmd.on = c /\ cmd.type \in {"channel_rejected", "channel_closed"}
  <2>1. cmd \in QuitOf(c)
    BY <1>0, <1>4 DEF QuitOf
  <2>2. QED  BY <1>4, <2>1, QuitMatches
<1>5. QED  BY <1>1, <1>2, <1>3, <1>4 DEF Routine

\* Nothing that is under way opens c: what a copy will hold of it, it holds now.
LEMMA NothingOpens ==
  ASSUME Typed, NEW j \in Joiner, NEW c, ~Has(peerLink[j], OpenOf(c)), NEW v \in Copy,
         NEW s, s = authority[j] \o peerLink[j], c \in DOMAIN After(v, j, s).channels
  PROVE  c \in DOMAIN v.channels /\ After(v, j, s).channels[c].opener = v.channels[c].opener
<1>1. PICK a \in Seq(Guidance), p \in Seq(News) : a = authority[j] /\ p = peerLink[j]
  BY DEF Typed, LinksTyped
<1>2. s \in Seq(Wire) /\ a \in Seq(Wire) /\ p \in Seq(Wire) /\ s = a \o p
  BY <1>1, StreamsTyped
<1>3. ~Has(s, OpenOf(c))
  <2>1. /\ DOMAIN s = 1 .. Len(a) + Len(p) /\ DOMAIN p = 1 .. Len(p)
        /\ Len(a) \in Nat /\ Len(p) \in Nat
        /\ \A i \in 1 .. Len(a) + Len(p) : s[i] = IF i <= Len(a) THEN a[i] ELSE p[i - Len(a)]
    <3>1. Len(s) = Len(a) + Len(p)
          /\ \A i \in 1 .. Len(a) + Len(p) : s[i] = IF i <= Len(a) THEN a[i] ELSE p[i - Len(a)]
      BY <1>2, ConcatProperties
    <3>2. QED  BY <1>2, <3>1, LenProperties
  <2>2. SUFFICES ASSUME NEW i \in 1 .. Len(a) + Len(p), s[i] \in OpenOf(c) PROVE FALSE
    BY <2>1 DEF Has
  <2>3. CASE i <= Len(a)
    <3>1. a[i] \in Guidance
      <4>1. i \in 1 .. Len(a)
        BY <2>1, <2>3
      <4>2. QED  BY <1>1, <4>1, ElementOfSeq
    <3>2. QED  BY <2>1, <2>2, <2>3, <3>1 DEF OpenOf, Guidance, Advice
  <2>4. CASE ~(i <= Len(a))
    <3>1. i - Len(a) \in 1 .. Len(p)
      BY <2>1, <2>4
    <3>2. p[i - Len(a)] \in OpenOf(c)
      BY <2>1, <2>2, <2>4
    <3>3. QED  BY <1>1, <2>1, <3>1, <3>2 DEF Has
  <2>5. QED  BY <2>3, <2>4
<1>4. QED  BY <1>2, <1>3, AfterDomain

\* The host carries out a command of m's.
LEMMA ExecutesMatching ==
  ASSUME Typed, Following, NEW c \in ChannelId, Booked(c), Matching(c),
         NEW m \in MemberId, NEW cmd \in Request(m), cmd.type \in Routine,
         HostExecutes(m, cmd), UNCHANGED <<roomOpen, alive, authority, view>>, Onward,
         m \in Joiner => Has(toHost[m], QuitOf(c)) \/ cmd \notin QuitOf(c),
         \A j \in Joiner : Quitting(j, c) => Quitting(j, c)' \/ (j = m /\ cmd \in QuitOf(c))
  PROVE  Matching(c)'
<1>1. cmd \in News /\ Deliver(cmd)
  BY HostExecutesStep DEF Typed, Request, News
<1>2. UNCHANGED members
  BY RoomKept
<1>3. ASSUME NEW j \in Joiner, Ordered(j)', NEW w, w = Caught(j)'
      PROVE  Matches(j, c, w)'
  <2>1. Ordered(j) /\ Heeded(j) /\ j \in members
    BY <1>2, <1>3, OrderedIsHeeded DEF Present, Ordered, Onward
  <2>2. PICK v \in Copy : v = Caught(j)
    BY CaughtTyped
  <2>3. v.members = members /\ v.self /\ Matches(j, c, v)
    BY <2>1, <2>2 DEF Following, Informed, Matching
  <2>4. w = IF j \in reply'.to THEN Apply(v, j, cmd) ELSE v
    BY <1>1, <1>3, <2>2, CaughtDelivered
  <2>5. j = m /\ cmd \in QuitOf(c) => c \notin DOMAIN v.channels
    <3>1. SUFFICES ASSUME j = m, cmd \in QuitOf(c) PROVE c \notin DOMAIN v.channels
      OBVIOUS
    <3>2. ~Has(peerLink[j], OpenOf(c)) /\ c \notin DOMAIN view[j].channels
      BY <3>1 DEF Booked, QuitForGood
    <3>3. v = After(view[j], j, authority[j] \o peerLink[j]) /\ view[j] \in Copy
      BY <2>2, StreamsTyped DEF Caught
    <3>4. QED  BY <3>2, <3>3, NothingOpens
  <2>6. QED  BY <2>1, <2>3, <2>4, <2>5, ExecutesMatch
<1>4. QED  BY <1>3 DEF Matching, Matches

\* A step that changes no channel, here or there.
LEMMA QuietMatching ==
  ASSUME Typed, NEW c, Matching(c), EngineSameAt(c),
         \A j \in Joiner : Ordered(j)' => Ordered(j) /\ (Quitting(j, c) => Quitting(j, c)'),
         \A j \in Joiner : Ordered(j)' => SameAt(Caught(j), Caught(j)', c)
  PROVE  Matching(c)'
<1>1. ASSUME NEW j \in Joiner, Ordered(j)', NEW w, w = Caught(j)'
      PROVE  Matches(j, c, w)'
  <2>1. PICK v : v = Caught(j)
    OBVIOUS
  <2>2. Matches(j, c, v) /\ SameAt(v, w, c) /\ (Quitting(j, c) => Quitting(j, c)')
    BY <1>1, <2>1 DEF Matching
  <2>3. QED  BY <2>2, MatchesQuietly
<1>2. QED  BY <1>1 DEF Matching, Matches

\* What tells the host that a joiner is to be out of c.
PartingFrom(c) == QuitOf(c) \cup {e \in Letter : e.type = "leave_room"}

LEMMA QuittingIs ==
  ASSUME Typed, NEW j \in Joiner, NEW c
  PROVE  Quitting(j, c) <=> Has(toHost[j], PartingFrom(c))
<1>1. \A i \in DOMAIN toHost[j] : toHost[j][i] \in Letter
  <2>1. PICK s \in Seq(Request(j)) : s = toHost[j]
    BY ToHostLetters
  <2>2. \A i \in DOMAIN s : s[i] \in Request(j)
    BY LenProperties, ElementOfSeq
  <2>3. QED  BY <2>1, <2>2 DEF Request
<1>2. QED  BY <1>1 DEF Quitting, Has, PartingFrom, QuitOf

LEMMA QuittingStays ==
  ASSUME Typed, NEW j \in Joiner, NEW e \in Request(j), NEW c,
         toHost'[j] = Append(toHost[j], e)
  PROVE  Quitting(j, c) => Quitting(j, c)'
<1>1. PICK s \in Seq(Request(j)) : s = toHost[j]
  BY ToHostLetters
<1>2. DOMAIN s \subseteq DOMAIN Append(s, e) /\ \A i \in DOMAIN s : Append(s, e)[i] = s[i]
  <2>1. /\ Len(s) \in Nat /\ DOMAIN s = 1 .. Len(s)
        /\ DOMAIN Append(s, e) = 1 .. Len(s) + 1
        /\ \A i \in 1 .. Len(s) : Append(s, e)[i] = s[i]
    BY AppendProperties, LenProperties
  <2>2. QED  BY <2>1
<1>3. PICK t : t = Append(s, e)
  OBVIOUS
<1>4. toHost'[j] = t /\ DOMAIN s \subseteq DOMAIN t /\ \A i \in DOMAIN s : t[i] = s[i]
  BY <1>1, <1>2, <1>3
<1>5. QED  BY <1>1, <1>4 DEF Quitting

LEMMA HostAcceptsMatching ==
  ASSUME Typed, Following, NEW c, Matching(c), HostAccepts
  PROVE  Matching(c)'
<1>1. PICK n \in Joiner : n = nextMemberIndex
  BY NewcomerTyped DEF Typed, HostAccepts
<1>2. /\ members' = members \cup {n} /\ channels' = channels /\ toHost' = toHost
      /\ roomOpen' = roomOpen /\ alive' = alive \cup {n} /\ ahead' = ahead
  BY <1>1 DEF HostAccepts, Join, history
<1>3. n \notin members
  BY <1>1, Indices DEF Following, Numbered
<1>4. ASSUME NEW k \in Joiner, Ordered(k)', NEW w, w = Caught(k)'
      PROVE  Matches(k, c, w)'
  <2>1. CASE k = n
    <3>1. w = [NewView EXCEPT !.self = TRUE, !.members = members \cup {n}]
      BY <1>1, <1>4, <2>1, NewcomerCaught DEF Following
    <3>2. w.channels = NewView.channels
      BY <3>1 DEF NewView
    <3>3. c \notin DOMAIN w.channels
      BY <3>2, NewViewTyped
    <3>4. c \in DOMAIN channels => n \notin channels[c].participants
      BY <1>3 DEF Typed, IInv, ParticipantsAreMembers
    <3>5. QED  BY <1>2, <2>1, <3>3, <3>4 DEF Matches
  <2>2. CASE k # n
    <3>1. Ordered(k) /\ k \in members
      BY <1>2, <1>4, <2>2 DEF Present, Ordered
    <3>2. PICK v \in Copy : v = Caught(k)
      BY CaughtTyped
    <3>3. PICK e \in News : e = About("member_joined", n)
      BY <1>1, MemberNumbers, AboutTyped DEF Notice
    <3>4. e.type = "member_joined"
      BY <1>1, <3>3, MemberNumbers, AboutTyped
    <3>5. w = Apply(v, k, e)
      BY <1>1, <1>4, <2>2, <3>1, <3>2, <3>3, OthersCaught
    <3>6. SameAt(v, w, c)
      <4>1. Apply(v, k, e).channels = v.channels
        BY <3>4, ApplyToMembers
      <4>2. QED  BY <3>5, <4>1 DEF SameAt
    <3>7. EngineSameAt(c) /\ (Quitting(k, c) => Quitting(k, c)') /\ Matches(k, c, v)
      BY <1>2, <3>1, <3>2 DEF EngineSameAt, Quitting, Matching
    <3>8. QED  BY <3>6, <3>7, MatchesQuietly
  <2>3. QED  BY <2>1, <2>2
<1>5. QED  BY <1>4 DEF Matching, Matches

\* j is let go: the engine and the copies prune their channels to the same effect.
LEMMA DropMatching ==
  ASSUME Typed, Following, NEW c, Matching(c), NEW j \in Joiner, j \in members,
         HostDropsMember(j), UNCHANGED <<roomOpen, alive, view>>, Onward,
         \A k \in Joiner : k # j => toHost'[k] = toHost[k]
  PROVE  Matching(c)'
<1>1. /\ members' = members \ {j} /\ reply'.to = members \ {j} /\ channels' = WithoutMember(j)
  BY MemberNumbers DEF HostDropsMember, Leave, Routed
<1>2. PICK e \in News : e = About("member_left", j)
  BY MemberNumbers, AboutTyped DEF Notice
<1>3. e.type = "member_left" /\ e.by = j /\ Deliver(e)
  BY <1>2, MemberNumbers, AboutTyped DEF HostDropsMember
<1>4. ASSUME NEW k \in Joiner, Ordered(k)', NEW w, w = Caught(k)'
      PROVE  Matches(k, c, w)'
  <2>1. k \in members /\ k # j /\ Ordered(k) /\ Heeded(k)
    BY <1>1, <1>4, OrderedIsHeeded DEF Present, Ordered, Onward
  <2>2. PICK v \in Copy : v = Caught(k)
    BY CaughtTyped
  <2>3. v.self /\ Matches(k, c, v)
    BY <2>1, <2>2 DEF Following, Informed, Matching
  <2>4. w = Apply(v, k, e)
    <3>1. authority'[k] = authority[k] /\ view'[k] = view[k] /\ k \in reply'.to
      BY <1>1, <2>1 DEF HostDropsMember, Typed, LinksTyped
    <3>2. QED  BY <1>3, <1>4, <2>2, <3>1, CaughtDelivered
  <2>5. Quitting(k, c)' <=> Quitting(k, c)
    BY <2>1 DEF Quitting
  <2>6. /\ c \in DOMAIN w.channels <=> c \in DOMAIN v.channels /\ Stays(v, k, c, j)
        /\ c \in DOMAIN w.channels => w.channels[c] = Without(v.channels[c], j)
    BY <1>3, <2>4, ApplyLeftAt
  <2>7. c \in DOMAIN v.channels => Without(v.channels[c], j).opener = v.channels[c].opener
    BY CopyFacts, ChannelParts
  <2>8. CASE c \notin DOMAIN channels
    <3>1. c \notin DOMAIN channels'
      BY <1>1, <2>8 DEF WithoutMember
    <3>2. QED  BY <2>3, <2>6, <2>7, <2>8, <3>1 DEF Matches
  <2>9. CASE c \in DOMAIN channels
    <3>1. PICK ch \in Channel : ch = channels[c]
      BY <2>9 DEF Typed, IInv, TypeOK
    <3> DEFINE rest == ch.participants \ {j}
    <3>2. /\ c \in DOMAIN channels' <=> HasCompany(rest)
          /\ c \in DOMAIN channels' => channels'[c] = Without(ch, j)
      BY <1>1, <2>9, <3>1 DEF WithoutMember, Without
    <3>3. Without(ch, j).opener = ch.opener /\ Without(ch, j).participants = rest
      BY <3>1, ChannelParts
    <3>4. c \in DOMAIN v.channels /\ v.channels[c] = ch
            => (Stays(v, k, c, j) <=> HasCompany(rest) /\ k \in rest)
      BY <2>3 DEF Stays, Keeps
    <3>5. k \in rest <=> k \in ch.participants
      BY <2>1
    <3> HIDE DEF rest
    <3>6. QED
      BY <2>3, <2>5, <2>6, <2>7, <2>9, <3>1, <3>2, <3>3, <3>4, <3>5 DEF Matches
  <2>10. QED  BY <2>8, <2>9
<1>5. QED  BY <1>4 DEF Matching, Matches

LEMMA HostHandlesCommandMatching ==
  ASSUME Typed, Following, NEW c \in ChannelId, Booked(c), Matching(c),
         NEW j \in Joiner, HostHandlesCommand(j)
  PROVE  Matching(c)'
<1>0. j \in MemberId /\ toHost[j] # <<>> /\ UNCHANGED <<roomOpen, alive, view>> /\ Onward
  BY MemberNumbers DEF HostHandlesCommand, history, Onward
<1>1. PICK s \in Seq(Request(j)) : s = toHost[j]
  BY ToHostLetters
<1>2. s # <<>> /\ toHost'[j] = Tail(s) /\ \A k \in Joiner : k # j => toHost'[k] = toHost[k]
  <2>1. DOMAIN toHost = Joiner /\ toHost' = [toHost EXCEPT ![j] = Tail(toHost[j])]
    BY DEF Typed, LinksTyped, HostHandlesCommand
  <2>2. QED  BY <1>0, <1>1, <2>1
<1>3. CASE j \in members /\ Head(s).type = "leave_room"
  <2>1. HostDropsMember(j)
    BY <1>1, <1>3 DEF HostHandlesCommand
  <2>2. QED  BY <1>0, <1>2, <1>3, <2>1, DropMatching
<1>4. CASE j \in members /\ Head(s).type # "leave_room"
  <2>1. PICK cmd \in Request(j) : cmd = Head(s)
    BY <1>2, HeadIsTyped
  <2>2. cmd.type \in Routine /\ HostExecutes(j, cmd) /\ UNCHANGED authority
    BY <1>1, <1>4, <2>1 DEF HostHandlesCommand, Request
  <2>3. cmd \in QuitOf(c) => Has(toHost[j], QuitOf(c))
    BY <1>1, <1>2, <2>1, TailHas
  <2>4. Quitting(j, c) => Quitting(j, c)' \/ cmd \in QuitOf(c)
    <3>1. SUFFICES ASSUME Quitting(j, c), cmd \notin QuitOf(c) PROVE Quitting(j, c)'
      OBVIOUS
    <3>2. Has(s, PartingFrom(c)) /\ cmd \notin PartingFrom(c)
      BY <1>1, <1>4, <2>1, <3>1, QuittingIs DEF PartingFrom
    <3>3. PICK t \in Seq(Request(j)) : t = Tail(s) /\ Has(t, PartingFrom(c))
      BY <1>2, <2>1, <3>2, TailHas, HeadIsTyped
    <3>4. toHost'[j] = t
      BY <1>2, <3>3
    <3>5. QED  BY <3>3, <3>4 DEF Quitting, Has, PartingFrom, QuitOf
  <2>5. \A k \in Joiner : Quitting(k, c) => Quitting(k, c)' \/ (k = j /\ cmd \in QuitOf(c))
    BY <1>2, <2>4 DEF Quitting
  <2>6. QED  BY <1>0, <2>2, <2>3, <2>5, ExecutesMatching
<1>5. CASE j \notin members
  <2>1. UNCHANGED <<members, channels, peerLink, authority>>
    BY <1>5 DEF HostHandlesCommand, room
  <2>2. \A k \in Joiner : Ordered(k)' => Ordered(k) /\ k # j
    BY <1>0, <1>5, <2>1 DEF Present, Ordered, Onward
  <2>3. \A k \in Joiner : Ordered(k)' => SameAt(Caught(k), Caught(k)', c)
    BY <1>0, <2>1, SameCaught DEF SameAt
  <2>4. \A k \in Joiner : Ordered(k)' => (Quitting(k, c) => Quitting(k, c)')
    BY <1>2, <2>2 DEF Quitting
  <2>5. QED  BY <2>1, <2>2, <2>3, <2>4, QuietMatching DEF EngineSameAt
<1>6. QED  BY <1>3, <1>4, <1>5

\* A joiner commands, and does at once what the others will be told to do.
LEMMA JoinerCommandsMatching ==
  ASSUME Typed, NEW c \in ChannelId, c \notin misused', Booked(c), Matching(c),
         NEW j \in Joiner, NEW cmd \in Commands(j), JoinerCommands(j, cmd)
  PROVE  Matching(c)'
<1>1. cmd \in Request(j) /\ cmd \in News /\ cmd.type \in Routine /\ cmd.by = j
  BY MemberNumbers, CommandsAreRequests DEF Request
<1>2. /\ UNCHANGED <<channels, members, roomOpen, alive, authority, peerLink>>
      /\ cmd.on = c /\ cmd.type = "channel_opened" => cmd.on \notin used
      /\ cmd.on = c /\ cmd.type # "channel_opened" => cmd.on \in DOMAIN view[j].channels
      /\ cmd.on = c /\ cmd.type = "channel_transfer" => view[j].channels[cmd.on].opener = j
      /\ ahead' = ahead
  BY <1>1 DEF JoinerCommands, Issue, Sensible, room
<1>3. PICK v \in Copy : v = view[j]
  BY DEF Typed, CopiesTyped
<1>4. PICK u \in Copy : u = Optimistic(v, j, cmd)
  BY <1>1, OptimisticTyped
<1>5. /\ toHost'[j] = Append(toHost[j], cmd) /\ view'[j] = u
      /\ \A k \in Joiner : k # j => toHost'[k] = toHost[k] /\ view'[k] = view[k]
  <2>1. DOMAIN toHost = Joiner /\ DOMAIN view = Joiner
    BY DEF Typed, LinksTyped, CopiesTyped
  <2>2. QED  BY <1>3, <1>4, <2>1 DEF JoinerCommands
<1>6. PICK s \in Seq(Wire) : s = authority[j] \o peerLink[j]
  BY StreamsTyped
<1>7. Caught(j) = After(v, j, s) /\ Caught(j)' = After(u, j, s)
  BY <1>2, <1>3, <1>5, <1>6 DEF Caught
<1>8. PICK x : x = After(v, j, s)
  OBVIOUS
<1>9. PICK w : w = After(u, j, s)
  OBVIOUS
<1>10. Quitting(j, c) => Quitting(j, c)'
  BY <1>1, <1>5, QuittingStays
<1>11. EngineSameAt(c) /\ \A k \in Joiner : Ordered(k)' => Ordered(k)
  BY <1>2 DEF EngineSameAt, Present, Ordered
<1>12. CASE cmd.on # c \/ cmd.type = "channel_accepted"
  <2>1. SameAt(v, u, c)
    <3>1. CASE cmd.on # c
      BY <1>1, <1>4, <3>1, OptimisticAt
    <3>2. CASE cmd.type = "channel_accepted"
      <4>1. u = v
        BY <1>1, <1>4, <3>2, OptimisticAt
      <4>2. QED  BY <4>1 DEF SameAt
    <3>3. QED  BY <1>12, <3>1, <3>2
  <2>2. v.members = u.members /\ v.self = u.self
    BY <1>1, <1>4, OptimisticMembers
  <2>3. SameAt(After(v, j, s), After(u, j, s), c)
    BY <2>1, <2>2, AfterSameAt
  <2>4. \A k \in Joiner : SameAt(Caught(k), Caught(k)', c)
    <3>1. SUFFICES ASSUME NEW k \in Joiner PROVE SameAt(Caught(k), Caught(k)', c)
      OBVIOUS
    <3>2. CASE k = j
      BY <1>7, <2>3, <3>2
    <3>3. CASE k # j
      <4>1. Caught(k)' = Caught(k)
        BY <1>2, <1>5, <3>3, SameCaught
      <4>2. QED  BY <4>1 DEF SameAt
    <3>4. QED  BY <3>2, <3>3
  <2>5. \A k \in Joiner : Quitting(k, c) => Quitting(k, c)'
    BY <1>5, <1>10 DEF Quitting
  <2>6. QED  BY <1>11, <2>4, <2>5, QuietMatching
<1>13. CASE cmd.on = c /\ cmd.type # "channel_accepted"
  <2>1. ~Has(peerLink[j], OpenOf(c))
    BY <1>2, <1>13 DEF Booked, InUse, ToldOnce
  <2>2. /\ c \in DOMAIN x.channels =>
             c \in DOMAIN v.channels /\ x.channels[c].opener = v.channels[c].opener
        /\ c \in DOMAIN w.channels =>
             c \in DOMAIN u.channels /\ w.channels[c].opener = u.channels[c].opener
    BY <1>6, <1>8, <1>9, <2>1, NothingOpens
  <2>3. ASSUME Ordered(j)' PROVE Matches(j, c, w)'
    <3>1. CASE cmd.type \in {"channel_rejected", "channel_closed"}
      <4>1. c \notin DOMAIN w.channels
        BY <1>1, <1>4, <1>13, <2>2, <3>1, OptimisticAt
      <4>2. Quitting(j, c)'
        <5>1. PICK q \in Seq(Request(j)) : q = toHost[j]
          BY ToHostLetters
        <5>2. PICK t \in Seq(Request(j)) : t = Append(q, cmd)
          BY <1>1, AppendProperties
        <5>3. cmd \in PartingFrom(c)
          BY <1>1, <1>13, <3>1 DEF PartingFrom, QuitOf, Request
        <5>4. Has(t, PartingFrom(c))
          BY <1>1, <5>2, <5>3, AppendedHas
        <5>5. toHost'[j] = t
          BY <1>5, <5>1, <5>2
        <5>6. QED  BY <5>4, <5>5 DEF Quitting, Has, PartingFrom, QuitOf
      <4>3. QED  BY <4>1, <4>2 DEF Matches
    <3>2. CASE cmd.type = "channel_opened"
      <4>1. c \notin DOMAIN v.channels /\ c \notin DOMAIN channels
        BY <1>2, <1>3, <1>13, <3>2 DEF Booked, InUse
      <4>2. u = Apply(v, j, cmd)
        BY <1>1, <1>4, <3>2, OptimisticAt
      <4>3. c \in DOMAIN u.channels => u.channels[c].opener = j
        <5>1. CASE Hears(v, cmd)
          <6>1. u.channels[c] = Opened(v, cmd)
            BY <1>1, <1>13, <3>2, <4>2, <5>1, ApplyOpenedAt
          <6>2. Opened(v, cmd).opener = j
            BY <1>1, <1>13 DEF Opened
          <6>3. QED  BY <6>1, <6>2
        <5>2. CASE ~Hears(v, cmd)
          <6>1. SameAt(v, u, c)
            BY <3>2, <4>2, <5>2, ApplyOpenedAt
          <6>2. QED  BY <4>1, <6>1 DEF SameAt
        <5>3. QED  BY <5>1, <5>2
      <4>4. QED  BY <1>2, <2>2, <4>1, <4>3 DEF Matches
    <3>3. CASE cmd.type = "channel_transfer"
      <4>1. c \in DOMAIN v.channels /\ v.channels[c].opener = j
        BY <1>2, <1>3, <1>13, <3>3
      <4>2. u = Apply(v, j, cmd)
        BY <1>1, <1>4, <3>3, OptimisticAt
      <4>3. u.channels[c] = Told(v.channels[c], cmd.offer)
        BY <1>13, <3>3, <4>1, <4>2, ApplyTransferAt
      <4>4. u.channels[c].opener = j
        BY <4>1, <4>3, CopyFacts, ChannelParts
      <4>5. Matches(j, c, x)
        BY <1>7, <1>8, <1>11, <2>3 DEF Matching
      <4>6. QED  BY <1>2, <1>10, <2>2, <4>1, <4>4, <4>5 DEF Matches
    <3>4. QED  BY <1>1, <1>13, <3>1, <3>2, <3>3 DEF Routine
  <2>4. ASSUME NEW k \in Joiner, k # j, Ordered(k)', NEW y, y = Caught(k)'
        PROVE  Matches(k, c, y)'
    <3>1. Caught(k)' = Caught(k)
      BY <1>2, <1>5, <2>4, SameCaught
    <3>2. Matches(k, c, y) /\ SameAt(y, y, c)
      BY <1>11, <2>4, <3>1 DEF Matching, SameAt
    <3>3. Quitting(k, c) => Quitting(k, c)'
      BY <1>5, <2>4 DEF Quitting
    <3>4. QED  BY <1>11, <3>2, <3>3, MatchesQuietly
  <2>5. ASSUME NEW k \in Joiner, Ordered(k)', NEW y, y = Caught(k)'
        PROVE  Matches(k, c, y)'
    <3>1. CASE k = j
      <4>1. y = w
        BY <1>7, <1>9, <2>5, <3>1
      <4>2. QED  BY <2>3, <2>5, <3>1, <4>1
    <3>2. CASE k # j
      BY <2>4, <2>5, <3>2
    <3>3. QED  BY <3>1, <3>2
  <2>6. QED  BY <2>5 DEF Matching, Matches
<1>14. QED  BY <1>12, <1>13

LEMMA MatchingInit ==
  ASSUME ReplicaInit, NEW c
  PROVE  Matching(c)
BY DEF ReplicaInit, Matching, Present, Ordered

\* A step that leaves the room, the streams' ends and the commands under way alone.
LEMMA SameMatching ==
  ASSUME Typed, NEW c, Matching(c), UNCHANGED <<channels, members, roomOpen, toHost>>,
         alive' \subseteq alive, Onward,
         \A k \in Joiner : k \notin ahead' => Caught(k)' = Caught(k)
  PROVE  Matching(c)'
<1>1. EngineSameAt(c)
  BY DEF EngineSameAt
<1>2. \A k \in Joiner : /\ Ordered(k)' => Ordered(k) /\ SameAt(Caught(k), Caught(k)', c)
                        /\ Quitting(k, c) => Quitting(k, c)'
  BY DEF Present, Ordered, Onward, Quitting, SameAt
<1>3. QED  BY <1>1, <1>2, QuietMatching

LEMMA MatchingNext ==
  ASSUME Typed, Following, NEW c \in ChannelId, c \notin misused',
         Booked(c), Matching(c), [ReplicaNext]_replicaVars
  PROVE  Matching(c)'
<1>1. CASE HostAccepts
  BY <1>1, HostAcceptsMatching
<1>2. CASE HostLeaves
  <2>1. ~roomOpen'
    BY <1>2 DEF HostLeaves
  <2>2. QED  BY <2>1 DEF Matching, Present, Ordered
<1>3. ASSUME NEW cmd \in Commands(Host), HostCommands(cmd) PROVE Matching(c)'
  <2>1. cmd \in Request(Host) /\ cmd.type \in Routine /\ Host \in MemberId
        /\ Host \notin Joiner
    BY MemberNumbers, CommandsAreRequests
  <2>2. HostExecutes(Host, cmd) /\ UNCHANGED <<roomOpen, alive, toHost, authority, view>>
        /\ Onward
    BY <1>3 DEF HostCommands, Issue, Onward
  <2>3. \A j \in Joiner : Quitting(j, c) => Quitting(j, c)'
    BY <2>2 DEF Quitting
  <2>4. QED  BY <2>1, <2>2, <2>3, ExecutesMatching
<1>4. ASSUME NEW j \in Joiner, HostHandlesCommand(j) PROVE Matching(c)'
  BY <1>4, HostHandlesCommandMatching
<1>5. ASSUME NEW j \in Joiner, HostSeesDisconnect(j) PROVE Matching(c)'
  <2>1. j \in members /\ HostDropsMember(j) /\ UNCHANGED <<roomOpen, alive, toHost, view>>
        /\ Onward
    BY <1>5 DEF HostSeesDisconnect, history, Onward
  <2>2. QED  BY <2>1, DropMatching
<1>6. ASSUME NEW j \in Joiner, NEW cmd \in Commands(j), JoinerCommands(j, cmd)
      PROVE  Matching(c)'
  BY <1>6, JoinerCommandsMatching
<1>7. ASSUME NEW j \in Joiner, JoinerLeaves(j) PROVE Matching(c)'
  <2>1. UNCHANGED <<members, channels, roomOpen, alive, authority, peerLink, view, ahead>>
    BY <1>7 DEF JoinerLeaves, room, history
  <2>2. PICK e \in Request(j) : e = About("leave_room", j)
    BY MemberNumbers, AboutTyped
  <2>3. toHost'[j] = Append(toHost[j], e) /\ \A k \in Joiner : k # j => toHost'[k] = toHost[k]
    <3>1. DOMAIN toHost = Joiner
      BY DEF Typed, LinksTyped
    <3>2. QED  BY <1>7, <2>2, <3>1 DEF JoinerLeaves
  <2>4. \A k \in Joiner : Quitting(k, c) => Quitting(k, c)'
    <3>1. Quitting(j, c) => Quitting(j, c)'
      BY <2>3, QuittingStays
    <3>2. QED  BY <2>3, <3>1 DEF Quitting
  <2>5. \A k \in Joiner : Ordered(k)' => Ordered(k) /\ SameAt(Caught(k), Caught(k)', c)
    BY <2>1, SameCaught DEF Present, Ordered, SameAt
  <2>6. QED  BY <2>1, <2>4, <2>5, QuietMatching DEF EngineSameAt
<1>8. ASSUME NEW j \in Joiner, JoinerExits(j) PROVE Matching(c)'
  <2>1. UNCHANGED <<members, channels, roomOpen, toHost, authority, peerLink, view>>
        /\ alive' \subseteq alive /\ Onward
    BY <1>8 DEF JoinerExits, room, history, Onward
  <2>2. QED  BY <2>1, SameCaught, SameMatching
<1>9. ASSUME NEW j \in Joiner, JoinerReadsAuthority(j) PROVE Matching(c)'
  <2>1. /\ UNCHANGED <<members, channels, roomOpen, alive, toHost, peerLink>>
        /\ \A k \in Joiner \ {j} : view'[k] = view[k] /\ authority'[k] = authority[k]
        /\ Onward
    BY <1>9 DEF JoinerReadsAuthority, room, history, Onward, Typed, LinksTyped, CopiesTyped
  <2>2. \A k \in Joiner : Caught(k)' = Caught(k)
    BY <1>9, <2>1, SameCaught, CaughtReadsAuthority
  <2>3. QED  BY <2>1, <2>2, SameMatching
<1>10. ASSUME NEW j \in Joiner, JoinerReadsPeerLink(j) PROVE Matching(c)'
  <2>1. /\ UNCHANGED <<members, channels, roomOpen, alive, toHost, authority>>
        /\ \A k \in Joiner \ {j} : view'[k] = view[k] /\ peerLink'[k] = peerLink[k]
        /\ Onward
    BY <1>10 DEF JoinerReadsPeerLink, room, Onward, Typed, LinksTyped, CopiesTyped
  <2>2. j \notin ahead' => ~Unsettled(j)
    BY <1>10 DEF JoinerReadsPeerLink
  <2>3. \A k \in Joiner : k \notin ahead' => Caught(k)' = Caught(k)
    BY <1>10, <2>1, <2>2, SameCaught, CaughtReadsPeerLink
  <2>4. QED  BY <2>1, <2>3, SameMatching
<1>11. ASSUME NEW j \in Joiner, NEW m \in MemberId, JoinerMeetsPeer(j, m) PROVE Matching(c)'
  <2>1. UNCHANGED <<members, channels, roomOpen, alive, toHost, authority, peerLink>>
        /\ Onward
    BY <1>11 DEF JoinerMeetsPeer, room, Onward
  <2>2. j \notin ahead' => m \in view[j].members \/ SnapshotPending(j)
    BY <1>11 DEF JoinerMeetsPeer
  <2>3. \A k \in Joiner : k \notin ahead' => Caught(k)' = Caught(k)
    BY <1>11, <2>1, <2>2, SameCaught, MeetingIs, MeetingQuiet
  <2>4. QED  BY <2>1, <2>3, SameMatching
<1>12. CASE UNCHANGED replicaVars
  <2>1. UNCHANGED <<members, channels, roomOpen, alive, toHost, authority, peerLink, view>>
        /\ Onward
    BY <1>12 DEF replicaVars, room, linkVars, history, Onward
  <2>2. QED  BY <2>1, SameCaught, SameMatching
<1>13. QED
  BY <1>1, <1>2, <1>3, <1>4, <1>5, <1>6, <1>7, <1>8, <1>9, <1>10, <1>11, <1>12
  DEF ReplicaNext

Agreed == Following /\ \A c \in ChannelId \ misused : Booked(c) /\ Matching(c)

LEMMA MisuseStays ==
  ASSUME [ReplicaNext]_replicaVars
  PROVE  misused \subseteq misused'
BY DEF ReplicaNext, HostAccepts, HostLeaves, HostCommands, HostHandlesCommand, HostSeesDisconnect,
       JoinerCommands, JoinerLeaves, JoinerExits, JoinerReadsAuthority, JoinerReadsPeerLink,
       JoinerMeetsPeer, Issue, replicaVars, history

LEMMA AgreedAlways == ReplicaSpec => [](Typed /\ Agreed)
<1>1. ReplicaInit => Typed /\ Agreed
  BY TypedInit, FollowingInit, BookedInit, MatchingInit DEF Agreed
<1>2. ASSUME Typed, Agreed, [ReplicaNext]_replicaVars PROVE Typed' /\ Agreed'
  <2>1. Typed' /\ Following'
    BY <1>2, TypedNext, FollowingNext DEF Agreed
  <2>2. ASSUME NEW c \in ChannelId, c \notin misused' PROVE Booked(c)' /\ Matching(c)'
    <3>1. c \notin misused
      BY <1>2, <2>2, MisuseStays
    <3>2. QED  BY <1>2, <2>2, <3>1, BookedNext, MatchingNext DEF Agreed
  <2>3. QED  BY <2>1, <2>2 DEF Agreed
<1>3. QED  BY <1>1, <1>2, PTL DEF ReplicaSpec

\* Likewise for the channels the others opened: pruning by the joiner's own rules
\* (prune_join_channels_for_member, remove_join_channel_participant) and what it does at
\* once with its own commands come to the engine's channels, its audience and metadata.
\* This is of channels that every client opens once and uses only when told of them, and
\* of joiners that have not got ahead of the host's news of the members.
THEOREM StreamsAlwaysCarryChannels == ReplicaSpec => []StreamsCarryChannels
<1>1. Agreed => StreamsCarryChannels
  BY DEF Agreed, Matching, Matches, Ordered, StreamsCarryChannels
<1>2. QED  BY <1>1, AgreedAlways, PTL
=============================================================================
