-------------------------- MODULE RendezvousProofs --------------------------
(***************************************************************************)
(* For any set of clients and any lifetime: the record is whole, and a     *)
(* lookup finds the host until its record runs out or a client that        *)
(* outlived its own record deletes it.                                     *)
(***************************************************************************)
EXTENDS Rendezvous, TLAPS

\* The registry and its clients keep their shape, however requests interleave.
THEOREM RegistryTypeCorrect == Spec => []TypeOK
<1> USE ClientAssumption, TTLAssumption
<1>1. Init => TypeOK
  BY DEF Init, TypeOK, Stage
<1>2. TypeOK /\ [Next]_vars => TypeOK'
  <2> SUFFICES ASSUME TypeOK, [Next]_vars PROVE TypeOK'
    OBVIOUS
  <2> USE DEF TypeOK, Stage, Goes, Purge, Current, Put, Forget, Evicts, registry
  <2>1. CASE PurgeExpired
    BY <2>1 DEF PurgeExpired
  <2>2. CASE Tick
    BY <2>2 DEF Tick
  <2>3. ASSUME NEW c \in Client, Start(c) PROVE TypeOK'
    BY <2>3 DEF Start
  <2>4. ASSUME NEW c \in Client, Lookup(c) PROVE TypeOK'
    <3>1. CASE Current # Nobody
      BY <2>4, <3>1 DEF Lookup
    <3>2. CASE Current = Nobody
      BY <2>4, <3>2 DEF Lookup
    <3>3. QED  BY <3>1, <3>2
  <2>5. ASSUME NEW c \in Client, Granted(c) PROVE TypeOK'
    BY <2>5 DEF Granted
  <2>6. ASSUME NEW c \in Client, AlreadyHosted(c) PROVE TypeOK'
    BY <2>6 DEF AlreadyHosted
  <2>7. ASSUME NEW c \in Client, Connect(c) PROVE TypeOK'
    BY <2>7 DEF Connect
  <2>8. ASSUME NEW c \in Client, HostEnds(c) PROVE TypeOK'
    BY <2>8 DEF HostEnds
  <2>9. ASSUME NEW c \in Client, Delete(c) PROVE TypeOK'
    BY <2>9 DEF Delete
  <2>10. ASSUME NEW c \in Client, Ends(c) PROVE TypeOK'
    BY <2>10 DEF Ends
  <2>11. ASSUME NEW c \in Client, AnswerLost(c) PROVE TypeOK'
    BY <2>11 DEF AnswerLost
  <2>12. CASE UNCHANGED vars
    BY <2>12 DEF vars
  <2>13. QED
    BY <2>1, <2>2, <2>3, <2>4, <2>5, <2>6, <2>7, <2>8, <2>9, <2>10, <2>11,
       <2>12 DEF Next
<1>3. QED  BY <1>1, <1>2, PTL DEF Spec

-----------------------------------------------------------------------------
\* The invariant behind HostIsFindable: whoever has a record that has not run out
\* and that nobody deleted in its place holds the room, hosting or about to delete
\* it, and the record expires when the client believes it does.
Hosting(c) == pc[c] \in {"host", "delete"} /\ lease[c] > 0 /\ c \notin evicted
HostsHold == \A c \in Client : Hosting(c) => holder = c /\ left = lease[c]

\* Two clients cannot both hold the record: a client that hosts excludes others.
LEMMA OneHolder ==
  ASSUME HostsHold, NEW c \in Client, NEW d \in Client, Hosting(c), Hosting(d)
  PROVE  c = d
BY DEF HostsHold

\* A put is granted only while nobody hosts: the record of a host never is free.
LEMMA PutMeansNoHost ==
  ASSUME TypeOK, HostsHold, NEW c \in Client, pc[c] \in {"register", "claim"}, Put(c)
  PROVE  \A d \in Client : ~Hosting(d)
BY ClientAssumption DEF TypeOK, HostsHold, Hosting, Put, Current

\* After a delete nobody holds the room, and whoever did is one of the evicted.
LEMMA DeleteEvicts ==
  ASSUME TypeOK, HostsHold, NEW c \in Client, pc[c] = "delete",
         Goes(c, "end"), evicted' = evicted \cup Evicts(c), lease' = lease,
         NEW d \in Client
  PROVE  ~Hosting(d)'
<1> SUFFICES ASSUME Hosting(d)' PROVE FALSE
  OBVIOUS
<1>1. d # c /\ Hosting(d)
  BY DEF Hosting, Goes, TypeOK
<1>2. Current = d
  BY <1>1 DEF Current, HostsHold, Hosting, TypeOK
<1>3. Hosting(c)
  <2>1. Evicts(c) = {}
    <3>1. d \notin Evicts(c)
      BY DEF Hosting
    <3>2. QED  BY <1>1, <1>2, <3>1, ClientAssumption DEF Evicts
  <2>2. lease[c] > 0 /\ c \notin evicted
    BY <1>1, <1>2, <2>1, ClientAssumption DEF Evicts, TypeOK
  <2>3. QED  BY <2>2 DEF Hosting
<1>4. QED  BY <1>1, <1>3, OneHolder

\* Every step keeps each of them in possession, or makes it one of the evicted.
LEMMA HostsKeepHolding ==
  ASSUME TypeOK, HostsHold, [Next]_vars
  PROVE  HostsHold'
<1> USE ClientAssumption, TTLAssumption DEF Hosting, Goes, registry
<1>1. CASE PurgeExpired
  BY <1>1 DEF PurgeExpired, HostsHold
<1>2. CASE Tick
  BY <1>2 DEF Tick, HostsHold, TypeOK
<1>3. ASSUME NEW c \in Client, Start(c) PROVE HostsHold'
  BY <1>3 DEF Start, HostsHold, TypeOK
<1>4. ASSUME NEW c \in Client, Lookup(c) PROVE HostsHold'
  <2>1. \A d \in Client : Hosting(d) => holder' = holder /\ left' = left
    BY <1>4 DEF Lookup, Purge, Current, HostsHold
  <2>2. \A d \in Client : Hosting(d)' => Hosting(d)
    BY <1>4 DEF Lookup, TypeOK
  <2>3. lease' = lease
    BY <1>4 DEF Lookup
  <2>4. QED  BY <2>1, <2>2, <2>3 DEF HostsHold
<1>5. ASSUME NEW c \in Client, Granted(c) PROVE HostsHold'
  <2>1. \A d \in Client : ~Hosting(d)
    BY <1>5, PutMeansNoHost DEF Granted
  <2>2. QED  BY <1>5, <2>1 DEF Granted, Put, HostsHold, TypeOK
<1>6. ASSUME NEW c \in Client, AlreadyHosted(c) PROVE HostsHold'
  <2>1. \A d \in Client : Hosting(d) => holder' = holder /\ left' = left
    BY <1>6 DEF AlreadyHosted, Purge, Current, HostsHold
  <2>2. \A d \in Client : Hosting(d)' => Hosting(d)
    BY <1>6 DEF AlreadyHosted, TypeOK
  <2>3. lease' = lease
    BY <1>6 DEF AlreadyHosted
  <2>4. QED  BY <2>1, <2>2, <2>3 DEF HostsHold
<1>7. ASSUME NEW c \in Client, Connect(c) PROVE HostsHold'
  BY <1>7 DEF Connect, HostsHold, TypeOK
<1>8. ASSUME NEW c \in Client, HostEnds(c) PROVE HostsHold'
  BY <1>8 DEF HostEnds, HostsHold, TypeOK
<1>9. ASSUME NEW c \in Client, Delete(c) PROVE HostsHold'
  <2>1. \A d \in Client : ~Hosting(d)'
    BY <1>9, DeleteEvicts DEF Delete
  <2>2. QED  BY <2>1 DEF HostsHold
<1>10. ASSUME NEW c \in Client, Ends(c) PROVE HostsHold'
  BY <1>10 DEF Ends, HostsHold, TypeOK
<1>11. ASSUME NEW c \in Client, AnswerLost(c) PROVE HostsHold'
  <2>1. CASE pc[c] \in {"register", "claim"} /\ Put(c)
    <3>1. \A d \in Client : ~Hosting(d)
      BY <2>1, PutMeansNoHost
    <3>2. QED  BY <1>11, <3>1 DEF AnswerLost, HostsHold, TypeOK
  <2>2. CASE pc[c] = "delete" /\ Forget
    <3>1. \A d \in Client : ~Hosting(d)'
      BY <1>11, <2>2, DeleteEvicts DEF AnswerLost
    <3>2. QED  BY <3>1 DEF HostsHold
  <2>3. QED  BY <1>11, <2>1, <2>2 DEF AnswerLost
<1>12. CASE UNCHANGED vars
  BY <1>12 DEF vars, HostsHold
<1>13. QED
  BY <1>1, <1>2, <1>3, <1>4, <1>5, <1>6, <1>7, <1>8, <1>9, <1>10, <1>11, <1>12
     DEF Next

\* A lookup returns the host of the room whenever there is one with a record that
\* has not run out, and no client that outlived its own has deleted it: neither
\* crashes nor lost answers, nor any race of claims, puts another in its place.
THEOREM HostsAlwaysFindable == Spec => []HostIsFindable
<1>1. Init => HostsHold
  BY DEF Init, HostsHold, Hosting
<1>2. TypeOK /\ HostsHold /\ [Next]_vars => HostsHold'
  BY HostsKeepHolding
<1>3. HostsHold => HostIsFindable
  BY DEF HostsHold, Hosting, HostIsFindable, Current
<1>4. QED  BY <1>1, <1>2, <1>3, RegistryTypeCorrect, PTL DEF Spec
=============================================================================
