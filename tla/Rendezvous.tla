----------------------------- MODULE Rendezvous -----------------------------
(***************************************************************************)
(* How peers find the host of a room: one record of the rendezvous         *)
(* registry (skyffla-rendezvous/src/lib.rs, store.rs) and the clients that *)
(* want to host or join that room (skyffla-cli/src/app/commands.rs,        *)
(* net/rendezvous.rs).  The store is locked for each request, so a request *)
(* is one step; clients crash, requests and answers get lost, time passes. *)
(*                                                                         *)
(* A client run has a ticket of its own, so the record's ticket is the     *)
(* client.  Times are relative to now: a record with no time left is one   *)
(* with expires_at <= now.                                                 *)
(***************************************************************************)
EXTENDS Integers

CONSTANTS
  Client,    \* runs of the program, each with its ticket
  Nobody,    \* no record
  TTL        \* the lifetime the registry grants to a record

ASSUME ClientAssumption == Nobody \notin Client
ASSUME TTLAssumption == TTL \in Nat \ {0}

VARIABLES
  holder,  \* whose ticket the record carries
  left,    \* seconds until it expires
  pc,      \* what each client is doing
  lease,   \* seconds until the registration a client was granted expires
  target,  \* the host each client found
  evicted  \* history: clients whose record a client without one deleted

registry == <<holder, left>>
vars == <<holder, left, pc, lease, target, evicted>>

\* lookup, again and connect are steps of a join; claim is the registration of a
\* join that found no host, register the one of a host.
Stage == {"start", "lookup", "claim", "again", "connect", "joined",
          "register", "host", "delete", "end"}

Init ==
  /\ holder = Nobody
  /\ left = 0
  /\ pc = [c \in Client |-> "start"]
  /\ lease = [c \in Client |-> 0]
  /\ target = [c \in Client |-> Nobody]
  /\ evicted = {}

-----------------------------------------------------------------------------
(* The registry.                                                           *)

NeverExpired == holder                        \* bug: purge_expired is not called

\* purge_expired, with which every put and get begins
Current == IF left = 0 THEN Nobody ELSE holder

\* What put grants and delete leaves behind.
ForgetTicket == holder' = Nobody /\ UNCHANGED left   \* bug: half of the record stays
Forget == holder' = Nobody /\ left' = 0

PutUnlocked(c) ==                             \* bug: the ticket is not compared
  /\ holder' = c
  /\ left' = TTL

\* put: the record is made, or refreshed for the same ticket.
Put(c) ==
  /\ Current \in {Nobody, c}
  /\ holder' = c
  /\ left' = TTL

\* get, and a put that is refused with 409, only purge.
Purge == holder' = Current /\ UNCHANGED left

\* The cleanup task.
PurgeExpired ==
  /\ left = 0
  /\ holder # Nobody
  /\ Purge
  /\ UNCHANGED <<pc, lease, target, evicted>>

\* A second passes.  No client refreshes its registration.
Tick ==
  LET Less(n) == IF n = 0 THEN 0 ELSE n - 1 IN
  /\ left > 0 \/ \E c \in Client : lease[c] > 0
  /\ left' = Less(left)
  /\ lease' = [c \in Client |-> Less(lease[c])]
  /\ UNCHANGED <<holder, pc, target, evicted>>

-----------------------------------------------------------------------------
(* The clients.                                                            *)

Goes(c, stage) == pc' = [pc EXCEPT ![c] = stage]

\* run_host registers at once, run_join looks the room up first.
Start(c) ==
  /\ pc[c] = "start"
  /\ \E stage \in {"register", "lookup"} : Goes(c, stage)
  /\ UNCHANGED <<registry, lease, target, evicted>>

\* resolve_room.  A join that finds no host claims the room; one that finds none
\* after it was told that there is one gives up.
Lookup(c) ==
  /\ pc[c] \in {"lookup", "again"}
  /\ Purge
  /\ IF Current # Nobody
     THEN Goes(c, "connect") /\ target' = [target EXCEPT ![c] = Current]
     ELSE Goes(c, IF pc[c] = "lookup" THEN "claim" ELSE "end") /\ UNCHANGED target
  /\ UNCHANGED <<lease, evicted>>

\* register_room, granted
Granted(c) ==
  /\ pc[c] \in {"register", "claim"}
  /\ Put(c)
  /\ Goes(c, "host")
  /\ lease' = [lease EXCEPT ![c] = TTL]
  /\ UNCHANGED <<target, evicted>>

\* register_room, answered with AlreadyHosted: the end for a host, a second
\* lookup for a join.
AlreadyHosted(c) ==
  /\ pc[c] \in {"register", "claim"}
  /\ Current \notin {Nobody, c}
  /\ Purge
  /\ Goes(c, IF pc[c] = "register" THEN "end" ELSE "again")
  /\ UNCHANGED <<lease, target, evicted>>

\* connect_to_registered_peer: there is a host to talk to or there is not.
Connect(c) ==
  /\ pc[c] = "connect"
  /\ Goes(c, IF pc[target[c]] = "host" THEN "joined" ELSE "end")
  /\ UNCHANGED <<registry, lease, target, evicted>>

\* The host's runtime is over, or was interrupted: wait_for_incoming_peer goes on
\* to delete_room.
HostEnds(c) ==
  /\ pc[c] = "host"
  /\ Goes(c, "delete")
  /\ UNCHANGED <<registry, lease, target, evicted>>

\* A client without a record of its own any more, for it ran out or was deleted
\* before, deletes whatever record the room has by now.
Evicts(c) ==
  IF lease[c] = 0 \/ c \in evicted THEN {Current} \ {c, Nobody} ELSE {}

\* delete_room: delete asks for no ticket.
Delete(c) ==
  /\ pc[c] = "delete"
  /\ Forget
  /\ Goes(c, "end")
  /\ evicted' = evicted \cup Evicts(c)
  /\ UNCHANGED <<lease, target>>

\* The client is gone: it crashed or left its room, or its request was rejected
\* (rate_limited) or lost.
Ends(c) ==
  /\ pc[c] \notin {"start", "end"}
  /\ Goes(c, "end")
  /\ UNCHANGED <<registry, lease, target, evicted>>

\* Only the answer was lost: the client gives up all the same, and what it asked
\* for has been done.
AnswerLost(c) ==
  /\ \/ pc[c] \in {"register", "claim"} /\ Put(c) /\ UNCHANGED evicted
     \/ pc[c] = "delete" /\ Forget /\ evicted' = evicted \cup Evicts(c)
  /\ Goes(c, "end")
  /\ UNCHANGED <<lease, target>>

Next ==
  \/ PurgeExpired
  \/ Tick
  \/ \E c \in Client :
       \/ Start(c)
       \/ Lookup(c)
       \/ Granted(c)
       \/ AlreadyHosted(c)
       \/ Connect(c)
       \/ HostEnds(c)
       \/ Delete(c)
       \/ Ends(c)
       \/ AnswerLost(c)

\* Time passes and the cleanup task runs; clients may stop anywhere.
Spec == Init /\ [][Next]_vars /\ WF_vars(Tick) /\ WF_vars(PurgeExpired)

-----------------------------------------------------------------------------
(* Properties.                                                             *)

\* The record is whole or absent, and clients are where they can be.
TypeOK ==
  /\ holder \in Client \cup {Nobody}
  /\ left \in 0 .. TTL
  /\ holder = Nobody => left = 0
  /\ pc \in [Client -> Stage]
  /\ lease \in [Client -> 0 .. TTL]
  /\ target \in [Client -> Client \cup {Nobody}]
  /\ \A c \in Client : pc[c] = "connect" => target[c] \in Client
  /\ evicted \subseteq Client

\* A host whose registration has not expired is the one a lookup returns, and so
\* the only one: nobody else's put gets in its way, nor the delete of a client
\* that still had a record.  The excuse is that delete asks for no ticket: a
\* client that outlived its own record deletes that of its successor.
HostIsFindable ==
  \A c \in Client :
    pc[c] = "host" /\ lease[c] > 0 /\ c \notin evicted => Current = c

\* However a client ended, crashed or with the answer to its put or delete lost,
\* its room does not point to it for ever.
DeadRoomIsFreed ==
  \A c \in Client : (holder = c /\ pc[c] = "end") ~> (holder # c)
=============================================================================
