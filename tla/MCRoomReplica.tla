--------------------------- MODULE MCRoomReplica ----------------------------
(***************************************************************************)
(* RoomReplica with a host and two joiners, one of which may come late.    *)
(***************************************************************************)
EXTENDS RoomReplica

\* Bound: one joiner gets ahead, or one command is misused, which counts as two.
InBounds ==
  /\ Cardinality(ahead) + Cardinality(misused) =< 1
  /\ issued + Cardinality(misused) =< MaxCommands

MCOffers == {"provisional", "final"}

\* States with one view have the same future.  reply only hands the recipients of
\* one call to Deliver within a step; what a joiner that is dead or out of the room
\* reads, and what it has sent once it is out, concerns nobody; nor does anything
\* once the room is over.
Matters(v) ==
  [v EXCEPT !.channels = [c \in DOMAIN @ \ misused |-> @[c]]]

MCView ==
  LET live == alive \cap members IN
  IF roomOpen
  THEN <<room, alive, [j \in members \ {Host} |-> toHost[j]],
         [j \in live |-> <<authority[j], peerLink[j], Matters(view[j])>>],
         {p \in connected : p[1] \in live},
         issued, used, misused, ahead \cap live, misled \cap live>>
  ELSE <<roomOpen>>
=============================================================================
