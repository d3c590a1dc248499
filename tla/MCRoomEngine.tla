---------------------------- MODULE MCRoomEngine ----------------------------
(***************************************************************************)
(* RoomEngine on three members and two channel ids.  An offer is either    *)
(* provisional (integrity: None) or final; "machine" stands for clipboard, *)
(* "file" for pipe where only inline data is refused.                     *)
(***************************************************************************)
EXTENDS RoomEngine, TLC

CONSTANTS c1, c2

MCChannelId   == {c1, c2}
MCKinds       == {"machine", "file"}
MCOffers      == {"provisional", "final"}
MCSymmetry    == Permutations({c1, c2})
=============================================================================
