---------------------------- MODULE MCFileTransfer ----------------------------
(***************************************************************************)
(* FileTransfer in a room of three, of whom m1 is the host.  The plans say *)
(* which transfers a run is about.                                         *)
(***************************************************************************)
EXTENDS FileTransfer, TLC

CONSTANTS c1, c2

MCChannelId == {c1, c2}
MCKinds     == {"file"}
MCOffers    == [item : {"file", "folder"}, digest : Content \cup {NoDigest}]

Path(by, to, item, name) == [by |-> by, to |-> to, item |-> item, name |-> name]

\* To one member: each way a file can take, a folder, and two files of one name, which
\* the receiver, host or joiner, accepts one after the other or at once.
DirectPlans == {c1 :> Path(2, Host, "file", "a"),
                c1 :> Path(Host, 2, "file", "a"),
                c1 :> Path(2, 3, "file", "a"),
                c1 :> Path(2, 3, "folder", "a"),
                c1 :> Path(2, Host, "file", "a") @@ c2 :> Path(3, Host, "file", "a"),
                c1 :> Path(Host, 2, "file", "a") @@ c2 :> Path(Host, 2, "file", "a")}

\* One file for everybody.
BroadcastPlans == {c1 :> Path(Host, All, "file", "a"), c1 :> Path(2, All, "file", "a")}

\* Bound: of two files, one goes wrong once - their paths clash, or one is edited, or
\* its preparation or its download fails; members quit channels as they like.
Mishaps ==
  Cardinality(clashes) + Cardinality(failed)
    + Cardinality({c \in DOMAIN plan : prepared[c].stage \in {"failed", "given up"}})
    + Cardinality({c \in DOMAIN plan : source[c] # Source(c, "offered")})
InBounds == Cardinality(DOMAIN plan) = 2 => Mishaps =< 1

\* reply is read only in the step that writes it.
MCView == <<room, plan, links, provider, accepted, clashes, downloads, received, files, outcome>>
=============================================================================
