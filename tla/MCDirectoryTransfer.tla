-------------------------- MODULE MCDirectoryTransfer --------------------------
(***************************************************************************)
(* DirectoryTransfer with two receivers of one folder: one with a pool     *)
(* that takes all files at once and a second attempt, one whose single     *)
(* worker takes them one after the other.                                  *)
(***************************************************************************)
EXTENDS DirectoryTransfer

CONSTANTS r1, r2

MCReceiver == {r1, r2}
MCWorkers  == [r \in MCReceiver |-> IF r = r1 THEN 2 ELSE 1]
MCAttempts == [r \in MCReceiver |-> IF r = r1 THEN 2 ELSE 1]
=============================================================================
