--------------------------- MODULE MCHostRuntime ---------------------------
(***************************************************************************)
(* One process started with "host" and two with "join"; any of the three   *)
(* may get the room, and the other two may be its joiners.                 *)
(***************************************************************************)
EXTENDS HostRuntime

CONSTANTS h, j1, j2

MCProcess == {h, j1, j2}
MCHosting == {h}

\* Bound: with one command to give, j1 stands for the joiner that gives it, for the two
\* are alike.  No Progress step gives a command, so nothing that must happen is cut.
OneSpeaks == \A i \in DOMAIN outbox[j2] : outbox[j2][i] # "command"
=============================================================================
