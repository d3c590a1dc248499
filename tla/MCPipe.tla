------------------------------- MODULE MCPipe -------------------------------
(***************************************************************************)
(* Pipe with a host and two joiners.                                       *)
(***************************************************************************)
EXTENDS Pipe

MCAnySource  == {1, 2, 3}
MCHostSource == {1}
MCOld        == {3}
MCNone       == {}
=============================================================================
