---------------------------- MODULE MCCreditFlow ----------------------------
(***************************************************************************)
(* CreditFlow with a file of a few windows, neither window nor size a      *)
(* multiple of the grant, and chunks that split and overlap grants.        *)
(***************************************************************************)
EXTENDS CreditFlow
=============================================================================
