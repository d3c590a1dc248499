------------------------ MODULE MCTransferAutomation ------------------------
(***************************************************************************)
(* A room of up to three automation programs, at least one of which sends. *)
(***************************************************************************)
EXTENDS TransferAutomation

MCKinds  == {"file"}
MCOffers == {"provisional", "digest"}

\* A one-shot sender that is the host, the first joiner or the last, with a receiver
\* of either kind, of which either may be the host; and a sender that stays.
MCModes ==
  {<<"oneshot", "receive", "stdout">>, <<"receive", "oneshot", "stdout">>,
   <<"stdout", "receive", "oneshot">>, <<"receive", "send", "stdout">>}

\* A one-shot sender that hosts, and one receiver.
MCOneShot == {<<"oneshot", "receive">>}

\* reply is read only in the step that writes it.
MCView == <<room, mode, ctl, links, copy, transfers, faults>>
=============================================================================
