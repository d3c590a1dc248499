----------------------------- MODULE CreditFlow -----------------------------
(***************************************************************************)
(* The windowed copy of one file over a transfer stream                    *)
(* (skyffla-transport/src/lib.rs): serve_file_with_credit on the sender's  *)
(* side, receive_file_to_temp on the receiver's.  The receiver grants a    *)
(* window, then returns credit for what it has written to disk once that   *)
(* is enough to be worth a message; the sender sends no more than it has   *)
(* credit for.  Contents and hashes are left out.                          *)
(*                                                                         *)
(* Credit is counted from the start: the message "n more bytes" is         *)
(* modelled as the total it takes the receiver's grants to.  Totals only   *)
(* grow, so the messages under way are a set, read from the smallest on.   *)
(***************************************************************************)
EXTENDS Integers

CONSTANTS
  Size,    \* the size the sender advertised
  Window,  \* TRANSFER_WINDOW_BYTES
  Grant,   \* TRANSFER_CREDIT_GRANT_BYTES
  Chunk    \* TRANSFER_CHUNK_BYTES

ASSUME SizesAssumption ==
         /\ Size \in Nat
         /\ Window \in Nat /\ Grant \in Nat /\ Chunk \in Nat
         /\ 0 < Chunk /\ 0 < Grant /\ Grant <= Window

VARIABLES
  length,   \* what the source file really holds by now
  sent,     \* sender: bytes_complete
  limit,    \* sender: bytes_complete + available_credit
  sender,   \* "sending", then "done" or "failed"; the stream ends with either
  credits,  \* credit messages on their way to the sender
  got,      \* receiver: bytes_complete
  granted,  \* receiver: all the credit it has sent
  pending,  \* receiver: credit_pending
  receiver, \* "receiving", then "done" or "failed"
  broken    \* was the connection lost, or has the receiver's disk failed?

sending   == <<sent, limit, sender>>
receiving == <<got, granted, pending, receiver>>
vars == <<length, sending, credits, receiving, broken>>

\* The receiver grants the window before it starts to read.  The source may have
\* shrunk or grown since its size was advertised.
Init ==
  /\ length \in {Size - 1, Size, Size + 1} \cap Nat
  /\ sent = 0
  /\ limit = 0
  /\ sender = "sending"
  /\ credits = {Window}
  /\ got = 0
  /\ granted = Window
  /\ pending = 0
  /\ receiver = "receiving"
  /\ broken = FALSE

-----------------------------------------------------------------------------
(* serve_file_with_credit                                                  *)

Sending == sender = "sending" /\ ~broken

\* The first credit is read before anything else, also for an empty file; later
\* ones when the credit is used up.
ReadCredit ==
  /\ Sending
  /\ sent = limit
  /\ limit = 0 \/ sent < Size
  /\ \E total \in credits :
       /\ \A other \in credits : total <= other
       /\ limit' = total
       /\ credits' = credits \ {total}
  /\ UNCHANGED <<length, sent, sender, receiving, broken>>

SendUncapped(n) ==                 \* bug: what remains to be sent is not asked for
  /\ Sending /\ sent < Size
  /\ n <= limit - sent /\ n <= length - sent
  /\ sent' = sent + n
  /\ UNCHANGED <<length, limit, sender, credits, receiving, broken>>

\* A chunk of n bytes is read from the file and written to the stream; for a
\* while this may work when the receiver is gone already.
Send(n) ==
  /\ Sending
  /\ n <= limit - sent /\ n <= Size - sent /\ n <= length - sent
  /\ sent' = sent + n
  /\ UNCHANGED <<length, limit, sender, credits, receiving, broken>>

KeepReading == FALSE               \* bug: the end of the source is no error

\* The source ends before Size bytes.
SourceTooShort ==
  /\ Sending
  /\ sent < limit /\ sent < Size /\ sent >= length
  /\ sender' = "failed"
  /\ UNCHANGED <<length, sent, limit, credits, receiving, broken>>

\* A read of credit or a write of data fails.
ReceiverLost ==
  /\ sender = "sending"
  /\ broken \/ receiver # "receiving"
  /\ limit = 0 \/ sent < Size
  /\ sender' = "failed"
  /\ UNCHANGED <<length, sent, limit, credits, receiving, broken>>

\* The write of the last chunk fails on a stream that the receiver has closed,
\* which the sender takes for success.
LastChunkRefused ==
  /\ sender = "sending"
  /\ receiver # "receiving"
  /\ sent < Size /\ Size <= length /\ Size <= limit /\ Size <= sent + Chunk
  /\ sent' = Size
  /\ sender' = "done"
  /\ UNCHANGED <<length, limit, credits, receiving, broken>>

SentAll ==
  /\ sender = "sending"
  /\ limit > 0
  /\ sent = Size
  /\ sender' = "done"
  /\ UNCHANGED <<length, sent, limit, credits, receiving, broken>>

-----------------------------------------------------------------------------
(* receive_file_to_temp                                                    *)

LateGrant(p) == p > Window         \* bug: waits for more than the sender may send

\* credit_pending that is worth a message
EnoughToGrant(p) == p >= Grant

ReceiveKeeping(n) ==               \* bug: credit_pending is not reset
  /\ receiver = "receiving" /\ ~broken
  /\ n <= sent - got
  /\ got' = got + n
  /\ pending' = pending + n
  /\ IF EnoughToGrant(pending') /\ got' < Size /\ sender = "sending"
     THEN granted' = granted + pending' /\ credits' = credits \cup {granted'}
     ELSE UNCHANGED <<granted, credits>>
  /\ UNCHANGED <<length, sending, receiver, broken>>

\* n bytes are read and written to the file, and credit is returned.  When the
\* sender no longer reads credit, sending it fails, which is no error.
Receive(n) ==
  /\ receiver = "receiving" /\ ~broken
  /\ n <= sent - got
  /\ got' = got + n
  /\ IF EnoughToGrant(pending + n) /\ got' < Size /\ sender = "sending"
     THEN /\ pending' = 0
          /\ granted' = granted + pending + n
          /\ credits' = credits \cup {granted'}
     ELSE /\ pending' = pending + n
          /\ UNCHANGED <<granted, credits>>
  /\ UNCHANGED <<length, sending, receiver, broken>>

StreamEndsEarly ==                 \* bug: the end is seen before the last bytes
  /\ receiver = "receiving"
  /\ sender # "sending"
  /\ receiver' = IF got = Size THEN "done" ELSE "failed"
  /\ UNCHANGED <<length, sending, credits, got, granted, pending, broken>>

\* The end of the stream, behind everything that was sent: the size is compared.
StreamEnds ==
  /\ receiver = "receiving"
  /\ sender # "sending" /\ got = sent
  /\ receiver' = IF got = Size THEN "done" ELSE "failed"
  /\ UNCHANGED <<length, sending, credits, got, granted, pending, broken>>

\* A read error is forgiven once everything is there.
ReadFails ==
  /\ receiver = "receiving"
  /\ broken
  /\ receiver' = IF got >= Size THEN "done" ELSE "failed"
  /\ UNCHANGED <<length, sending, credits, got, granted, pending, broken>>

\* The connection is lost, or the file cannot be written.
ConnectionLost ==
  /\ ~broken
  /\ broken' = TRUE
  /\ UNCHANGED <<length, sending, credits, receiving>>

DiskFails ==
  /\ receiver = "receiving" /\ ~broken
  /\ receiver' = "failed"
  /\ broken' = TRUE
  /\ UNCHANGED <<length, sending, credits, got, granted, pending>>

-----------------------------------------------------------------------------
SendingStep ==
  \/ ReadCredit
  \/ \E n \in 1 .. Chunk : Send(n)
  \/ SourceTooShort
  \/ ReceiverLost
  \/ LastChunkRefused
  \/ SentAll

ReceivingStep ==
  \/ \E n \in 1 .. Chunk : Receive(n)
  \/ StreamEnds
  \/ ReadFails

Next == SendingStep \/ ReceivingStep \/ ConnectionLost \/ DiskFails

\* Both ends are tasks that the runtime keeps polling; nothing has to break.
Spec == Init /\ [][Next]_vars /\ WF_vars(SendingStep) /\ WF_vars(ReceivingStep)

-----------------------------------------------------------------------------
(* Properties.                                                             *)

\* Counters stay within the advertised size and the credit within its reach.
TypeOK ==
  /\ length \in Nat
  /\ sent \in 0 .. Size /\ got \in 0 .. Size
  /\ sender \in {"sending", "done", "failed"}
  /\ receiver \in {"receiving", "done", "failed"}
  /\ granted \in Nat /\ limit \in Nat /\ pending \in Nat
  /\ credits \subseteq Nat
  /\ broken \in BOOLEAN

\* What is on its way, or waits in the receiver's stream buffers, never exceeds
\* the window: a receiver with a slow disk is not flooded.
WindowRespected ==
  sender = "sending" => sent - got <= Window

\* The grant threshold never leaves both ends waiting for each other, whatever
\* sizes chunks come in: there is credit left or under way, data to receive, or
\* nothing more to send.
NeverStalled ==
  sender = "sending" /\ receiver = "receiving"
    => \/ sent < limit
       \/ credits # {}
       \/ got < sent
       \/ limit > 0 /\ sent = Size

\* Both ends come to an end, whatever happens to the file or the connection.
Finishes == <>(sender # "sending" /\ receiver # "receiving")

\* A file that is as long as announced arrives, unless something breaks.
Delivered == (length >= Size) => <>(receiver = "done" \/ broken)
=============================================================================
