----------------------------- MODULE MCRdcuRmap -----------------------------
(* Small instances of RdcuRmap: words of two bytes, so that a byte swap      *)
(* changes some words and leaves others as they are.                         *)
EXTENDS RdcuRmap

\* 1 and 2 are each other's byte swap, 3 reads the same in both orders.
MCByteSwap == [w \in Word |-> IF w = 1 THEN 2 ELSE IF w = 2 THEN 1 ELSE w]

\* 3 has the checksum of 1.
MCCrc8 == [w \in Word |-> IF w = 2 THEN 1 ELSE 0]

\* What OneOwner, RxDelivers and PendingCount can tell apart.  dirty is a history
\* variable none of them is about.  Once the log is misled, only PendingCount says
\* anything: it depends on slots and identifiers and on whether packets carry data, but
\* not on what they carry and where it goes.
MCView ==
  IF misled
  THEN <<in_use, pending, leaked, pc, after, slot, reading,
         [i \in DOMAIN cmdq |-> <<cmdq[i].tr, cmdq[i].read>>],
         [i \in DOMAIN replyq |-> <<replyq[i].tr, replyq[i].data = Null>>]>>
  ELSE <<log, mirror, call, link, remote, leaked>>
=============================================================================
