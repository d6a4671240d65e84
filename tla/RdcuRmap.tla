------------------------------ MODULE RdcuRmap ------------------------------
(***************************************************************************)
(* The RMAP transport of the RDCU library (lib/rdcu_compress/rdcu_rmap.c): *)
(* the transaction log, the submission of register and data syncs, the     *)
(* processing of response packets, and the RDCU at the far end of a        *)
(* SpaceWire link that may drop, truncate or corrupt packets.              *)
(*                                                                         *)
(* A register, or the block of SRAM words one packet carries, is one       *)
(* element of Addr holding one Word; what is an address on the RDCU is     *)
(* also its place in the local mirror.  The library is single threaded: pc *)
(* walks through the running library call, and the RDCU and the link act   *)
(* between any two of its steps.                                           *)
(***************************************************************************)
EXTENDS Integers, FiniteSets, Sequences

CONSTANTS TRANS_LOG_SIZE,  \* slots of the transaction log
          ReadReg,         \* registers the RDCU writes, synced to the mirror
          WriteReg,        \* registers the ICU writes, synced to the RDCU
          Sram,            \* SRAM blocks, synced in both directions
          Word,            \* contents of a register or block
          Null,            \* no word
          ByteSwap,        \* be32_to_cpu of every 32-bit word, a function
          Checksum,        \* values of the data CRC, 8 bits in the code
          Crc8,            \* rmap_crc8 of a word, a function
          LittleEndian,    \* the byte order the library was built for
          Faults,          \* what may go wrong, a subset of Fault
          CallerWaits,     \* the caller keeps syncs of one address apart
          ResetBacklog     \* bound: packets on the link when the log is reset

Fault == {"lost_command", "rejected", "lost_reply", "garbled", "bad_length",
          "corrupt",        \* the payload of a reply or its checksum is damaged
          "corrupt_both",   \* both are
          "damaged_header", \* the header of a reply is, in a way no check sees
          "no_memory", "no_command", "tx_error"}

Slot == 0 .. TRANS_LOG_SIZE - 1
Addr == ReadReg \cup WriteReg \cup Sram
Readable == ReadReg \cup Sram
Writable == WriteReg \cup Sram

ASSUME LogAssumption == TRANS_LOG_SIZE \in 1 .. 65536
ASSUME AddrAssumption ==
  /\ ReadReg \cap WriteReg = {} /\ (ReadReg \cup WriteReg) \cap Sram = {}
  /\ Null \notin Addr \cup Word \cup Slot
ASSUME WordAssumption ==
  Word # {} /\ ByteSwap \in [Word -> Word] /\ Crc8 \in [Word -> Checksum]
ASSUME BuildAssumption ==
  /\ LittleEndian \in BOOLEAN /\ CallerWaits \in BOOLEAN /\ ResetBacklog \in Nat
  /\ Faults \subseteq Fault

VARIABLES in_use,      \* trans_log.in_use
          local_addr,  \* trans_log.local_addr
          pending,     \* trans_log.pending
          mirror,      \* the local copy of the RDCU's registers and SRAM
          pc,          \* where the running library call is
          after,       \* where it goes on behind the processing of responses
          slot,        \* its transaction
          arg,         \* the address it syncs
          reading,     \* whether it reads from the RDCU
          buf,         \* the payload, where the library keeps a copy of it
          cmdq,        \* commands on the link, oldest first
          replyq,      \* responses on the link, oldest first
          remote,      \* registers and SRAM of the RDCU
          dirty,       \* history: addresses changed since their last sync
          leaked,      \* history: slots whose transaction can never be answered
          misled       \* history: a packet has had an identifier that is not its own

log  == <<in_use, local_addr, pending>>
call == <<pc, after, slot, arg, reading, buf>>
link == <<cmdq, replyq, misled>>
vars == <<log, mirror, call, link, remote, dirty, leaked>>

Cmd == [tr : Slot, read : {TRUE}, addr : Addr, data : {Null}] \cup
       [tr : Slot, read : {FALSE}, addr : Addr, data : Word]
Reply == [tr : Slot, addr : Addr, data : Word \cup {Null}]

LogType ==
  /\ in_use \in [Slot -> BOOLEAN]
  /\ local_addr \in [Slot -> Addr \cup {Null}]
  /\ \A s \in Slot : in_use[s] => local_addr[s] \in Addr
  /\ pending \in Int

CallType ==
  /\ pc \in {"idle", "rx", "grab", "tx"}
  /\ after \in {"idle", "grab", "tx"}
  /\ pc # "rx" => pc = after
  /\ slot \in IF after = "tx" THEN Slot ELSE {Null}
  /\ arg \in IF after = "idle" THEN {Null} ELSE Addr
  /\ reading \in BOOLEAN
  /\ buf \in Word \cup {Null}

MemType ==
  /\ mirror \in [Addr -> Word]
  /\ remote \in [Addr -> Word]
  /\ dirty \subseteq Addr
  /\ leaked \subseteq Slot

LinkType == cmdq \in Seq(Cmd) /\ replyq \in Seq(Reply) /\ misled \in BOOLEAN

TypeOK == LogType /\ CallType /\ MemType /\ LinkType

Init ==
  /\ in_use = [s \in Slot |-> FALSE]
  /\ local_addr = [s \in Slot |-> Null]
  /\ pending = 0
  /\ \E w \in Word : mirror = [a \in Addr |-> w]
  /\ remote \in [Addr -> Word]
  /\ pc = "idle" /\ after = "idle" /\ slot = Null /\ arg = Null
  /\ reading = FALSE /\ buf = Null
  /\ cmdq = <<>> /\ replyq = <<>>
  /\ dirty = Addr
  /\ leaked = {}
  /\ misled = FALSE

-----------------------------------------------------------------------------
(* The transaction log *)

\* Mutant of GrabSlot: the address is not stored.
GrabSlotNoAddress(s, a) ==
  /\ ~ in_use[s]
  /\ \A t \in Slot : ~ in_use[t] => s <= t
  /\ in_use' = [in_use EXCEPT ![s] = TRUE]
  /\ pending' = pending + 1
  /\ UNCHANGED local_addr

\* trans_log_grab_slot: the first free slot s is taken for local address a.
GrabSlot(s, a) ==
  /\ ~ in_use[s]
  /\ \A t \in Slot : ~ in_use[t] => s <= t
  /\ in_use' = [in_use EXCEPT ![s] = TRUE]
  /\ local_addr' = [local_addr EXCEPT ![s] = a]
  /\ pending' = pending + 1

LogFull == \A s \in Slot : in_use[s]

\* trans_log_release_slot
ReleaseSlot(s) ==
  /\ in_use' = [in_use EXCEPT ![s] = FALSE]
  /\ pending' = IF in_use[s] THEN pending - 1 ELSE pending
  /\ UNCHANGED local_addr

-----------------------------------------------------------------------------
(* The running call *)

\* The call processes the responses on the link and goes on at next.
ProcessRxThen(next, s, a, read, b) ==
  /\ pc' = "rx" /\ after' = next
  /\ slot' = s /\ arg' = a /\ reading' = read /\ buf' = b

Return ==
  /\ pc' = "idle" /\ after' = "idle"
  /\ slot' = Null /\ arg' = Null /\ reading' = FALSE /\ buf' = Null

-----------------------------------------------------------------------------
(* Calls of the user.  A caller that follows the USAGE notes waits for the *)
(* transactions of an address before it uses the address again.            *)

ReadOutstanding(a) ==
  \/ \E i \in DOMAIN cmdq : cmdq[i].addr = a /\ cmdq[i].read
  \/ \E i \in DOMAIN replyq : replyq[i].addr = a /\ replyq[i].data # Null

MayWrite(a) == CallerWaits => ~ ReadOutstanding(a)

\* A register setter or rdcu_write_sram: only the mirror changes.
WriteMirror(a, w) ==
  /\ pc = "idle"
  /\ MayWrite(a)
  /\ mirror' = [mirror EXCEPT ![a] = w]
  /\ dirty' = dirty \cup {a}
  /\ UNCHANGED <<log, call, link, remote, leaked>>

\* What rdcu_sync copies before it processes responses: a little endian build
\* converts the register into a buffer of its own.
CopiedBeforeTx(a, read) == IF LittleEndian /\ ~ read THEN ByteSwap[mirror[a]] ELSE Null

\* The command generator or malloc() fails: the call returns -1 and the slot it
\* grabbed stays in use.
NoCommand(s) ==
  /\ "no_command" \in Faults
  /\ leaked' = leaked \cup {s}
  /\ Return

\* rdcu_sync: grab a slot, generate the command, then rdcu_submit_tx.
Sync(a, read) ==
  /\ pc = "idle"
  /\ IF read THEN a \in ReadReg ELSE a \in WriteReg /\ MayWrite(a)
  /\ \E s \in Slot :
       /\ GrabSlot(s, a)
       /\ \/ NoCommand(s)
          \/ /\ ProcessRxThen("tx", s, a, read, CopiedBeforeTx(a, read))
             /\ UNCHANGED leaked
  /\ UNCHANGED <<mirror, link, remote, dirty>>

\* rdcu_sync_data: process responses, then try to grab a slot.
SyncData(a, read) ==
  /\ pc = "idle"
  /\ ~ read => MayWrite(a)
  /\ ProcessRxThen("grab", Null, a, read, Null)
  /\ UNCHANGED <<log, mirror, link, remote, dirty, leaked>>

\* ... it returns 1 (retry) when all slots are busy; otherwise rdcu_submit_tx
\* processes the responses once more.
Grab ==
  /\ pc = "grab"
  /\ \/ LogFull /\ Return /\ UNCHANGED <<log, leaked>>
     \/ \E s \in Slot :
          /\ GrabSlot(s, arg)
          /\ \/ NoCommand(s)
             \/ /\ ProcessRxThen("tx", s, arg, reading, Null)
                /\ UNCHANGED leaked
  /\ UNCHANGED <<mirror, link, remote, dirty>>

\* Mutant of SyncStatus: it reads the counter without processing responses.
SyncStatusOnly ==
  /\ pc = "idle"
  /\ UNCHANGED vars

\* rdcu_rmap_sync_status: process responses; the caller then sees pending.
SyncStatus ==
  /\ pc = "idle"
  /\ ProcessRxThen("idle", Null, Null, FALSE, Null)
  /\ UNCHANGED <<log, mirror, link, remote, dirty, leaked>>

\* Mutant of ResetLog: the counter is not reset.
ResetLogPending ==
  /\ pc = "idle"
  /\ Len(cmdq) + Len(replyq) <= ResetBacklog
  /\ in_use' = [s \in Slot |-> FALSE]
  /\ leaked' = {}
  /\ misled' = (misled \/ cmdq # <<>> \/ replyq # <<>>)
  /\ UNCHANGED <<local_addr, pending, mirror, call, cmdq, replyq, remote, dirty>>

\* rdcu_rmap_reset_log.  The identifiers of packets that are on the link then are
\* given out again.
ResetLog ==
  /\ pc = "idle"
  /\ Len(cmdq) + Len(replyq) <= ResetBacklog
  /\ in_use' = [s \in Slot |-> FALSE]
  /\ pending' = 0
  /\ leaked' = {}
  /\ misled' = (misled \/ cmdq # <<>> \/ replyq # <<>>)
  /\ UNCHANGED <<local_addr, mirror, call, cmdq, replyq, remote, dirty>>

\* rmap_tx takes the packet, or fails and the slot stays in use.
Payload ==
  IF reading THEN Null ELSE IF buf # Null THEN buf ELSE mirror[arg]

Tx ==
  /\ pc = "tx"
  /\ Return
  /\ \/ /\ cmdq' = Append(cmdq, [tr |-> slot, read |-> reading,
                                 addr |-> arg, data |-> Payload])
        /\ dirty' = dirty \ {arg}
        /\ UNCHANGED leaked
     \/ /\ "tx_error" \in Faults
        /\ leaked' = leaked \cup {slot}
        /\ UNCHANGED <<cmdq, dirty>>
  /\ UNCHANGED <<log, mirror, replyq, remote, misled>>

-----------------------------------------------------------------------------
(* rdcu_process_rx, one packet a step *)

\* The loop ends, or returns -1, and the call goes on behind it: the result of
\* rdcu_process_rx is not used by any caller.
LeaveRx == pc' = after /\ UNCHANGED <<after, slot, arg, reading, buf>>

RxEmpty ==
  /\ pc = "rx" /\ replyq = <<>>
  /\ LeaveRx
  /\ UNCHANGED <<log, mirror, link, remote, dirty, leaked>>

\* malloc() fails, the packet stays with the driver.
RxNoMemory ==
  /\ pc = "rx" /\ replyq # <<>> /\ "no_memory" \in Faults
  /\ LeaveRx
  /\ UNCHANGED <<log, mirror, link, remote, dirty, leaked>>

Receive ==
  /\ pc = "rx" /\ replyq # <<>>
  /\ replyq' = Tail(replyq)
  /\ UNCHANGED <<cmdq, remote, dirty, misled>>

\* rmap_pkt_from_buffer rejects the packet.
RxGarbled ==
  /\ Receive /\ "garbled" \in Faults
  /\ leaked' = IF in_use[Head(replyq).tr] THEN leaked \cup {Head(replyq).tr} ELSE leaked
  /\ UNCHANGED <<log, mirror, call>>

\* trans_log_get_addr finds no transaction of that identifier.
RxUnknown ==
  /\ Receive /\ ~ in_use[Head(replyq).tr]
  /\ UNCHANGED <<log, mirror, call, leaked>>

\* Mutant of RxBadLength: the transaction is not dropped.
RxBadLengthKept ==
  /\ Receive /\ "bad_length" \in Faults
  /\ in_use[Head(replyq).tr] /\ Head(replyq).data # Null
  /\ LeaveRx
  /\ UNCHANGED <<log, mirror, leaked>>

\* The data length is not a multiple of 4: transaction dropped.
RxBadLength ==
  /\ Receive /\ "bad_length" \in Faults
  /\ in_use[Head(replyq).tr] /\ Head(replyq).data # Null
  /\ ReleaseSlot(Head(replyq).tr)
  /\ LeaveRx
  /\ UNCHANGED <<mirror, leaked>>

\* The payload and its checksum as they arrive.  The RDCU computed the checksum
\* over the payload it sent.
Arriving(rp) ==
  {p \in Word \X Checksum :
     \/ p = <<rp.data, Crc8[rp.data]>>
     \/ "corrupt" \in Faults /\ (p[1] = rp.data \/ p[2] = Crc8[rp.data])
     \/ "corrupt_both" \in Faults}

\* In-place conversion of the payload to the byte order of the host.
ToHost(w) == IF LittleEndian THEN ByteSwap[w] ELSE w

\* Mutant of CrcMatches: the checksum is not looked at.
CrcIgnored(w, crc) == TRUE

\* rmap_crc8 of the converted payload against the checksum of the packet: a damaged
\* payload may have the same.
CrcMatches(w, crc) == Crc8[ToHost(w)] = crc

\* The mirror when w, sent for a register or block of the kind of from, is copied to a.
\* The length is that of the packet: a register fills only a part of a block, a
\* block runs over the registers behind the one it goes to.
Copied(from, a, w) ==
  IF (a \in Sram) = (from \in Sram) THEN {[mirror EXCEPT ![a] = w]}
  ELSE IF a \in Sram THEN {[mirror EXCEPT ![a] = v] : v \in Word}
  ELSE {m \in [Addr -> Word] : \A b \in Sram : m[b] = mirror[b]}

\* Mutants of RxNoData: the transaction is not completed; a packet with data is
\* taken for an acknowledgement.
RxNoDataKept ==
  /\ Receive
  /\ in_use[Head(replyq).tr] /\ Head(replyq).data = Null
  /\ UNCHANGED <<log, mirror, call, leaked>>
RxNoDataAll ==
  /\ Receive
  /\ in_use[Head(replyq).tr]
  /\ ReleaseSlot(Head(replyq).tr)
  /\ UNCHANGED <<mirror, call, leaked>>

\* A packet without data (write acknowledged, or any error status, which is not
\* looked at) completes the transaction.
RxNoData ==
  /\ Receive
  /\ in_use[Head(replyq).tr] /\ Head(replyq).data = Null
  /\ ReleaseSlot(Head(replyq).tr)
  /\ UNCHANGED <<mirror, call, leaked>>

RxData(w, crc) ==
  /\ Receive
  /\ in_use[Head(replyq).tr] /\ Head(replyq).data # Null
  /\ <<w, crc>> \in Arriving(Head(replyq))
  /\ ReleaseSlot(Head(replyq).tr)
  /\ \/ /\ CrcMatches(w, crc)
        /\ mirror' \in Copied(Head(replyq).addr, local_addr[Head(replyq).tr], ToHost(w))
        /\ UNCHANGED call
     \/ /\ ~ CrcMatches(w, crc)
        /\ LeaveRx
        /\ UNCHANGED mirror
  /\ UNCHANGED leaked

-----------------------------------------------------------------------------
(* The RDCU and the link (not part of the library) *)

Executed(c) == [tr |-> c.tr, addr |-> c.addr,
                data |-> IF c.read THEN remote[c.addr] ELSE Null]

RdcuExecute ==
  /\ cmdq # <<>>
  /\ cmdq' = Tail(cmdq)
  /\ remote' = IF Head(cmdq).read THEN remote
               ELSE [remote EXCEPT ![Head(cmdq).addr] = Head(cmdq).data]
  /\ replyq' = Append(replyq, Executed(Head(cmdq)))
  /\ UNCHANGED <<log, mirror, call, dirty, leaked, misled>>

\* The RDCU answers with an error status and no data.
RdcuReject ==
  /\ cmdq # <<>> /\ "rejected" \in Faults
  /\ cmdq' = Tail(cmdq)
  /\ replyq' = Append(replyq, [Executed(Head(cmdq)) EXCEPT !.data = Null])
  /\ UNCHANGED <<log, mirror, call, remote, dirty, leaked, misled>>

\* The RDCU's own logic changes a register or the SRAM.
RdcuUpdate(a, w) ==
  /\ remote' = [remote EXCEPT ![a] = w]
  /\ dirty' = dirty \cup {a}
  /\ UNCHANGED <<log, mirror, call, link, leaked>>

\* The transaction of a lost packet stays in the log for good.
Abandon(s) == leaked' = IF in_use[s] THEN leaked \cup {s} ELSE leaked

LoseCommand ==
  /\ cmdq # <<>> /\ "lost_command" \in Faults
  /\ cmdq' = Tail(cmdq)
  /\ Abandon(Head(cmdq).tr)
  /\ UNCHANGED <<log, mirror, call, replyq, remote, dirty, misled>>

LoseReply ==
  /\ replyq # <<>> /\ "lost_reply" \in Faults
  /\ replyq' = Tail(replyq)
  /\ Abandon(Head(replyq).tr)
  /\ UNCHANGED <<log, mirror, call, cmdq, remote, dirty, misled>>

\* The header of a reply is damaged so that it can still be read.  Nobody compares its
\* CRC: the packet names another transaction, or, with another command code or
\* length, carries no data.  (Other damage ends like a lost reply, a garbled packet
\* or one of bad length.)
DamageHeader ==
  /\ replyq # <<>> /\ "damaged_header" \in Faults
  /\ \E t \in Slot, d \in {Head(replyq).data, Null} :
       /\ replyq' = [replyq EXCEPT ![1].tr = t, ![1].data = d]
       /\ IF t = Head(replyq).tr THEN UNCHANGED <<leaked, misled>>
          ELSE Abandon(Head(replyq).tr) /\ misled' = TRUE
  /\ UNCHANGED <<log, mirror, call, cmdq, remote, dirty>>

-----------------------------------------------------------------------------
Rx == RxEmpty \/ RxNoMemory \/ RxGarbled \/ RxUnknown \/ RxBadLength \/ RxNoData
      \/ \E w \in Word, crc \in Checksum : RxData(w, crc)

Library == Rx \/ Grab \/ Tx

Caller ==
  \/ \E a \in Writable, w \in Word : WriteMirror(a, w)
  \/ \E a \in ReadReg : Sync(a, TRUE)
  \/ \E a \in WriteReg : Sync(a, FALSE)
  \/ \E a \in Sram, read \in BOOLEAN : SyncData(a, read)
  \/ SyncStatus
  \/ ResetLog

Rdcu ==
  \/ RdcuExecute \/ RdcuReject \/ LoseCommand \/ LoseReply \/ DamageHeader
  \/ \E a \in Readable, w \in Word : RdcuUpdate(a, w)

Next == Library \/ Caller \/ Rdcu

Spec == Init /\ [][Next]_vars

(***************************************************************************)
(* A library call runs to its end; the RDCU answers what it receives; the  *)
(* caller polls rdcu_rmap_sync_status as the USAGE notes of rdcu_ctrl.c    *)
(* tell it to.                                                             *)
(***************************************************************************)
FairSpec == Spec /\ WF_vars(Library) /\ WF_vars(RdcuExecute) /\ WF_vars(SyncStatus)
-----------------------------------------------------------------------------
(* Correctness *)

InUse == {s \in Slot : in_use[s]}
Packets(q) == {q[i].tr : i \in DOMAIN q}
Distinct(q) == \A i, j \in DOMAIN q : q[i].tr = q[j].tr => i = j
Tracked(q) == \A i \in DOMAIN q : local_addr[q[i].tr] = q[i].addr
CallSlot == {slot} \ {Null}
InFlight == Packets(cmdq) \cup Packets(replyq) \cup CallSlot

\* The counter of pending operations counts the slots in use, whatever mix of
\* completed, dropped, failed and reset transactions came before.
PendingCount == pending = Cardinality(InUse)

\* A transaction identifier names one transaction: each slot in use has exactly
\* one of a command on the link, a response on the link, the running call, or a
\* transaction that was lost, and the slot holds the local address of it.  That is
\* so until a packet comes with an identifier that is not its own, which nothing in
\* the library finds out: because its header was damaged (the header CRC is not
\* compared) or because it is older than the last reset of the log.
Owners ==
  /\ Distinct(cmdq) /\ Distinct(replyq)
  /\ Tracked(cmdq) /\ Tracked(replyq)
  /\ Packets(cmdq) \cap Packets(replyq) = {}
  /\ CallSlot \cap (Packets(cmdq) \cup Packets(replyq)) = {}
  /\ leaked \cap InFlight = {}
  /\ InUse = InFlight \cup leaked
  /\ \A s \in CallSlot : local_addr[s] = arg
OneOwner == misled \/ Owners

\* A response changes the mirror only at the address its own command named ("so we'll
\* know where to put the data"), and only to what the RDCU had there when it executed
\* that command, in the byte order of the host, or to contents of the same checksum.
\* Excepted is what follows a packet with the identifier of another transaction.
Delivers(rp) ==
  \E v \in Word : /\ v = ToHost(rp.data) \/ Crc8[v] = Crc8[rp.data]
                 /\ mirror' = [mirror EXCEPT ![rp.addr] = v]
RxDelivers ==
  [][\/ \E a \in Writable, w \in Word : WriteMirror(a, w)
     \/ mirror' = mirror \/ misled
     \/ replyq # <<>> /\ Delivers(Head(replyq))]_vars

\* "if pending is not set, the synchronisation procedure is complete and the
\* local data may be read, or the remote data has been written" (rdcu_rmap.c,
\* comment of the transaction log): every address that neither side changed
\* after its last sync was submitted is the same on both sides.
InSync(a) == mirror[a] = IF a \in Sram THEN remote[a] ELSE ToHost(remote[a])
SyncComplete == pending = 0 => \A a \in Addr \ dirty : InSync(a)

\* "0: synchronised, > 0: operations pending" (rdcu_rmap_sync_status): a caller
\* that is told to wait waits for something that can still happen.
StatusMeansPending == pending > 0 => InFlight # {}

\* Every transaction is answered and its slot given back, so that a caller that
\* waits for rdcu_rmap_sync_status() to return 0 and one that retries on a full
\* log get on.
Answered == \A s \in Slot : in_use[s] ~> ~ in_use[s]
=============================================================================
