------------------------------ MODULE SramSync ------------------------------
(***************************************************************************)
(* The transfers between the SRAM of the RDCU and its local mirror         *)
(* (rdcu_sync_mirror_to_sram, rdcu_sync_sram_to_mirror and                 *)
(* rdcu_sync_sram_mirror_parallel of lib/rdcu_compress/rdcu_ctrl.c): the   *)
(* checks of their arguments and the loops that cut a range into packets   *)
(* of at most mtu bytes and hand each to rdcu_sync_data.                   *)
(*                                                                         *)
(* The transport is that of RdcuRmap seen from above: transactions open,   *)
(* on the link or lost, without the identity of their slots.  "rx" is the  *)
(* direction from the RDCU to the mirror, "tx" the other one.              *)
(***************************************************************************)
EXTENDS Integers, FiniteSets, Sequences

CONSTANTS SRAM_SIZE,       \* RDCU_SRAM_SIZE in bytes; RDCU_SRAM_START is 0
          W,               \* 2^32: sums of uint32_t are taken modulo W
          TRANS_LOG_SIZE,  \* transactions that may be open
          Addr, Size, Mtu, \* arguments the callers pass
          Faults           \* what may go wrong, a subset of Fault

Fault == {"lost", "dropped", "error"}

Dir == {"rx", "tx"}
Other(d) == IF d = "rx" THEN "tx" ELSE "rx"

ASSUME SramAssumption == SRAM_SIZE \in Nat /\ W \in Nat /\ 2 * SRAM_SIZE < W
ASSUME ArgAssumption == Addr \cup Size \cup Mtu \subseteq 0 .. W - 1
ASSUME TransportAssumption == TRANS_LOG_SIZE \in Nat \ {0} /\ Faults \subseteq Fault

\* A 32-bit word is named by the address of its first byte.  Word a of the
\* mirror is told from word a of the SRAM, and both from every other word.
Word == {a \in 0 .. SRAM_SIZE - 1 : a % 4 = 0}
Icu(a) == <<"icu", a>>
Rdcu(a) == <<"rdcu", a>>
Content == {Icu(a) : a \in Word} \cup {Rdcu(a) : a \in Word}

VARIABLES op,      \* the running call: "rx", "tx", "both", or "none"
          pc,      \* where it is: "idle", "rx", "grab", "tx"
          next,    \* where it goes on behind rdcu_process_rx
          dir,     \* the direction of the packet it is about to transfer
          mtu,     \* its argument mtu
          addr,    \* rx_addr and tx_addr
          size,    \* rx_size and tx_size
          done,    \* recv and sent
          left,    \* rx_bytes and tx_bytes
          ret,     \* what the last call returned
          mirror,  \* rdcu->sram
          sram,    \* the SRAM of the RDCU
          cmdq,    \* packets on the link to the RDCU
          replyq,  \* packets on the link to the ICU
          lost,    \* history: transactions that can never be answered
          dropped  \* history: data read for this call were dropped

args == <<op, mtu, addr, size>>
loop == <<pc, next, dir, done, left, ret>>
vars == <<args, loop, mirror, sram, cmdq, replyq, lost, dropped>>

Open == Len(cmdq) + Len(replyq) + lost

\* A packet, of whole words of the SRAM; offset -> content of those it carries.
Payload == UNION {[O -> Content] : O \in SUBSET Word}
Packet ==
  {p \in [dir : Dir, at : Nat, local : Nat, len : Nat, data : Payload] :
     p.at % 4 = 0 /\ p.at + p.len <= SRAM_SIZE}

CallType ==
  /\ op \in {"none", "rx", "tx", "both"}
  /\ pc \in {"idle", "rx", "grab", "tx"} /\ next \in {"grab", "tx"}
  /\ (op = "none") <=> (pc = "idle")
  /\ dir \in Dir
  /\ mtu \in 0 .. W - 1
  /\ addr \in [Dir -> 0 .. W - 1] /\ size \in [Dir -> 0 .. W - 1]
  /\ done \in [Dir -> Nat] /\ left \in [Dir -> Nat]
  /\ ret \in {"none", "ok", "error"}
MemType == mirror \in [Word -> Content] /\ sram \in [Word -> Content]
LinkType ==
  /\ cmdq \in Seq(Packet) /\ replyq \in Seq(Packet)
  /\ lost \in Nat /\ dropped \in BOOLEAN

TypeOK == CallType /\ MemType /\ LinkType

Zero == [d \in Dir |-> 0]

Init ==
  /\ op = "none" /\ pc = "idle" /\ next = "grab" /\ dir = "rx" /\ mtu = 0
  /\ addr = Zero /\ size = Zero /\ done = Zero /\ left = Zero
  /\ ret = "none"
  /\ mirror = [a \in Word |-> Icu(a)] /\ sram = [a \in Word |-> Rdcu(a)]
  /\ cmdq = <<>> /\ replyq = <<>> /\ lost = 0 /\ dropped = FALSE

-----------------------------------------------------------------------------
(* Arguments *)

Plus(a, b) == IF a + b < W THEN a + b ELSE a + b - W

\* Mutant of InSram: the size is not looked at by itself.
InSramSum(a, s) ==
  /\ a % 4 = 0 /\ s % 4 = 0
  /\ a < SRAM_SIZE
  /\ Plus(a, s) <= SRAM_SIZE

InSram(a, s) ==
  /\ a % 4 = 0 /\ s % 4 = 0
  /\ a < SRAM_SIZE
  /\ s <= SRAM_SIZE
  /\ Plus(a, s) <= SRAM_SIZE

\* Mutant of Overlap: the end of the read buffer is not looked at.
OverlapEnds(a, s) ==
  /\ a["rx"] < Plus(a["tx"], s["tx"])
  /\ Plus(a["rx"], s["rx"]) >= Plus(a["tx"], s["tx"])

Overlap(a, s) ==
  /\ a["rx"] < Plus(a["tx"], s["tx"])
  /\ Plus(a["rx"], s["rx"]) > a["tx"]

Uses(o, d) == o \in {d, "both"}

Accepted(o, m, a, s) ==
  /\ m % 4 = 0
  /\ \A d \in Dir : Uses(o, d) => InSram(a[d], s[d])
  /\ o = "both" => ~ Overlap(a, s)

-----------------------------------------------------------------------------
(* The loops *)

\* The loop has another packet for direction d: the sequential ones run while
\* (bytes >= mtu), then while (bytes); the parallel one while (bytes).
Wants(o, m, l, d) ==
  IF o = "both" THEN l[d] > 0 ELSE o = d /\ (l[d] >= m \/ l[d] > 0)

\* Mutant of GoOn: responses are processed only before a command is sent.
GoOnNoRx(d) == pc' = "grab" /\ next' = "grab" /\ dir' = d

\* Every rdcu_sync_data starts with rdcu_process_rx.
GoOn(d) == pc' = "rx" /\ next' = "grab" /\ dir' = d

Return(r) ==
  /\ pc' = "idle" /\ op' = "none" /\ ret' = r
  /\ UNCHANGED <<next, dir>>

\* On to the next packet: the parallel loop takes turns.
Loop(o, m, l, d) ==
  \/ /\ Wants(o, m, l, Other(d))
     /\ GoOn(Other(d)) /\ op' = o /\ UNCHANGED ret
  \/ /\ ~ Wants(o, m, l, Other(d)) /\ Wants(o, m, l, d)
     /\ GoOn(d) /\ op' = o /\ UNCHANGED ret
  \/ /\ ~ Wants(o, m, l, Other(d)) /\ ~ Wants(o, m, l, d)
     /\ Return("ok")

\* A call, made when nothing is on the link and both sides hold new contents:
\* o says which of the three functions it is.
Call(o, m, a, s) ==
  /\ op = "none" /\ cmdq = <<>> /\ replyq = <<>>
  /\ mtu' = m /\ addr' = a /\ size' = s
  /\ done' = Zero
  /\ left' = [d \in Dir |-> IF Uses(o, d) THEN s[d] ELSE 0]
  /\ mirror' = [b \in Word |-> Icu(b)] /\ sram' = [b \in Word |-> Rdcu(b)]
  /\ IF Accepted(o, m, a, s) THEN Loop(o, m, left', "tx") ELSE Return("error")
  /\ dropped' = FALSE
  /\ UNCHANGED <<cmdq, replyq, lost>>

Only(d, x) == [e \in Dir |-> IF e = d THEN x ELSE 0]

SyncMirrorToSram ==
  \E m \in Mtu, a \in Addr, s \in Size : Call("tx", m, Only("tx", a), Only("tx", s))

SyncSramToMirror ==
  \E m \in Mtu, a \in Addr, s \in Size : Call("rx", m, Only("rx", a), Only("rx", s))

SyncSramMirrorParallel ==
  \E m \in Mtu, a \in [Dir -> Addr], s \in [Dir -> Size] : Call("both", m, a, s)

-----------------------------------------------------------------------------
(* rdcu_sync_data *)

Put(mem, at, data) ==
  [b \in Word |-> IF b - at \in DOMAIN data THEN data[b - at] ELSE mem[b]]

\* The data of a response are stored, or dropped when their checksum is wrong.
Store(p) ==
  \/ mirror' = Put(mirror, p.local, p.data) /\ UNCHANGED dropped
  \/ "dropped" \in Faults /\ UNCHANGED mirror
     /\ dropped' = (dropped \/ p.dir = "rx")

\* rdcu_process_rx takes a response.
Process ==
  /\ pc = "rx" /\ replyq # <<>>
  /\ Store(Head(replyq))
  /\ replyq' = Tail(replyq)
  /\ UNCHANGED <<args, loop, sram, cmdq, lost>>

\* ... until there are none.
Processed ==
  /\ pc = "rx" /\ replyq = <<>>
  /\ pc' = next
  /\ UNCHANGED <<args, next, dir, done, left, ret, mirror, sram, cmdq, replyq, lost, dropped>>

\* The command cannot be generated or sent: the slot stays in use.
Fail ==
  /\ "error" \in Faults
  /\ lost' = lost + 1
  /\ Return("error")

\* Mutant of Grab: a full log is not noticed.
GrabAlways ==
  /\ pc = "grab"
  /\ \/ Fail
     \/ pc' = "rx" /\ next' = "tx" /\ UNCHANGED <<op, dir, ret, lost>>
  /\ UNCHANGED <<mtu, addr, size, done, left, mirror, sram, cmdq, replyq, dropped>>

\* A full log makes the loop try again; rdcu_submit_tx processes responses
\* before it sends.
Grab ==
  /\ pc = "grab"
  /\ \/ Open >= TRANS_LOG_SIZE /\ Loop(op, mtu, left, dir) /\ UNCHANGED lost
     \/ /\ Open < TRANS_LOG_SIZE
        /\ \/ Fail
           \/ pc' = "rx" /\ next' = "tx" /\ UNCHANGED <<op, dir, ret, lost>>
  /\ UNCHANGED <<mtu, addr, size, done, left, mirror, sram, cmdq, replyq, dropped>>

PacketLen(d) == IF left[d] >= mtu THEN mtu ELSE left[d]

\* Mutant of Read: the start of the buffer is left out.
ReadOffset(mem, at, len) == [o \in {o \in Word : o < len} |-> mem[o]]

Read(mem, at, len) == [o \in {o \in Word : o < len} |-> mem[at + o]]
Nothing == [o \in {} |-> 0]

\* A packet of direction d; a read command carries no data.
NewPacket(d) ==
  LET at == Plus(addr[d], done[d]) IN
  [dir |-> d, at |-> at, local |-> at, len |-> PacketLen(d),
   data |-> IF d = "tx" THEN Read(mirror, at, PacketLen(d)) ELSE Nothing]

\* Mutants of Advance: the position is not moved on; the rest is counted as a
\* whole packet.
AdvanceNot(d) ==
  /\ left' = [left EXCEPT ![d] = @ - PacketLen(d)]
  /\ UNCHANGED done
AdvanceWhole(d) ==
  /\ left' = [left EXCEPT ![d] = @ - mtu]
  /\ done' = [done EXCEPT ![d] = @ + mtu]

\* A whole packet moves the position on, the rest ends the direction.
Advance(d) ==
  /\ left' = [left EXCEPT ![d] = @ - PacketLen(d)]
  /\ done' = IF left[d] >= mtu THEN [done EXCEPT ![d] = @ + mtu] ELSE done

Tx ==
  /\ pc = "tx"
  /\ \/ Fail /\ UNCHANGED <<cmdq, done, left>>
     \/ /\ cmdq' = Append(cmdq, NewPacket(dir))
        /\ Advance(dir)
        /\ Loop(op, mtu, left', dir)
        /\ UNCHANGED lost
  /\ UNCHANGED <<mtu, addr, size, mirror, sram, replyq, dropped>>

\* rdcu_rmap_sync_status of the caller, polled when the call has returned.
Poll ==
  /\ op = "none" /\ replyq # <<>>
  /\ Store(Head(replyq))
  /\ replyq' = Tail(replyq)
  /\ UNCHANGED <<args, loop, sram, cmdq, lost>>

-----------------------------------------------------------------------------
(* The RDCU and the link (not part of the library) *)

Execute ==
  /\ cmdq # <<>>
  /\ cmdq' = Tail(cmdq)
  /\ LET p == Head(cmdq) IN
     IF p.dir = "tx"
     THEN /\ sram' = Put(sram, p.at, p.data)
          /\ replyq' = Append(replyq, [p EXCEPT !.data = Nothing])
     ELSE /\ replyq' = Append(replyq, [p EXCEPT !.data = Read(sram, p.at, p.len)])
          /\ UNCHANGED sram
  /\ UNCHANGED <<args, loop, mirror, lost, dropped>>

LosePacket ==
  /\ "lost" \in Faults
  /\ \/ cmdq # <<>> /\ cmdq' = Tail(cmdq) /\ UNCHANGED replyq
     \/ replyq # <<>> /\ replyq' = Tail(replyq) /\ UNCHANGED cmdq
  /\ lost' = lost + 1
  /\ UNCHANGED <<args, loop, mirror, sram, dropped>>

-----------------------------------------------------------------------------
Calls == SyncMirrorToSram \/ SyncSramToMirror \/ SyncSramMirrorParallel
Library == Process \/ Processed \/ Grab \/ Tx
Link == Execute \/ LosePacket

Next == Calls \/ Library \/ Poll \/ Link

Spec == Init /\ [][Next]_vars

\* The loops run on, and the RDCU answers what it received.
FairSpec == Spec /\ WF_vars(Library) /\ WF_vars(Execute)
-----------------------------------------------------------------------------
(* Correctness *)

Holding == pc = "tx" \/ (pc = "rx" /\ next = "tx")
Asked(d, a) == addr[d] <= a /\ a < addr[d] + size[d]

\* An accepted call never reaches beyond the SRAM and its mirror, whatever the
\* 32-bit sums of its arguments are.
Within ==
  op # "none" =>
    \A d \in Dir : Uses(op, d) => addr[d] + done[d] + left[d] <= SRAM_SIZE

\* The packets of a call tile the range it was asked to transfer: whole words,
\* at most mtu of them, at the same place on both sides, none in two packets
\* and none in a packet that is still to come.
Tile(p) ==
  /\ p.local = p.at /\ p.len % 4 = 0
  /\ (mtu > 0 => p.len > 0) /\ p.len <= mtu
  /\ addr[p.dir] <= p.at
  /\ p.at + p.len <= addr[p.dir] + size[p.dir] - left[p.dir]
Before(p, r) == p.dir = r.dir => p.at + p.len <= r.at
Tiles(q) == \A i \in DOMAIN q : Tile(q[i])
Ascending(q) == \A i, j \in DOMAIN q : i < j => Before(q[i], q[j])
AllBefore(q, r) == \A i \in DOMAIN q, j \in DOMAIN r : Before(q[i], r[j])
PacketsTile ==
  /\ Tiles(cmdq) /\ Tiles(replyq)
  /\ Ascending(cmdq) /\ Ascending(replyq) /\ AllBefore(replyq, cmdq)

\* Whatever is lost, dropped or fails on the way, no word of the mirror or of
\* the SRAM ever holds anything but its own contents of one side or the other,
\* and none that the call was not asked to transfer changes.
NoStray ==
  \A a \in Word :
    /\ mirror[a] = Icu(a) \/ (mirror[a] = Rdcu(a) /\ Asked("rx", a))
    /\ sram[a] = Rdcu(a) \/ (sram[a] = Icu(a) /\ Asked("tx", a))

\* "@returns 0 on success": after a call that returned 0, with all of its
\* transactions answered, the words asked for, and only these, have been
\* transferred, in the parallel call those of both directions; dropped data of
\* one direction cost nothing in the other.
Complete ==
  ret = "ok" /\ op = "none" /\ Open = 0 =>
    \A a \in Word :
      /\ dropped \/ mirror[a] = IF Asked("rx", a) THEN Rdcu(a) ELSE Icu(a)
      /\ sram[a] = IF Asked("tx", a) THEN Icu(a) ELSE Rdcu(a)

\* The log never holds more transactions than it has slots.
LogHolds == Open + (IF Holding THEN 1 ELSE 0) <= TRANS_LOG_SIZE

\* "@returns 0 on success, otherwise error" (all three functions): a call
\* returns, also one that finds the log full over and over again, as long as
\* lost transactions leave it one slot.
Returns == op # "none" ~> (op = "none" \/ lost = TRANS_LOG_SIZE)
=============================================================================
