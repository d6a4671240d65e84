--------------------------- MODULE SramSyncProofs ---------------------------
(***************************************************************************)
(* Proofs about SramSync, for every size of the SRAM, of the log and of    *)
(* the packets, every set of arguments and every set of faults: first      *)
(* where the packets of a transfer go, then that a transfer that returned  *)
(* 0 is complete once all of its transactions are answered.                *)
(***************************************************************************)
EXTENDS SramSync, SequenceTheorems, TLAPS

\* What the checks of a running call left: a range of whole words inside the
\* SRAM for each of its directions, cut where the position stands.
Cut(d) ==
  /\ addr[d] % 4 = 0 /\ done[d] % 4 = 0 /\ left[d] % 4 = 0
  /\ addr[d] + size[d] <= SRAM_SIZE /\ done[d] <= size[d]
  /\ left[d] = size[d] - done[d] \/ (left[d] = 0 /\ mtu > 0)

Running ==
  op # "none" =>
    /\ mtu % 4 = 0
    /\ \A d \in Dir : IF Uses(op, d) THEN Cut(d) ELSE left[d] = 0
    /\ Wants(op, mtu, left, dir)

CallInv == CallType /\ Running

-----------------------------------------------------------------------------
(* Words and sums *)

LEMMA WordSum ==
  ASSUME NEW a \in Nat, NEW b \in Nat, a % 4 = 0, b % 4 = 0
  PROVE  (a + b) % 4 = 0
OBVIOUS

LEMMA WordDiff ==
  ASSUME NEW a \in Nat, NEW b \in Nat, a % 4 = 0, b % 4 = 0, b <= a
  PROVE  (a - b) % 4 = 0
OBVIOUS

\* The sums of the arguments do not wrap around once each is within the SRAM.
LEMMA InSramRange ==
  ASSUME NEW a \in 0 .. W - 1, NEW s \in 0 .. W - 1, InSram(a, s)
  PROVE  a % 4 = 0 /\ s % 4 = 0 /\ a + s <= SRAM_SIZE /\ Plus(a, s) = a + s
BY SramAssumption DEF InSram, Plus

\* Where the loop goes on, it has another packet.
LEMMA LoopCases ==
  ASSUME NEW o \in {"rx", "tx", "both"}, NEW m, NEW l, NEW d \in Dir, Loop(o, m, l, d)
  PROVE  \/ /\ op' = o /\ pc' = "rx" /\ next' = "grab" /\ dir' \in Dir
            /\ ret' = ret /\ Wants(o, m, l, dir')
         \/ op' = "none" /\ pc' = "idle" /\ ret' = "ok" /\ next' = next /\ dir' = dir
BY DEF Loop, GoOn, Return, Dir, Other

-----------------------------------------------------------------------------
(* The running call *)

LEMMA InitCallInv == Init => CallInv
BY SramAssumption DEF Init, CallInv, CallType, Running, Zero, Dir

LEMMA CallCallInv ==
  ASSUME CallInv, NEW o \in {"rx", "tx", "both"}, NEW m \in 0 .. W - 1,
         NEW a \in [Dir -> 0 .. W - 1], NEW s \in [Dir -> 0 .. W - 1], Call(o, m, a, s)
  PROVE  CallInv'
<1>1. /\ mtu' = m /\ addr' = a /\ size' = s /\ done' = Zero
      /\ left' = [d \in Dir |-> IF Uses(o, d) THEN s[d] ELSE 0]
  BY DEF Call
<1>2. /\ left' \in [Dir -> Nat] /\ done' \in [Dir -> Nat]
      /\ \A d \in Dir : done'[d] = 0 /\ left'[d] = IF Uses(o, d) THEN s[d] ELSE 0
  BY <1>1, SramAssumption DEF Zero
<1>3. CASE Accepted(o, m, a, s)
  <2>1. Loop(o, m, left', "tx")
    BY <1>3 DEF Call
  <2>2. \/ /\ op' = o /\ pc' = "rx" /\ next' = "grab" /\ dir' \in Dir
           /\ ret' = ret /\ Wants(o, m, left', dir')
        \/ op' = "none" /\ pc' = "idle" /\ ret' = "ok" /\ next' = next /\ dir' = dir
    BY <2>1, LoopCases DEF Dir
  <2>3. CallType'
    BY <2>2, <1>1, <1>2 DEF CallInv, CallType
  <2>4. ASSUME NEW d \in Dir, Uses(o, d)
        PROVE  Cut(d)'
    <3>1. InSram(a[d], s[d])
      BY <1>3, <2>4 DEF Accepted
    <3>2. a[d] % 4 = 0 /\ s[d] % 4 = 0 /\ a[d] + s[d] <= SRAM_SIZE
      BY <3>1, InSramRange
    <3> QED
      BY <3>2, <2>4, <1>1, <1>2, SramAssumption DEF Cut
  <2>5. Running'
    BY <2>2, <2>4, <1>1, <1>2, <1>3 DEF Running, Accepted, Uses
  <2> QED
    BY <2>3, <2>5 DEF CallInv
<1>4. CASE ~ Accepted(o, m, a, s)
  <2>1. op' = "none" /\ pc' = "idle" /\ ret' = "error" /\ next' = next /\ dir' = dir
    BY <1>4 DEF Call, Return
  <2> QED
    BY <2>1, <1>1, <1>2 DEF CallInv, CallType, Running
<1> QED
  BY <1>3, <1>4

\* Any call is one with arguments that are uint32_t values.
LEMMA CallsAre ==
  ASSUME Calls
  PROVE  \E o \in {"rx", "tx", "both"}, m \in 0 .. W - 1,
            a \in [Dir -> 0 .. W - 1], s \in [Dir -> 0 .. W - 1] : Call(o, m, a, s)
<1>1. ASSUME NEW d, NEW x \in Addr \cup Size
      PROVE  Only(d, x) \in [Dir -> 0 .. W - 1]
  BY <1>1, ArgAssumption, SramAssumption DEF Only
<1>2. Mtu \subseteq 0 .. W - 1 /\ [Dir -> Addr] \subseteq [Dir -> 0 .. W - 1]
      /\ [Dir -> Size] \subseteq [Dir -> 0 .. W - 1]
  BY ArgAssumption
<1>3. CASE SyncMirrorToSram
  <2>1. PICK m \in Mtu, a \in Addr, s \in Size : Call("tx", m, Only("tx", a), Only("tx", s))
    BY <1>3 DEF SyncMirrorToSram
  <2> QED
    BY <2>1, <1>1, <1>2
<1>4. CASE SyncSramToMirror
  <2>1. PICK m \in Mtu, a \in Addr, s \in Size : Call("rx", m, Only("rx", a), Only("rx", s))
    BY <1>4 DEF SyncSramToMirror
  <2> QED
    BY <2>1, <1>1, <1>2
<1>5. CASE SyncSramMirrorParallel
  BY <1>5, <1>2 DEF SyncSramMirrorParallel
<1> QED
  BY <1>3, <1>4, <1>5 DEF Calls

\* The packet at hand lies in what the call has still to transfer.
LEMMA AtHand ==
  ASSUME CallInv, op # "none"
  PROVE  /\ dir \in Dir /\ Uses(op, dir) /\ Cut(dir)
         /\ addr[dir] \in Nat /\ size[dir] \in Nat /\ done[dir] \in Nat /\ left[dir] \in Nat
         /\ mtu \in Nat /\ mtu % 4 = 0
         /\ left[dir] = size[dir] - done[dir]
         /\ PacketLen(dir) \in Nat /\ PacketLen(dir) % 4 = 0
         /\ PacketLen(dir) <= left[dir] /\ PacketLen(dir) <= mtu
         /\ mtu > 0 => PacketLen(dir) > 0
         /\ Plus(addr[dir], done[dir]) = addr[dir] + done[dir]
<1>1. /\ dir \in Dir /\ mtu \in Nat /\ mtu % 4 = 0 /\ Wants(op, mtu, left, dir)
      /\ op \in {"rx", "tx", "both"}
      /\ addr[dir] \in Nat /\ size[dir] \in Nat /\ done[dir] \in Nat /\ left[dir] \in Nat
  BY SramAssumption DEF CallInv, CallType, Running
<1>2. Uses(op, dir)
  BY <1>1 DEF Uses, Wants
<1>3. Cut(dir)
  BY <1>1, <1>2 DEF CallInv, Running
<1>4. left[dir] = size[dir] - done[dir]
  BY <1>1, <1>3 DEF Cut, Wants
<1>5. /\ PacketLen(dir) \in Nat /\ PacketLen(dir) % 4 = 0
      /\ PacketLen(dir) <= left[dir] /\ PacketLen(dir) <= mtu
      /\ mtu > 0 => PacketLen(dir) > 0
  BY <1>1, <1>3 DEF PacketLen, Cut, Wants
<1>6. Plus(addr[dir], done[dir]) = addr[dir] + done[dir]
  BY <1>1, <1>3, SramAssumption DEF Plus, Cut
<1> QED
  BY <1>1, <1>2, <1>3, <1>4, <1>5, <1>6

\* What sending the packet at hand does to the position.
LEMMA AdvanceCut ==
  ASSUME CallInv, op # "none", NEW d \in Dir, d = dir, Advance(d),
         UNCHANGED <<mtu, addr, size>>
  PROVE  /\ left' \in [Dir -> Nat] /\ done' \in [Dir -> Nat]
         /\ left'[d] = left[d] - PacketLen(d)
         /\ \A e \in Dir : e # d => left'[e] = left[e] /\ done'[e] = done[e]
         /\ Cut(d)'
<1>1. /\ left' = [left EXCEPT ![d] = left[d] - PacketLen(d)]
      /\ done' = IF left[d] >= mtu THEN [done EXCEPT ![d] = done[d] + mtu] ELSE done
  BY DEF Advance
<1>2. left \in [Dir -> Nat] /\ done \in [Dir -> Nat]
  BY DEF CallInv, CallType
<1>3. /\ left'[d] = left[d] - PacketLen(d)
      /\ done'[d] = IF left[d] >= mtu THEN done[d] + mtu ELSE done[d]
  BY <1>1, <1>2
<1>4. /\ Cut(d) /\ left[d] = size[d] - done[d] /\ mtu \in Nat /\ mtu % 4 = 0
      /\ addr[d] \in Nat /\ size[d] \in Nat /\ done[d] \in Nat /\ left[d] \in Nat
      /\ PacketLen(d) \in Nat /\ PacketLen(d) % 4 = 0 /\ PacketLen(d) <= left[d]
  BY AtHand
<1>5. left' \in [Dir -> Nat] /\ done' \in [Dir -> Nat]
  BY <1>1, <1>2, <1>4
<1>6. left'[d] % 4 = 0 /\ done'[d] % 4 = 0
  <2>1. left[d] % 4 = 0 /\ done[d] % 4 = 0
    BY <1>4 DEF Cut
  <2>2. (left[d] - PacketLen(d)) % 4 = 0
    BY <2>1, <1>4, WordDiff
  <2>3. (done[d] + mtu) % 4 = 0
    BY <2>1, <1>4, WordSum
  <2> QED
    BY <2>1, <2>2, <2>3, <1>3
<1>7. /\ done'[d] <= size[d]
      /\ left'[d] = size[d] - done'[d] \/ (left'[d] = 0 /\ mtu > 0)
  BY <1>3, <1>4 DEF PacketLen
<1>8. Cut(d)'
  BY <1>4, <1>6, <1>7 DEF Cut
<1> QED
  BY <1>1, <1>2, <1>3, <1>5, <1>8

\* The call's own state keeps its type and its range through every step.
LEMMA NextCallInv == CallInv /\ [Next]_vars => CallInv'
<1> SUFFICES ASSUME CallInv, [Next]_vars PROVE CallInv'
  OBVIOUS
<1>1. ASSUME Calls PROVE CallInv'
  BY <1>1, CallsAre, CallCallInv
<1>2. ASSUME UNCHANGED <<args, loop>> PROVE CallInv'
  BY <1>2 DEF CallInv, CallType, Running, Cut, args, loop
<1>3. ASSUME Processed PROVE CallInv'
  BY <1>3 DEF Processed, CallInv, CallType, Running, Cut, args
<1>4. ASSUME Return("error"), UNCHANGED <<mtu, addr, size, done, left>> PROVE CallInv'
  BY <1>4 DEF Return, CallInv, CallType, Running
<1>5. ASSUME Grab PROVE CallInv'
  <2>1. UNCHANGED <<mtu, addr, size, done, left>> /\ op # "none" /\ pc = "grab"
    BY <1>5 DEF Grab, CallInv, CallType
  <2>2. CASE Loop(op, mtu, left, dir)
    <3>1. op \in {"rx", "tx", "both"} /\ dir \in Dir
      BY <2>1 DEF CallInv, CallType
    <3> QED
      BY <2>1, <2>2, <3>1, LoopCases DEF CallInv, CallType, Running, Cut
  <2>3. CASE Fail
    BY <2>1, <2>3, <1>4 DEF Fail
  <2>4. CASE pc' = "rx" /\ next' = "tx" /\ UNCHANGED <<op, dir, ret, lost>>
    BY <2>1, <2>4 DEF CallInv, CallType, Running, Cut
  <2> QED
    BY <1>5, <2>2, <2>3, <2>4 DEF Grab
<1>6. ASSUME Tx PROVE CallInv'
  <2>1. UNCHANGED <<mtu, addr, size>> /\ op # "none" /\ pc = "tx"
    BY <1>6 DEF Tx, CallInv, CallType
  <2>2. CASE Fail /\ UNCHANGED <<cmdq, done, left>>
    BY <2>1, <2>2, <1>4 DEF Fail
  <2>3. CASE Advance(dir) /\ Loop(op, mtu, left', dir)
    <3>1. op \in {"rx", "tx", "both"} /\ dir \in Dir
      BY <2>1 DEF CallInv, CallType
    <3>2. \/ op' = op /\ pc' = "rx" /\ next' = "grab" /\ dir' \in Dir
             /\ ret' = ret /\ Wants(op, mtu, left', dir')
          \/ op' = "none" /\ pc' = "idle" /\ ret' = "ok" /\ next' = next /\ dir' = dir
      BY <2>3, <3>1, LoopCases
    <3>3. /\ left' \in [Dir -> Nat] /\ done' \in [Dir -> Nat]
          /\ \A d \in Dir : d # dir => left'[d] = left[d] /\ done'[d] = done[d]
          /\ \A d \in Dir : d = dir => Cut(d)'
      BY <2>1, <2>3, <3>1, AdvanceCut
    <3>4. CallType'
      BY <2>1, <3>2, <3>3 DEF CallInv, CallType
    <3>5. \A d \in Dir : IF Uses(op, d) THEN Cut(d)' ELSE left'[d] = 0
      BY <2>1, <3>3, AtHand DEF CallInv, Running, Cut
    <3>6. Running'
      BY <2>1, <3>2, <3>5, AtHand DEF Running
    <3> QED
      BY <3>4, <3>6 DEF CallInv
  <2> QED
    BY <1>6, <2>2, <2>3 DEF Tx
<1>7. CASE Library
  BY <1>7, <1>2, <1>3, <1>5, <1>6 DEF Library, Process, Store
<1>8. CASE Poll \/ Link
  BY <1>8, <1>2 DEF Poll, Store, Link, Execute, LosePacket
<1>9. CASE UNCHANGED vars
  BY <1>9, <1>2 DEF vars
<1> QED
  BY <1>1, <1>7, <1>8, <1>9 DEF Next

\* An accepted call stays within the SRAM (Within), whatever its arguments.
THEOREM WithinCorrect == Spec => []Within
<1>1. CallInv => Within
  BY SramAssumption DEF CallInv, CallType, Running, Within, Cut
<1> QED
  BY <1>1, InitCallInv, NextCallInv, PTL DEF Spec

-----------------------------------------------------------------------------
(* Types *)

Inv == CallInv /\ MemType /\ LinkType

LEMMA InitInv == Init => Inv
<1>1. Init => MemType /\ cmdq \in Seq(Packet) /\ replyq \in Seq(Packet) /\ lost \in Nat
  BY DEF Init, MemType, Content
<1>2. Init => dropped \in BOOLEAN
  BY Zenon DEF Init
<1> QED
  BY <1>1, <1>2, InitCallInv DEF Inv, LinkType

\* What a read command or a write command takes out of a memory is a payload.
LEMMA ReadPayload ==
  ASSUME NEW m \in [Word -> Content], NEW at \in Nat, NEW n \in Nat,
         at % 4 = 0, at + n <= SRAM_SIZE
  PROVE  Read(m, at, n) \in Payload
<1> DEFINE O == {o \in Word : o < n}
<1>1. \A o \in O : o \in Nat /\ o % 4 = 0 /\ o < n
  BY SramAssumption DEF Word
<1>2. \A o \in O : at + o \in Word
  <2> SUFFICES ASSUME NEW o \in O PROVE at + o \in Word
    OBVIOUS
  <2>1. (at + o) % 4 = 0
    BY <1>1, WordSum
  <2> QED
    BY <2>1, <1>1, SramAssumption DEF Word
<1>3. Read(m, at, n) \in [O -> Content]
  BY <1>2 DEF Read
<1>4. O \in SUBSET Word
  OBVIOUS
<1> QED
  BY <1>3, <1>4 DEF Payload

LEMMA NothingPayload == Nothing \in Payload
<1>1. Nothing \in [{} -> Content]
  BY DEF Nothing
<1>2. {} \in SUBSET Word
  OBVIOUS
<1> QED
  BY <1>1, <1>2 DEF Payload

\* Storing a payload leaves a memory.
LEMMA PutType ==
  ASSUME NEW m \in [Word -> Content], NEW at, NEW data \in Payload
  PROVE  Put(m, at, data) \in [Word -> Content]
<1>1. PICK O \in SUBSET Word : data \in [O -> Content]
  BY DEF Payload
<1> QED
  BY <1>1 DEF Put

\* The packet of the running call is a packet of words of the SRAM.
LEMMA NewPacketType ==
  ASSUME Inv, op # "none", NEW d \in Dir, d = dir
  PROVE  /\ NewPacket(d) \in Packet
         /\ NewPacket(d).dir = d
         /\ NewPacket(d).at = addr[d] + done[d]
         /\ NewPacket(d).local = addr[d] + done[d]
         /\ NewPacket(d).len = PacketLen(d)
         /\ NewPacket(d).data = IF d = "tx" THEN Read(mirror, addr[d] + done[d], PacketLen(d))
                                ELSE Nothing
<1> DEFINE at == addr[d] + done[d]
<1>1. /\ Cut(d) /\ left[d] = size[d] - done[d]
      /\ addr[d] \in Nat /\ size[d] \in Nat /\ done[d] \in Nat /\ left[d] \in Nat
      /\ PacketLen(d) \in Nat /\ PacketLen(d) <= left[d]
      /\ Plus(addr[d], done[d]) = at
  BY AtHand DEF Inv
<1>2. at \in Nat /\ at + PacketLen(d) <= SRAM_SIZE
  BY <1>1, SramAssumption DEF Cut
<1>3. at % 4 = 0
  BY <1>1, WordSum DEF Cut
<1>4. Read(mirror, at, PacketLen(d)) \in Payload
  BY <1>1, <1>2, <1>3, ReadPayload DEF Inv, MemType
<1>5. NewPacket(d) = [dir |-> d, at |-> at, local |-> at, len |-> PacketLen(d),
                      data |-> IF d = "tx" THEN Read(mirror, at, PacketLen(d)) ELSE Nothing]
  BY <1>1 DEF NewPacket
<1> HIDE DEF at
<1>6. NewPacket(d) \in [dir : Dir, at : Nat, local : Nat, len : Nat, data : Payload]
  BY <1>1, <1>2, <1>4, <1>5, NothingPayload
<1>7. /\ NewPacket(d).dir = d /\ NewPacket(d).at = at /\ NewPacket(d).local = at
      /\ NewPacket(d).len = PacketLen(d)
      /\ NewPacket(d).data = IF d = "tx" THEN Read(mirror, at, PacketLen(d)) ELSE Nothing
  BY <1>5
<1>8. NewPacket(d) \in Packet
  BY <1>2, <1>3, <1>6, <1>7 DEF Packet
<1> QED
  BY <1>7, <1>8 DEF at

\* The oldest packet of a queue, and what is left without it.
LEMMA QueueHead ==
  ASSUME NEW q \in Seq(Packet), q # <<>>
  PROVE  /\ Head(q) \in Packet /\ Head(q) = q[1] /\ 1 \in DOMAIN q
         /\ Tail(q) \in Seq(Packet) /\ Len(q) > 0 /\ Len(Tail(q)) = Len(q) - 1
         /\ \A i \in DOMAIN Tail(q) : i \in Nat /\ i > 0 /\ i + 1 \in DOMAIN q
                                      /\ Tail(q)[i] = q[i + 1]
BY HeadTailProperties, EmptySeq

\* A queue with a packet more.
LEMMA QueueAppend ==
  ASSUME NEW q \in Seq(Packet), NEW p \in Packet
  PROVE  /\ Append(q, p) \in Seq(Packet) /\ Len(Append(q, p)) = Len(q) + 1
         /\ \A i \in DOMAIN Append(q, p) :
              \/ i \in DOMAIN q /\ i < Len(q) + 1 /\ Append(q, p)[i] = q[i]
              \/ i = Len(q) + 1 /\ Append(q, p)[i] = p
BY AppendProperties

\* The answer of the RDCU to a command.
Answer(p) ==
  IF p.dir = "tx" THEN [p EXCEPT !.data = Nothing]
  ELSE [p EXCEPT !.data = Read(sram, p.at, p.len)]

LEMMA AnswerType ==
  ASSUME MemType, NEW p \in Packet
  PROVE  /\ Answer(p) \in Packet
         /\ Answer(p).dir = p.dir /\ Answer(p).at = p.at /\ Answer(p).local = p.local
         /\ Answer(p).len = p.len
         /\ Answer(p).data = IF p.dir = "tx" THEN Nothing ELSE Read(sram, p.at, p.len)
<1>1. /\ p \in [dir : Dir, at : Nat, local : Nat, len : Nat, data : Payload]
      /\ p.at % 4 = 0 /\ p.at + p.len <= SRAM_SIZE
  BY DEF Packet
<1>2. Read(sram, p.at, p.len) \in Payload
  BY <1>1, ReadPayload DEF MemType
<1>3. \A x \in Payload :
        LET r == [p EXCEPT !.data = x] IN
          /\ r \in [dir : Dir, at : Nat, local : Nat, len : Nat, data : Payload]
          /\ r.dir = p.dir /\ r.at = p.at /\ r.local = p.local /\ r.len = p.len
          /\ r.data = x
  BY <1>1
<1>4. \A x \in Payload :
        LET r == [p EXCEPT !.data = x] IN
          /\ r \in Packet
          /\ r.dir = p.dir /\ r.at = p.at /\ r.local = p.local /\ r.len = p.len
          /\ r.data = x
  BY <1>1, <1>3 DEF Packet
<1> HIDE DEF Packet
<1>5. CASE p.dir = "tx"
  BY <1>4, <1>5, NothingPayload DEF Answer
<1>6. CASE p.dir # "tx"
  BY <1>2, <1>4, <1>6 DEF Answer
<1> QED
  BY <1>5, <1>6

\* What a step of the RDCU does, in terms of the answer.
LEMMA ExecuteIs ==
  ASSUME Execute
  PROVE  /\ cmdq # <<>> /\ cmdq' = Tail(cmdq)
         /\ replyq' = Append(replyq, Answer(Head(cmdq)))
         /\ sram' = IF Head(cmdq).dir = "tx"
                    THEN Put(sram, Head(cmdq).at, Head(cmdq).data) ELSE sram
         /\ UNCHANGED <<args, loop, mirror, lost>>
BY DEF Execute, Answer

\* Every step keeps the types.
LEMMA NextInv == Inv /\ [Next]_vars => Inv'
<1> SUFFICES ASSUME Inv, [Next]_vars PROVE MemType' /\ LinkType'
  BY NextCallInv DEF Inv
<1>0. dropped' \in BOOLEAN
  BY DEF Inv, LinkType, Next, Calls, SyncMirrorToSram, SyncSramToMirror,
     SyncSramMirrorParallel, Call, Library, Process, Processed, Grab, Tx, Poll,
     Store, Link, Execute, LosePacket, vars
<1>1. ASSUME Calls PROVE MemType' /\ LinkType'
  <2>1. PICK o \in {"rx", "tx", "both"}, m \in 0 .. W - 1, a \in [Dir -> 0 .. W - 1],
             s \in [Dir -> 0 .. W - 1] : Call(o, m, a, s)
    BY <1>1, CallsAre
  <2> QED
    BY <1>0, <2>1 DEF Call, MemType, LinkType, Content, Inv
<1>2. ASSUME replyq # <<>>, replyq' = Tail(replyq), UNCHANGED <<sram, cmdq, lost>>,
             \/ mirror' = Put(mirror, Head(replyq).local, Head(replyq).data)
             \/ UNCHANGED mirror
      PROVE  MemType' /\ LinkType'
  <2>1. Head(replyq) \in Packet /\ replyq' \in Seq(Packet)
    BY <1>2, QueueHead DEF Inv, LinkType
  <2>2. Head(replyq).data \in Payload
    BY <2>1 DEF Packet
  <2>3. mirror' \in [Word -> Content]
    BY <1>2, <2>2, PutType DEF Inv, MemType
  <2> QED
    BY <1>0, <1>2, <2>1, <2>3 DEF Inv, MemType, LinkType
<1>3. ASSUME UNCHANGED <<mirror, sram, cmdq, replyq>>, lost' = lost + 1 \/ lost' = lost
      PROVE  MemType' /\ LinkType'
  BY <1>0, <1>3 DEF Inv, MemType, LinkType
<1>4. ASSUME Grab PROVE MemType' /\ LinkType'
  BY <1>3, <1>4 DEF Grab, Fail
<1>5. ASSUME Tx PROVE MemType' /\ LinkType'
  <2>1. UNCHANGED <<mirror, sram, replyq>> /\ op # "none"
    BY <1>5 DEF Tx, Inv, CallInv, CallType
  <2>2. CASE Fail /\ UNCHANGED <<cmdq, done, left>>
    BY <2>1, <2>2, <1>3 DEF Fail
  <2>3. CASE cmdq' = Append(cmdq, NewPacket(dir)) /\ UNCHANGED lost
    <3>1. dir \in Dir
      BY DEF Inv, CallInv, CallType
    <3>2. NewPacket(dir) \in Packet
      BY <2>1, <3>1, NewPacketType
    <3> QED
      BY <1>0, <2>1, <2>3, <3>2 DEF Inv, MemType, LinkType
  <2> QED
    BY <1>5, <2>2, <2>3 DEF Tx
<1>6. ASSUME Execute PROVE MemType' /\ LinkType'
  <2>1. Head(cmdq) \in Packet /\ Tail(cmdq) \in Seq(Packet)
    BY <1>6, ExecuteIs, QueueHead DEF Inv, LinkType
  <2>2. Head(cmdq).data \in Payload /\ Answer(Head(cmdq)) \in Packet
    BY <2>1, AnswerType DEF Packet, Inv
  <2>3. sram' \in [Word -> Content]
    BY <1>6, <2>2, ExecuteIs, PutType DEF Inv, MemType
  <2>4. replyq' \in Seq(Packet)
    BY <1>0, <1>6, <2>2, ExecuteIs, QueueAppend DEF Inv, LinkType
  <2> QED
    BY <1>0, <1>6, <2>1, <2>3, <2>4, ExecuteIs DEF Inv, MemType, LinkType
<1>7. ASSUME LosePacket PROVE MemType' /\ LinkType'
  <2>1. /\ UNCHANGED <<mirror, sram>> /\ lost' = lost + 1
        /\ \/ cmdq # <<>> /\ cmdq' = Tail(cmdq) /\ UNCHANGED replyq
           \/ replyq # <<>> /\ replyq' = Tail(replyq) /\ UNCHANGED cmdq
    BY <1>7 DEF LosePacket
  <2>2. cmdq' \in Seq(Packet) /\ replyq' \in Seq(Packet)
    BY <1>0, <2>1, QueueHead DEF Inv, LinkType
  <2> QED
    BY <1>0, <2>1, <2>2 DEF Inv, MemType, LinkType
<1>8. CASE Library
  BY <1>8, <1>2, <1>3, <1>4, <1>5 DEF Library, Process, Store, Processed
<1>9. CASE Poll \/ Link
  BY <1>9, <1>2, <1>6, <1>7 DEF Poll, Store, Link
<1>10. CASE UNCHANGED vars
  BY <1>10, <1>3 DEF vars
<1> QED
  BY <1>1, <1>8, <1>9, <1>10 DEF Next

\* Every variable keeps its type (TypeOK).
THEOREM TypeCorrect == Spec => []TypeOK
<1>1. Inv => TypeOK
  BY DEF Inv, CallInv, TypeOK
<1> QED
  BY <1>1, InitInv, NextInv, PTL DEF Spec

-----------------------------------------------------------------------------
(* The log *)

\* The log never holds more transactions than it has slots (LogHolds): one is
\* taken only when there is room, and each stays one until it is answered.
THEOREM LogCorrect == Spec => []LogHolds
<1>1. Init => LogHolds
  BY TransportAssumption DEF Init, LogHolds, Open, Holding
<1>2. Inv /\ LogHolds /\ [Next]_vars => LogHolds'
  <2> SUFFICES ASSUME Inv, LogHolds, [Next]_vars PROVE LogHolds'
    OBVIOUS
  <2> DEFINE c == Len(cmdq)
             r == Len(replyq)
  <2>1. c \in Nat /\ r \in Nat /\ lost \in Nat /\ TRANS_LOG_SIZE \in Nat
    BY TransportAssumption DEF Inv, LinkType
  <2>0. Len(cmdq') \in Nat /\ Len(replyq') \in Nat /\ lost' \in Nat
    <3>1. LinkType'
      BY NextInv DEF Inv
    <3> QED
      BY <3>1 DEF LinkType
  <2>2. /\ c + r + lost <= TRANS_LOG_SIZE
        /\ Holding => c + r + lost + 1 <= TRANS_LOG_SIZE
    BY <2>1 DEF LogHolds, Open
  <2>3. ASSUME ~ Holding', Len(cmdq') + Len(replyq') + lost' <= TRANS_LOG_SIZE
        PROVE  LogHolds'
    BY <2>0, <2>1, <2>3 DEF LogHolds, Open
  <2>4. ASSUME Holding' => Holding, Len(cmdq') + Len(replyq') + lost' <= c + r + lost
        PROVE  LogHolds'
    BY <2>0, <2>1, <2>2, <2>4 DEF LogHolds, Open
  <2>5. ASSUME Calls PROVE LogHolds'
    <3>1. PICK o \in {"rx", "tx", "both"}, m \in 0 .. W - 1, a \in [Dir -> 0 .. W - 1],
               s \in [Dir -> 0 .. W - 1] : Call(o, m, a, s)
      BY <2>5, CallsAre
    <3>2. ~ Holding'
      BY <3>1, LoopCases DEF Call, Return, Holding, Dir
    <3> QED
      BY <3>1, <3>2, <2>1, <2>2, <2>3 DEF Call
  <2>6. ASSUME replyq # <<>>, replyq' = Tail(replyq), UNCHANGED <<loop, cmdq, lost>>
        PROVE  LogHolds'
    <3>1. Len(replyq') = r - 1 /\ r > 0
      BY <2>6, QueueHead DEF Inv, LinkType
    <3> QED
      BY <2>1, <2>4, <2>6, <3>1 DEF Holding, loop
  <2>7. ASSUME Processed PROVE LogHolds'
    BY <2>1, <2>4, <2>7 DEF Processed, Holding, Inv, CallInv, CallType
  <2>8. ASSUME Grab PROVE LogHolds'
    <3>1. UNCHANGED <<cmdq, replyq>> /\ op \in {"rx", "tx", "both"} /\ dir \in Dir
      BY <2>8 DEF Grab, Inv, CallInv, CallType
    <3>2. CASE Loop(op, mtu, left, dir) /\ UNCHANGED lost
      <4>1. ~ Holding'
        BY <3>1, <3>2, LoopCases DEF Holding
      <4> QED
        BY <2>1, <2>2, <2>3, <3>1, <3>2, <4>1
    <3>3. CASE Open < TRANS_LOG_SIZE /\ Fail
      <4>1. ~ Holding' /\ lost' = lost + 1
        BY <3>3 DEF Holding, Fail, Return
      <4> QED
        BY <2>1, <2>3, <3>1, <3>3, <4>1 DEF Open
    <3>4. CASE Open < TRANS_LOG_SIZE /\ UNCHANGED lost
      BY <2>1, <3>1, <3>4 DEF LogHolds, Open
    <3> QED
      BY <2>8, <3>2, <3>3, <3>4 DEF Grab
  <2>9. ASSUME Tx PROVE LogHolds'
    <3>1. UNCHANGED replyq /\ Holding /\ op \in {"rx", "tx", "both"} /\ dir \in Dir
      BY <2>9 DEF Tx, Holding, Inv, CallInv, CallType
    <3>2. CASE Fail /\ UNCHANGED <<cmdq, done, left>>
      <4>1. ~ Holding' /\ lost' = lost + 1
        BY <3>2 DEF Holding, Fail, Return
      <4> QED
        BY <2>1, <2>2, <2>3, <3>1, <3>2, <4>1
    <3>3. CASE /\ cmdq' = Append(cmdq, NewPacket(dir))
               /\ Loop(op, mtu, left', dir) /\ UNCHANGED lost
      <4>1. ~ Holding'
        BY <3>1, <3>3, LoopCases DEF Holding
      <4>2. Len(cmdq') = c + 1
        BY <3>3 DEF Inv, LinkType
      <4> QED
        BY <2>1, <2>2, <2>3, <3>1, <3>3, <4>1, <4>2
    <3> QED
      BY <2>9, <3>2, <3>3 DEF Tx
  <2>10. ASSUME Execute PROVE LogHolds'
    <3>1. Len(cmdq') = c - 1 /\ c > 0
      BY <2>10, ExecuteIs, QueueHead DEF Inv, LinkType
    <3>2. Len(replyq') = r + 1
      BY <2>10, ExecuteIs DEF Inv, LinkType
    <3>3. UNCHANGED <<loop, lost>>
      BY <2>10, ExecuteIs
    <3> QED
      BY <2>1, <2>4, <3>1, <3>2, <3>3 DEF Holding, loop
  <2>11. ASSUME LosePacket PROVE LogHolds'
    <3>1. /\ UNCHANGED loop /\ lost' = lost + 1
          /\ \/ cmdq # <<>> /\ cmdq' = Tail(cmdq) /\ UNCHANGED replyq
             \/ replyq # <<>> /\ replyq' = Tail(replyq) /\ UNCHANGED cmdq
      BY <2>11 DEF LosePacket
    <3>2. \/ Len(cmdq') = c - 1 /\ c > 0 /\ Len(replyq') = r
          \/ Len(replyq') = r - 1 /\ r > 0 /\ Len(cmdq') = c
      BY <3>1, QueueHead DEF Inv, LinkType
    <3> QED
      BY <2>1, <2>4, <3>1, <3>2 DEF Holding, loop
  <2>12. CASE UNCHANGED vars
    BY <2>1, <2>4, <2>12 DEF vars, Holding, loop
  <2> QED
    BY <2>5, <2>6, <2>7, <2>8, <2>9, <2>10, <2>11, <2>12
       DEF Next, Library, Link, Process, Store, Poll
<1> QED
  BY <1>1, <1>2, InitInv, NextInv, PTL DEF Spec

-----------------------------------------------------------------------------
(* The tiling *)

\* A packet of the running call stays a tile of its range while the call goes on.
LEMMA TileKept ==
  ASSUME Inv, NEW p \in Packet, Tile(p), UNCHANGED <<mtu, addr, size>>,
         \A d \in Dir : left'[d] \in Nat /\ left'[d] <= left[d]
  PROVE  Tile(p)'
<1>1. p.dir \in Dir /\ p.at \in Nat /\ p.len \in Nat
  BY DEF Packet
<1>2. /\ addr[p.dir] \in Nat /\ size[p.dir] \in Nat /\ left[p.dir] \in Nat
      /\ left'[p.dir] \in Nat /\ left'[p.dir] <= left[p.dir]
  BY <1>1, SramAssumption DEF Inv, CallInv, CallType
<1> QED
  BY <1>1, <1>2 DEF Tile

\* A queue without its oldest packet is still in order.
LEMMA TailAscending ==
  ASSUME NEW q \in Seq(Packet), q # <<>>, Ascending(q)
  PROVE  /\ Ascending(Tail(q))
         /\ \A i \in DOMAIN Tail(q) : Before(Head(q), Tail(q)[i])
<1>1. Ascending(Tail(q))
  <2> SUFFICES ASSUME NEW i \in DOMAIN Tail(q), NEW j \in DOMAIN Tail(q), i < j
               PROVE  Before(Tail(q)[i], Tail(q)[j])
    BY DEF Ascending
  <2>1. i + 1 \in DOMAIN q /\ j + 1 \in DOMAIN q /\ i + 1 < j + 1
    BY QueueHead
  <2> QED
    BY <2>1, QueueHead DEF Ascending
<1>2. ASSUME NEW i \in DOMAIN Tail(q) PROVE Before(Head(q), Tail(q)[i])
  <2>1. 1 \in DOMAIN q /\ i + 1 \in DOMAIN q /\ 1 < i + 1
    BY QueueHead
  <2> QED
    BY <2>1, QueueHead DEF Ascending
<1> QED
  BY <1>1, <1>2

\* A queue with a packet behind all others is in order.
LEMMA AppendAscending ==
  ASSUME NEW q \in Seq(Packet), NEW p \in Packet, Ascending(q),
         \A i \in DOMAIN q : Before(q[i], p)
  PROVE  Ascending(Append(q, p))
<1> DEFINE r == Append(q, p)
<1>1. \A i \in DOMAIN r : \/ i \in DOMAIN q /\ i < Len(q) + 1 /\ r[i] = q[i]
                          \/ i = Len(q) + 1 /\ r[i] = p
  BY QueueAppend
<1>2. \A i \in DOMAIN q : i \in Nat /\ i <= Len(q)
  OBVIOUS
<1> HIDE DEF r
<1>3. Ascending(r)
  <2> SUFFICES ASSUME NEW i \in DOMAIN r, NEW j \in DOMAIN r, i < j PROVE Before(r[i], r[j])
    BY DEF Ascending
  <2>1. i \in DOMAIN q /\ r[i] = q[i]
    BY <1>1, <1>2
  <2>2. CASE j \in DOMAIN q /\ r[j] = q[j]
    BY <2>1, <2>2 DEF Ascending
  <2>3. CASE j = Len(q) + 1 /\ r[j] = p
    BY <2>1, <2>3
  <2> QED
    BY <1>1, <2>2, <2>3
<1> QED
  BY <1>3 DEF r

\* The packet the call sends lies behind every packet it sent before.
LEMMA NewTile ==
  ASSUME Inv, op # "none", NEW d \in Dir, d = dir, Advance(d),
         UNCHANGED <<mtu, addr, size>>, NEW n, n = NewPacket(d)
  PROVE  /\ Tile(n)'
         /\ \A p \in Packet : Tile(p) => Before(p, n)
<1>1. /\ Cut(d) /\ left[d] = size[d] - done[d] /\ mtu \in Nat
      /\ addr[d] \in Nat /\ size[d] \in Nat /\ done[d] \in Nat /\ left[d] \in Nat
      /\ PacketLen(d) \in Nat /\ PacketLen(d) % 4 = 0
      /\ PacketLen(d) <= left[d] /\ PacketLen(d) <= mtu
      /\ mtu > 0 => PacketLen(d) > 0
  BY AtHand DEF Inv
<1>2. left'[d] = left[d] - PacketLen(d)
  BY AdvanceCut DEF Inv
<1>3. /\ n.dir = d /\ n.at = addr[d] + done[d] /\ n.local = addr[d] + done[d]
      /\ n.len = PacketLen(d)
  BY NewPacketType
<1>4. Tile(n)'
  BY <1>1, <1>2, <1>3 DEF Tile
<1>5. ASSUME NEW p \in Packet, Tile(p), p.dir = d PROVE p.at + p.len <= n.at
  <2>1. p.at \in Nat /\ p.len \in Nat
    BY DEF Packet
  <2> QED
    BY <1>1, <1>3, <1>5, <2>1 DEF Tile
<1> QED
  BY <1>3, <1>4, <1>5 DEF Before

\* Packets whose directions, places and lengths are the same are tiles alike.
LEMMA SamePlace ==
  ASSUME NEW p, NEW r, p.dir = r.dir, p.at = r.at, p.local = r.local, p.len = r.len
  PROVE  /\ Tile(p) <=> Tile(r)
         /\ \A x : (Before(x, p) <=> Before(x, r)) /\ (Before(p, x) <=> Before(r, x))
BY DEF Tile, Before

\* No step sends a word twice or beyond its range.
LEMMA NextPacketsTile == Inv /\ PacketsTile /\ [Next]_vars => PacketsTile'
<1> SUFFICES ASSUME Inv, PacketsTile, [Next]_vars PROVE PacketsTile'
  OBVIOUS
<1>0. cmdq \in Seq(Packet) /\ replyq \in Seq(Packet)
  BY DEF Inv, LinkType
<1>1. ASSUME Calls PROVE PacketsTile'
  <2>1. PICK o \in {"rx", "tx", "both"}, m \in 0 .. W - 1, a \in [Dir -> 0 .. W - 1],
             s \in [Dir -> 0 .. W - 1] : Call(o, m, a, s)
    BY <1>1, CallsAre
  <2>2. cmdq' = <<>> /\ replyq' = <<>>
    BY <2>1 DEF Call
  <2> QED
    BY <2>2 DEF PacketsTile, Tiles, Ascending, AllBefore
<1>2. ASSUME UNCHANGED <<mtu, addr, size, left>>
      PROVE  \A p \in Packet : Tile(p) => Tile(p)'
  BY <1>2 DEF Tile
<1>3. ASSUME UNCHANGED <<mtu, addr, size, left, cmdq, replyq>> PROVE PacketsTile'
  BY <1>3 DEF PacketsTile, Tiles, Tile, Ascending, AllBefore
<1>4. ASSUME replyq # <<>>, replyq' = Tail(replyq), UNCHANGED <<mtu, addr, size, left, cmdq>>
      PROVE  PacketsTile'
  <2>1. \A i \in DOMAIN replyq' : i + 1 \in DOMAIN replyq /\ replyq'[i] = replyq[i + 1]
    BY <1>0, <1>4, QueueHead
  <2>2. Ascending(replyq)'
    BY <1>0, <1>4, TailAscending DEF PacketsTile, Ascending
  <2>3. Tiles(cmdq)' /\ Tiles(replyq)'
    BY <2>1, <1>4 DEF PacketsTile, Tiles, Tile
  <2>4. Ascending(cmdq)' /\ AllBefore(replyq, cmdq)'
    BY <2>1, <1>4 DEF PacketsTile, Ascending, AllBefore
  <2> QED
    BY <2>2, <2>3, <2>4 DEF PacketsTile
<1>5. ASSUME cmdq # <<>>, cmdq' = Tail(cmdq), UNCHANGED <<mtu, addr, size, left, replyq>>
      PROVE  PacketsTile'
  <2>1. \A i \in DOMAIN cmdq' : i + 1 \in DOMAIN cmdq /\ cmdq'[i] = cmdq[i + 1]
    BY <1>0, <1>5, QueueHead
  <2>2. Ascending(cmdq)'
    BY <1>0, <1>5, TailAscending DEF PacketsTile, Ascending
  <2>3. Tiles(cmdq)' /\ Tiles(replyq)'
    BY <2>1, <1>5 DEF PacketsTile, Tiles, Tile
  <2>4. Ascending(replyq)' /\ AllBefore(replyq, cmdq)'
    BY <2>1, <1>5 DEF PacketsTile, Ascending, AllBefore
  <2> QED
    BY <2>2, <2>3, <2>4 DEF PacketsTile
<1>6. ASSUME Execute PROVE PacketsTile'
  <2>1. /\ cmdq # <<>> /\ cmdq' = Tail(cmdq) /\ UNCHANGED <<mtu, addr, size, left>>
        /\ replyq' = Append(replyq, Answer(Head(cmdq)))
    BY <1>6, ExecuteIs DEF args, loop
  <2>2. PICK h \in Packet : h = Head(cmdq)
    BY <2>1, <1>0, QueueHead
  <2>3. PICK r \in Packet : /\ r = Answer(h) /\ r.dir = h.dir /\ r.at = h.at
                            /\ r.local = h.local /\ r.len = h.len
    BY AnswerType DEF Inv
  <2>4. /\ Tile(h) /\ 1 \in DOMAIN cmdq /\ h = cmdq[1]
        /\ \A i \in DOMAIN cmdq' : i + 1 \in DOMAIN cmdq /\ cmdq'[i] = cmdq[i + 1]
                                  /\ Before(h, cmdq'[i])
    BY <2>1, <2>2, <1>0, QueueHead, TailAscending DEF PacketsTile, Tiles
  <2>5. \A i \in DOMAIN replyq : Before(replyq[i], r)
    BY <2>3, <2>4, SamePlace DEF PacketsTile, AllBefore
  <2>6. Tile(r) /\ \A i \in DOMAIN cmdq' : Before(r, cmdq'[i])
    BY <2>3, <2>4, SamePlace
  <2>7. replyq' = Append(replyq, r)
    BY <2>1, <2>2, <2>3
  <2>8. \A i \in DOMAIN replyq' : \/ i \in DOMAIN replyq /\ replyq'[i] = replyq[i]
                                 \/ replyq'[i] = r
    BY <2>7, <1>0, QueueAppend
  <2>9. Ascending(replyq)' /\ Ascending(cmdq)'
    <3>1. Ascending(Append(replyq, r)) /\ Ascending(Tail(cmdq))
      BY <2>1, <2>5, <1>0, AppendAscending, TailAscending DEF PacketsTile
    <3> QED
      BY <3>1, <2>1, <2>7 DEF Ascending
  <2>10. Tiles(cmdq)' /\ Tiles(replyq)'
    BY <2>1, <2>4, <2>6, <2>8 DEF PacketsTile, Tiles, Tile
  <2>11. AllBefore(replyq, cmdq)'
    BY <2>4, <2>6, <2>8 DEF PacketsTile, AllBefore
  <2> QED
    BY <2>9, <2>10, <2>11 DEF PacketsTile
<1>7. ASSUME Tx PROVE PacketsTile'
  <2>1. UNCHANGED <<mtu, addr, size, replyq>> /\ op # "none" /\ dir \in Dir
    BY <1>7 DEF Tx, Inv, CallInv, CallType
  <2>2. CASE Fail /\ UNCHANGED <<cmdq, done, left>>
    BY <2>1, <2>2, <1>3
  <2>3. CASE cmdq' = Append(cmdq, NewPacket(dir)) /\ Advance(dir)
    <3>1. PICK d \in Dir : d = dir
      BY <2>1
    <3>2. PICK n \in Packet : n = NewPacket(d)
      BY <2>1, <3>1, NewPacketType
    <3>3. /\ Tile(n)'
          /\ \A p \in Packet : Tile(p) => Before(p, n)
      BY <2>1, <2>3, <3>1, <3>2, NewTile
    <3>4. \A e \in Dir : left'[e] \in Nat /\ left'[e] <= left[e]
      <4>1. /\ left' \in [Dir -> Nat] /\ left'[d] = left[d] - PacketLen(d)
            /\ \A e \in Dir : e # d => left'[e] = left[e]
        BY <2>1, <2>3, <3>1, AdvanceCut DEF Inv
      <4>2. left \in [Dir -> Nat] /\ PacketLen(d) \in Nat
        BY <2>1, <3>1, AtHand DEF Inv, CallInv, CallType
      <4> QED
        BY <4>1, <4>2
    <3>5. \A p \in Packet : Tile(p) => Tile(p)'
      BY <2>1, <3>4, TileKept
    <3>6. cmdq' = Append(cmdq, n)
      BY <2>3, <3>1, <3>2
    <3>7. \A i \in DOMAIN cmdq' : \/ i \in DOMAIN cmdq /\ cmdq'[i] = cmdq[i]
                                 \/ cmdq'[i] = n
      BY <3>6, <1>0, QueueAppend
    <3>8. /\ \A i \in DOMAIN cmdq : cmdq[i] \in Packet /\ Tile(cmdq[i])
          /\ \A i \in DOMAIN replyq : replyq[i] \in Packet /\ Tile(replyq[i])
      BY <1>0 DEF PacketsTile, Tiles
    <3>9. Ascending(cmdq)'
      <4>1. Ascending(Append(cmdq, n))
        BY <3>3, <3>8, <1>0, AppendAscending DEF PacketsTile
      <4> QED
        BY <4>1, <3>6 DEF Ascending
    <3>10. Tiles(cmdq)' /\ Tiles(replyq)'
      BY <2>1, <3>3, <3>5, <3>7, <3>8 DEF Tiles, Tile
    <3>11. Ascending(replyq)' /\ AllBefore(replyq, cmdq)'
      BY <2>1, <3>3, <3>7, <3>8 DEF PacketsTile, Ascending, AllBefore
    <3> QED
      BY <3>9, <3>10, <3>11 DEF PacketsTile
  <2> QED
    BY <1>7, <2>2, <2>3 DEF Tx
<1>8. CASE Library
  BY <1>8, <1>3, <1>4, <1>7 DEF Library, Process, Store, Processed, Grab, args, loop
<1>9. CASE Poll \/ Link
  BY <1>9, <1>4, <1>5, <1>6 DEF Poll, Store, Link, LosePacket, args, loop
<1>10. CASE UNCHANGED vars
  BY <1>10, <1>3 DEF vars, args, loop
<1> QED
  BY <1>1, <1>8, <1>9, <1>10 DEF Next

\* The packets of a call tile the range it was asked for (PacketsTile).
THEOREM TileCorrect == Spec => []PacketsTile
<1>1. Init => PacketsTile
  BY DEF Init, PacketsTile, Tiles, Ascending, AllBefore
<1> QED
  BY <1>1, InitInv, NextInv, NextPacketsTile, PTL DEF Spec

-----------------------------------------------------------------------------
(* The contents *)

\* A packet carries words of one side or the other, each at its own place.
Own(p) ==
  \A o \in DOMAIN p.data :
    /\ o \in Nat /\ o < p.len
    /\ p.data[o] \in {Icu(p.at + o), Rdcu(p.at + o)}

\* Only write commands and read replies carry any.
Empty(p) == DOMAIN p.data = {}
Carries ==
  /\ \A i \in DOMAIN cmdq : Own(cmdq[i]) /\ (cmdq[i].dir = "rx" => Empty(cmdq[i]))
  /\ \A i \in DOMAIN replyq : Own(replyq[i]) /\ (replyq[i].dir = "tx" => Empty(replyq[i]))

\* What a memory of own contents gives to a packet is its own, too.
LEMMA ReadOwn ==
  ASSUME NEW m \in [Word -> Content], \A a \in Word : m[a] \in {Icu(a), Rdcu(a)},
         NEW at \in Nat, NEW n \in Nat, at % 4 = 0, at + n <= SRAM_SIZE
  PROVE  \A o \in DOMAIN Read(m, at, n) :
           /\ o \in Nat /\ o < n
           /\ Read(m, at, n)[o] \in {Icu(at + o), Rdcu(at + o)}
<1> SUFFICES ASSUME NEW o \in {o \in Word : o < n}
             PROVE  o \in Nat /\ o < n /\ m[at + o] \in {Icu(at + o), Rdcu(at + o)}
  BY DEF Read
<1>1. o \in Nat /\ o < n /\ o % 4 = 0
  BY SramAssumption DEF Word
<1>2. (at + o) % 4 = 0
  BY <1>1, WordSum
<1>3. at + o \in Word
  BY <1>1, <1>2, SramAssumption DEF Word
<1> QED
  BY <1>1, <1>3

\* Storing the own words of a packet changes nothing outside its range, and
\* inside it leaves own contents.
LEMMA PutOwn ==
  ASSUME NEW m \in [Word -> Content], NEW p \in Packet, Own(p), NEW a \in Word
  PROVE  \/ Put(m, p.at, p.data)[a] = m[a]
         \/ /\ p.at <= a /\ a < p.at + p.len
            /\ Put(m, p.at, p.data)[a] \in {Icu(a), Rdcu(a)}
<1>1. p.at \in Nat /\ p.len \in Nat /\ a \in Nat
  BY SramAssumption DEF Packet, Word
<1>2. Put(m, p.at, p.data)[a] = IF a - p.at \in DOMAIN p.data THEN p.data[a - p.at] ELSE m[a]
  BY DEF Put
<1>3. CASE a - p.at \in DOMAIN p.data
  <2>1. /\ a - p.at \in Nat /\ a - p.at < p.len
        /\ p.data[a - p.at] \in {Icu(p.at + (a - p.at)), Rdcu(p.at + (a - p.at))}
    BY <1>3 DEF Own
  <2>2. p.at + (a - p.at) = a
    BY <1>1
  <2> QED
    BY <1>1, <1>2, <1>3, <2>1, <2>2
<1> QED
  BY <1>2, <1>3

\* A packet's range lies in the range the call was asked for.
LEMMA TileAsked ==
  ASSUME Inv, NEW p \in Packet, Tile(p), NEW a \in Nat, p.at <= a, a < p.at + p.len
  PROVE  Asked(p.dir, a)
<1>1. p.dir \in Dir /\ p.at \in Nat /\ p.len \in Nat
  BY DEF Packet
<1>2. addr[p.dir] \in Nat /\ size[p.dir] \in Nat /\ left[p.dir] \in Nat
  BY <1>1, SramAssumption DEF Inv, CallInv, CallType
<1> QED
  BY <1>1, <1>2 DEF Tile, Asked

StrayInv == NoStray /\ Carries

LEMMA NextStrayInv == Inv /\ PacketsTile /\ StrayInv /\ [Next]_vars => StrayInv'
<1> SUFFICES ASSUME Inv, PacketsTile, StrayInv, [Next]_vars PROVE StrayInv'
  OBVIOUS
<1>0. /\ cmdq \in Seq(Packet) /\ replyq \in Seq(Packet)
      /\ mirror \in [Word -> Content] /\ sram \in [Word -> Content]
      /\ \A a \in Word : /\ mirror[a] \in {Icu(a), Rdcu(a)} /\ sram[a] \in {Icu(a), Rdcu(a)}
                         /\ a \in Nat
  <2>1. /\ cmdq \in Seq(Packet) /\ replyq \in Seq(Packet)
        /\ mirror \in [Word -> Content] /\ sram \in [Word -> Content]
    BY DEF Inv, LinkType, MemType
  <2>2. \A a \in Word : a \in Nat
    BY SramAssumption DEF Word
  <2>3. ASSUME NEW a \in Word
        PROVE  mirror[a] \in {Icu(a), Rdcu(a)} /\ sram[a] \in {Icu(a), Rdcu(a)}
    BY DEF StrayInv, NoStray
  <2> QED
    BY <2>1, <2>2, <2>3
<1>1. ASSUME Calls PROVE StrayInv'
  <2>1. PICK o \in {"rx", "tx", "both"}, m \in 0 .. W - 1, a \in [Dir -> 0 .. W - 1],
             s \in [Dir -> 0 .. W - 1] : Call(o, m, a, s)
    BY <1>1, CallsAre
  <2>2. /\ cmdq' = <<>> /\ replyq' = <<>>
        /\ mirror' = [b \in Word |-> Icu(b)] /\ sram' = [b \in Word |-> Rdcu(b)]
    BY <2>1 DEF Call
  <2> QED
    BY <2>2 DEF StrayInv, NoStray, Carries
<1>2. ASSUME UNCHANGED <<addr, size, mirror, sram, cmdq, replyq>> PROVE StrayInv'
  BY <1>2 DEF StrayInv, NoStray, Carries, Own, Empty, Asked
<1>3. ASSUME replyq # <<>>, replyq' = Tail(replyq), UNCHANGED <<addr, size, sram, cmdq>>,
             \/ mirror' = Put(mirror, Head(replyq).local, Head(replyq).data)
             \/ UNCHANGED mirror
      PROVE  StrayInv'
  <2>1. PICK h \in Packet : h = Head(replyq) /\ h = replyq[1] /\ 1 \in DOMAIN replyq
    BY <1>0, <1>3, QueueHead
  <2>2. Own(h) /\ Tile(h) /\ h.local = h.at /\ (h.dir = "tx" => Empty(h)) /\ h.dir \in Dir
    BY <2>1 DEF StrayInv, Carries, PacketsTile, Tiles, Tile, Packet
  <2>3. ASSUME NEW a \in Word
        PROVE  mirror'[a] = mirror[a] \/ (mirror'[a] \in {Icu(a), Rdcu(a)} /\ Asked("rx", a))
    <3>1. CASE UNCHANGED mirror
      BY <3>1
    <3>2. CASE mirror' = Put(mirror, h.at, h.data)
      <4>1. CASE h.dir = "tx"
        BY <3>2, <4>1, <2>2 DEF Empty, Put
      <4>2. CASE h.dir = "rx"
        <5>1. \/ mirror'[a] = mirror[a]
              \/ h.at <= a /\ a < h.at + h.len /\ mirror'[a] \in {Icu(a), Rdcu(a)}
          BY <3>2, <2>2, <1>0, PutOwn
        <5> QED
          BY <5>1, <4>2, <2>2, <1>0, TileAsked
      <4> QED
        BY <4>1, <4>2, <2>2 DEF Dir
    <3> QED
      BY <3>1, <3>2, <1>3, <2>1, <2>2
  <2>4. NoStray'
    BY <2>3, <1>3 DEF StrayInv, NoStray, Asked
  <2>5. \A i \in DOMAIN replyq' : i + 1 \in DOMAIN replyq /\ replyq'[i] = replyq[i + 1]
    BY <1>0, <1>3, QueueHead
  <2> QED
    BY <2>4, <2>5, <1>3 DEF StrayInv, Carries, Own, Empty
<1>4. ASSUME cmdq # <<>>, cmdq' = Tail(cmdq), UNCHANGED <<addr, size, mirror, sram, replyq>>
      PROVE  StrayInv'
  <2>1. \A i \in DOMAIN cmdq' : i + 1 \in DOMAIN cmdq /\ cmdq'[i] = cmdq[i + 1]
    BY <1>0, <1>4, QueueHead
  <2>2. NoStray'
    BY <1>4 DEF StrayInv, NoStray, Asked
  <2> QED
    BY <2>1, <2>2, <1>4 DEF StrayInv, Carries, Own, Empty
<1>5. ASSUME Execute PROVE StrayInv'
  <2>1. PICK h \in Packet : h = Head(cmdq) /\ h = cmdq[1] /\ 1 \in DOMAIN cmdq
    BY <1>0, <1>5, ExecuteIs, QueueHead
  <2>2. /\ Own(h) /\ Tile(h) /\ (h.dir = "rx" => Empty(h)) /\ h.dir \in Dir
        /\ h.at \in Nat /\ h.len \in Nat /\ h.at % 4 = 0 /\ h.at + h.len <= SRAM_SIZE
    BY <2>1 DEF StrayInv, Carries, PacketsTile, Tiles, Packet
  <2>3. /\ cmdq # <<>> /\ cmdq' = Tail(cmdq) /\ replyq' = Append(replyq, Answer(h))
        /\ sram' = IF h.dir = "tx" THEN Put(sram, h.at, h.data) ELSE sram
        /\ UNCHANGED <<addr, size, mirror>>
    BY <2>1, <1>5, ExecuteIs DEF args
  <2>4. PICK r \in Packet : /\ r = Answer(h) /\ r.dir = h.dir /\ r.at = h.at /\ r.len = h.len
                            /\ r.data = IF h.dir = "tx" THEN Nothing
                                        ELSE Read(sram, h.at, h.len)
    BY AnswerType DEF Inv
  <2>5. Own(r) /\ (r.dir = "tx" => Empty(r))
    <3>1. CASE h.dir = "tx"
      BY <3>1, <2>4 DEF Own, Empty, Nothing
    <3>2. CASE h.dir = "rx"
      <4>1. \A o \in DOMAIN Read(sram, h.at, h.len) :
              /\ o \in Nat /\ o < h.len
              /\ Read(sram, h.at, h.len)[o] \in {Icu(h.at + o), Rdcu(h.at + o)}
        BY <1>0, <2>2, ReadOwn
      <4> QED
        BY <4>1, <3>2, <2>4 DEF Own
    <3> QED
      BY <3>1, <3>2, <2>2 DEF Dir
  <2>6. ASSUME NEW a \in Word
        PROVE  sram'[a] = sram[a] \/ (sram'[a] \in {Icu(a), Rdcu(a)} /\ Asked("tx", a))
    <3>1. CASE h.dir = "tx"
      <4>1. \/ sram'[a] = sram[a]
            \/ h.at <= a /\ a < h.at + h.len /\ sram'[a] \in {Icu(a), Rdcu(a)}
        BY <3>1, <2>2, <2>3, <1>0, PutOwn
      <4> QED
        BY <4>1, <3>1, <2>2, <1>0, TileAsked
    <3> QED
      BY <3>1, <2>3
  <2>7. NoStray'
    BY <2>3, <2>6 DEF StrayInv, NoStray, Asked
  <2>8. \A i \in DOMAIN cmdq' : i + 1 \in DOMAIN cmdq /\ cmdq'[i] = cmdq[i + 1]
    BY <1>0, <2>3, QueueHead
  <2>9. \A i \in DOMAIN replyq' : \/ i \in DOMAIN replyq /\ replyq'[i] = replyq[i]
                                 \/ replyq'[i] = r
    BY <1>0, <2>3, <2>4, QueueAppend
  <2>10. Carries'
    BY <2>5, <2>8, <2>9 DEF StrayInv, Carries, Own, Empty
  <2> QED
    BY <2>7, <2>10 DEF StrayInv
<1>6. ASSUME Tx PROVE StrayInv'
  <2>1. UNCHANGED <<addr, size, mirror, sram, replyq>> /\ op # "none" /\ dir \in Dir
    BY <1>6 DEF Tx, Inv, CallInv, CallType
  <2>2. CASE UNCHANGED cmdq
    BY <2>1, <2>2, <1>2
  <2>3. CASE cmdq' = Append(cmdq, NewPacket(dir))
    <3>1. PICK n \in Packet :
            /\ n = NewPacket(dir) /\ n.dir = dir /\ n.at = addr[dir] + done[dir]
            /\ n.len = PacketLen(dir)
            /\ n.data = IF dir = "tx" THEN Read(mirror, addr[dir] + done[dir], PacketLen(dir))
                        ELSE Nothing
      BY <2>1, NewPacketType
    <3>2. n.at \in Nat /\ n.len \in Nat /\ n.at % 4 = 0 /\ n.at + n.len <= SRAM_SIZE
      BY DEF Packet
    <3>3. Own(n) /\ (n.dir = "rx" => Empty(n))
      <4>1. CASE n.dir = "tx"
        <5>1. \A o \in DOMAIN Read(mirror, n.at, n.len) :
                /\ o \in Nat /\ o < n.len
                /\ Read(mirror, n.at, n.len)[o] \in {Icu(n.at + o), Rdcu(n.at + o)}
          BY <1>0, <3>2, ReadOwn
        <5>2. n.data = Read(mirror, n.at, n.len)
          BY <3>1, <4>1
        <5> QED
          BY <5>1, <5>2, <4>1 DEF Own
      <4>2. CASE n.dir # "tx"
        BY <4>2, <3>1 DEF Own, Empty, Nothing
      <4> QED
        BY <4>1, <4>2
    <3>4. \A i \in DOMAIN cmdq' : \/ i \in DOMAIN cmdq /\ cmdq'[i] = cmdq[i]
                                 \/ cmdq'[i] = n
      BY <1>0, <2>3, <3>1, QueueAppend
    <3>5. NoStray'
      BY <2>1 DEF StrayInv, NoStray, Asked
    <3>6. Carries'
      BY <2>1, <3>3, <3>4 DEF StrayInv, Carries, Own, Empty
    <3> QED
      BY <3>5, <3>6 DEF StrayInv
  <2> QED
    BY <1>6, <2>2, <2>3 DEF Tx
<1>7. CASE Library
  BY <1>7, <1>2, <1>3, <1>6 DEF Library, Process, Store, Processed, Grab, args
<1>8. CASE Poll \/ Link
  BY <1>8, <1>3, <1>4, <1>5 DEF Poll, Store, Link, LosePacket, args
<1>9. CASE UNCHANGED vars
  BY <1>9, <1>2 DEF vars, args
<1> QED
  BY <1>1, <1>7, <1>8, <1>9 DEF Next

\* No word ends up in a wrong place, whatever fails on the way (NoStray).
THEOREM StrayCorrect == Spec => []NoStray
<1>1. Init => StrayInv
  BY DEF Init, StrayInv, NoStray, Carries
<1>2. Init => PacketsTile
  BY DEF Init, PacketsTile, Tiles, Ascending, AllBefore
<1>3. StrayInv => NoStray
  BY DEF StrayInv
<1> QED
  BY <1>1, <1>2, <1>3, InitInv, NextInv, NextPacketsTile, NextStrayInv, PTL DEF Spec

-----------------------------------------------------------------------------
(* Complete transfers *)

\* A packet of direction d that transfers the word a is in the queue.
Covers(p, d, a) == p.dir = d /\ p.at <= a /\ a < p.at + p.len
Under(q, d, a) == \E i \in DOMAIN q : Covers(q[i], d, a)

\* What a write command and the answer to a read carry.
IcuWords(p) == [o \in {o \in Word : o < p.len} |-> Icu(p.at + o)]
RdcuWords(p) == [o \in {o \in Word : o < p.len} |-> Rdcu(p.at + o)]

\* No word is asked for in both directions by a call that is not refused: the
\* contents it takes from one side are those that side had.
Apart ==
  op # "none" \/ ret = "ok" \/ cmdq # <<>> \/ replyq # <<>> =>
    \A a \in Word : ~ (Asked("rx", a) /\ Asked("tx", a))

\* All words of a packet are those of the side it comes from.
Exact ==
  /\ \A i \in DOMAIN cmdq :
       cmdq[i].data = IF cmdq[i].dir = "tx" THEN IcuWords(cmdq[i]) ELSE Nothing
  /\ \A i \in DOMAIN replyq :
       replyq[i].data = IF replyq[i].dir = "rx" THEN RdcuWords(replyq[i]) ELSE Nothing

\* Each word the loops have passed has arrived or is in a packet on the link.
Passed(d, a) == addr[d] <= a /\ a < addr[d] + size[d] - left[d]
Underway ==
  (op # "none" \/ ret = "ok") /\ lost = 0 =>
    \A a \in Word :
      /\ Passed("rx", a) => \/ Under(cmdq, "rx", a) \/ Under(replyq, "rx", a)
                            \/ dropped \/ mirror[a] = Rdcu(a)
      /\ Passed("tx", a) => Under(cmdq, "tx", a) \/ sram[a] = Icu(a)

\* The loops of a call that returned 0 have passed all of them.
Finished == op = "none" /\ ret = "ok" => \A d \in Dir : left[d] = 0

SentInv == Apart /\ Exact /\ Underway /\ Finished

-----------------------------------------------------------------------------
(* Queues and memories *)

\* The packet that leaves a queue and those that stay transfer the same words.
LEMMA TailUnder ==
  ASSUME NEW q \in Seq(Packet), q # <<>>, NEW d, NEW a, Under(q, d, a)
  PROVE  Covers(Head(q), d, a) \/ Under(Tail(q), d, a)
<1>1. PICK i \in DOMAIN q : Covers(q[i], d, a)
  BY DEF Under
<1>2. /\ DOMAIN q = 1 .. Len(q) /\ Len(q) \in Nat
      /\ DOMAIN Tail(q) = 1 .. Len(q) - 1 /\ Head(q) = q[1]
      /\ \A j \in 1 .. Len(q) - 1 : Tail(q)[j] = q[j + 1]
  BY HeadTailProperties, LenProperties, EmptySeq
<1>3. i = 1 \/ (i - 1 \in DOMAIN Tail(q) /\ Tail(q)[i - 1] = q[i])
  BY <1>2
<1> QED
  BY <1>1, <1>2, <1>3 DEF Under

\* A packet more transfers its own words.
LEMMA AppendUnder ==
  ASSUME NEW q \in Seq(Packet), NEW p \in Packet, NEW d, NEW a
  PROVE  /\ Under(q, d, a) => Under(Append(q, p), d, a)
         /\ Covers(p, d, a) => Under(Append(q, p), d, a)
<1>1. /\ DOMAIN q = 1 .. Len(q) /\ Len(q) \in Nat
      /\ DOMAIN Append(q, p) = 1 .. Len(q) + 1
      /\ \A i \in 1 .. Len(q) : Append(q, p)[i] = q[i]
      /\ Append(q, p)[Len(q) + 1] = p
  BY AppendProperties, LenProperties
<1>2. \A i \in DOMAIN q : i \in DOMAIN Append(q, p) /\ Append(q, p)[i] = q[i]
  BY <1>1
<1>3. Len(q) + 1 \in DOMAIN Append(q, p)
  BY <1>1
<1> QED
  BY <1>1, <1>2, <1>3, Zenon DEF Under

\* The words of a range are words of the memory within it.
LEMMA RangeWords ==
  ASSUME NEW at \in Nat, NEW n \in Nat, at % 4 = 0, at + n <= SRAM_SIZE,
         NEW o \in {o \in Word : o < n}
  PROVE  at + o \in Word /\ at <= at + o /\ at + o < at + n
<1>1. o \in Nat /\ o < n /\ o % 4 = 0
  BY SramAssumption DEF Word
<1>2. (at + o) % 4 = 0
  BY <1>1, WordSum
<1> QED
  BY <1>1, <1>2, SramAssumption DEF Word

\* Storing the words of a packet replaces those of its range and no others.
LEMMA PutExact ==
  ASSUME NEW m \in [Word -> Content], NEW p \in Packet, NEW a \in Word
  PROVE  /\ p.data = IcuWords(p) =>
              Put(m, p.at, p.data)[a] =
                IF p.at <= a /\ a < p.at + p.len THEN Icu(a) ELSE m[a]
         /\ p.data = RdcuWords(p) =>
              Put(m, p.at, p.data)[a] =
                IF p.at <= a /\ a < p.at + p.len THEN Rdcu(a) ELSE m[a]
         /\ p.data = Nothing => Put(m, p.at, p.data)[a] = m[a]
<1>1. /\ p.at \in Nat /\ p.len \in Nat /\ p.at % 4 = 0
      /\ a \in Nat /\ a % 4 = 0 /\ a < SRAM_SIZE
  BY SramAssumption DEF Packet, Word
<1>2. a - p.at \in {o \in Word : o < p.len} <=> p.at <= a /\ a < p.at + p.len
  <2>1. p.at <= a => (a - p.at) % 4 = 0
    BY <1>1, WordDiff
  <2> QED
    BY <1>1, <2>1, SramAssumption DEF Word
<1>3. p.at + (a - p.at) = a
  BY <1>1
<1>4. Put(m, p.at, p.data)[a] = IF a - p.at \in DOMAIN p.data THEN p.data[a - p.at] ELSE m[a]
  BY DEF Put
<1>5. /\ p.data = IcuWords(p) =>
           Put(m, p.at, p.data)[a] = IF p.at <= a /\ a < p.at + p.len THEN Icu(a) ELSE m[a]
      /\ p.data = RdcuWords(p) =>
           Put(m, p.at, p.data)[a] = IF p.at <= a /\ a < p.at + p.len THEN Rdcu(a) ELSE m[a]
  <2>1. ASSUME p.data = IcuWords(p)
        PROVE  Put(m, p.at, p.data)[a] = IF p.at <= a /\ a < p.at + p.len THEN Icu(a) ELSE m[a]
    BY <1>2, <1>3, <1>4, <2>1 DEF IcuWords
  <2>2. ASSUME p.data = RdcuWords(p)
        PROVE  Put(m, p.at, p.data)[a] = IF p.at <= a /\ a < p.at + p.len THEN Rdcu(a) ELSE m[a]
    BY <1>2, <1>3, <1>4, <2>2 DEF RdcuWords
  <2> QED
    BY <2>1, <2>2
<1> QED
  BY <1>4, <1>5 DEF Nothing

-----------------------------------------------------------------------------
(* The steps *)

\* A sequential call has no size in the direction it does not use.
LEMMA CallsUse ==
  ASSUME Calls
  PROVE  \E o \in {"rx", "tx", "both"}, m \in 0 .. W - 1,
            a \in [Dir -> 0 .. W - 1], s \in [Dir -> 0 .. W - 1] :
           Call(o, m, a, s) /\ \A d \in Dir : ~ Uses(o, d) => s[d] = 0
<1>1. ASSUME NEW d, NEW x \in Addr \cup Size
      PROVE  /\ Only(d, x) \in [Dir -> 0 .. W - 1]
             /\ \A e \in Dir : e # d => Only(d, x)[e] = 0
  BY <1>1, ArgAssumption, SramAssumption DEF Only
<1>2. Mtu \subseteq 0 .. W - 1 /\ [Dir -> Addr] \subseteq [Dir -> 0 .. W - 1]
      /\ [Dir -> Size] \subseteq [Dir -> 0 .. W - 1]
  BY ArgAssumption
<1>3. CASE SyncMirrorToSram
  <2>1. PICK m \in Mtu, a \in Addr, s \in Size : Call("tx", m, Only("tx", a), Only("tx", s))
    BY <1>3 DEF SyncMirrorToSram
  <2>2. \A d \in Dir : ~ Uses("tx", d) => Only("tx", s)[d] = 0
    BY <1>1 DEF Uses
  <2> QED
    BY <2>1, <2>2, <1>1, <1>2
<1>4. CASE SyncSramToMirror
  <2>1. PICK m \in Mtu, a \in Addr, s \in Size : Call("rx", m, Only("rx", a), Only("rx", s))
    BY <1>4 DEF SyncSramToMirror
  <2>2. \A d \in Dir : ~ Uses("rx", d) => Only("rx", s)[d] = 0
    BY <1>1 DEF Uses
  <2> QED
    BY <2>1, <2>2, <1>1, <1>2
<1>5. CASE SyncSramMirrorParallel
  <2>1. PICK m \in Mtu, a \in [Dir -> Addr], s \in [Dir -> Size] : Call("both", m, a, s)
    BY <1>5 DEF SyncSramMirrorParallel
  <2>2. \A d \in Dir : ~ Uses("both", d) => s[d] = 0
    BY DEF Uses
  <2> QED
    BY <2>1, <2>2, <1>2
<1> QED
  BY <1>3, <1>4, <1>5 DEF Calls

\* A loop that ends has nothing left, in either direction.
LEMMA LoopEnds ==
  ASSUME NEW o \in {"rx", "tx", "both"}, NEW m, NEW l \in [Dir -> Nat], NEW d \in Dir,
         Loop(o, m, l, d), op' = "none"
  PROVE  \A e \in Dir : Uses(o, e) => l[e] = 0
<1>1. \A e \in Dir : ~ Wants(o, m, l, e)
  BY DEF Loop, Dir, Other
<1> QED
  BY <1>1 DEF Wants, Uses, Dir

\* A call starts with nothing passed, in ranges that do not overlap.
LEMMA CallSent ==
  ASSUME Inv, Calls
  PROVE  SentInv'
<1>1. PICK o \in {"rx", "tx", "both"}, m \in 0 .. W - 1, a \in [Dir -> 0 .. W - 1],
           s \in [Dir -> 0 .. W - 1] :
        Call(o, m, a, s) /\ \A d \in Dir : ~ Uses(o, d) => s[d] = 0
  BY CallsUse
<1>2. /\ addr' = a /\ size' = s /\ cmdq' = <<>> /\ replyq' = <<>>
      /\ left' = [d \in Dir |-> IF Uses(o, d) THEN s[d] ELSE 0]
  BY <1>1 DEF Call
<1>3. \A d \in Dir : a[d] \in Nat /\ s[d] \in Nat /\ left'[d] = s[d]
  BY <1>1, <1>2, SramAssumption
<1>4. Exact'
  BY <1>2 DEF Exact
<1>5. \A d \in Dir, b \in Word : ~ Passed(d, b)'
  <2> SUFFICES ASSUME NEW d \in Dir, NEW b \in Word
               PROVE  ~ (a[d] <= b /\ b < a[d] + s[d] - s[d])
    BY <1>2, <1>3 DEF Passed
  <2>1. b \in Int
    BY SramAssumption DEF Word
  <2> QED
    BY <1>3, <2>1
<1>6. Underway'
  BY <1>5 DEF Underway, Dir
<1>7. CASE ~ Accepted(o, m, a, s)
  <2>1. op' = "none" /\ ret' = "error"
    BY <1>1, <1>7 DEF Call, Return
  <2> QED
    BY <1>2, <1>4, <1>6, <2>1 DEF SentInv, Apart, Finished
<1>8. CASE Accepted(o, m, a, s)
  <2>1. Loop(o, m, left', "tx")
    BY <1>1, <1>8 DEF Call
  <2>2. Finished'
    <3>1. ASSUME op' = "none" PROVE \A d \in Dir : left'[d] = 0
      <4>1. left' \in [Dir -> Nat]
        BY <1>2, <1>3
      <4>2. \A e \in Dir : Uses(o, e) => left'[e] = 0
        BY <2>1, <3>1, <4>1, LoopEnds DEF Dir
      <4> QED
        BY <1>1, <1>3, <4>2
    <3> QED
      BY <3>1 DEF Finished
  <2>3. ASSUME NEW b \in Word, Asked("rx", b)', Asked("tx", b)' PROVE FALSE
    <3>1. b \in Int /\ "rx" \in Dir /\ "tx" \in Dir
      BY SramAssumption DEF Word, Dir
    <3>2. /\ a["rx"] <= b /\ b < a["rx"] + s["rx"]
          /\ a["tx"] <= b /\ b < a["tx"] + s["tx"]
      BY <1>2, <2>3 DEF Asked
    <3>3. s["rx"] # 0 /\ s["tx"] # 0
      BY <1>3, <3>1, <3>2
    <3>4. o = "both"
      BY <1>1, <3>1, <3>3 DEF Uses
    <3>5. InSram(a["rx"], s["rx"]) /\ InSram(a["tx"], s["tx"]) /\ ~ Overlap(a, s)
      BY <1>8, <3>1, <3>4 DEF Accepted, Uses
    <3>6. Plus(a["rx"], s["rx"]) = a["rx"] + s["rx"] /\ Plus(a["tx"], s["tx"]) = a["tx"] + s["tx"]
      BY <3>1, <3>5, InSramRange
    <3> QED
      BY <1>3, <3>1, <3>2, <3>5, <3>6 DEF Overlap
  <2> QED
    BY <1>4, <1>6, <2>2, <2>3 DEF SentInv, Apart
<1> QED
  BY <1>7, <1>8

\* A step that leaves ranges, memories and queues alone, and the call, or fails it.
LEMMA SameSent ==
  ASSUME Inv, SentInv, UNCHANGED <<addr, size, done, left, mirror, sram, cmdq, replyq, dropped>>,
         \/ UNCHANGED <<op, ret, lost>>
         \/ op # "none" /\ op' = "none" /\ ret' = "error"
  PROVE  SentInv'
<1>1. Exact'
  BY DEF SentInv, Exact, IcuWords, RdcuWords
<1>2. Apart'
  BY DEF SentInv, Apart, Asked
<1>3. Underway'
  BY DEF SentInv, Underway, Under, Covers, Passed
<1>4. Finished'
  BY DEF SentInv, Finished
<1> QED
  BY <1>1, <1>2, <1>3, <1>4 DEF SentInv

\* A response that is stored puts its words where they belong; one whose data are
\* dropped is noted.
LEMMA StoreSent ==
  ASSUME Inv, PacketsTile, SentInv, replyq # <<>>, Store(Head(replyq)), replyq' = Tail(replyq),
         UNCHANGED <<addr, size, left, op, ret, sram, cmdq, lost>>
  PROVE  SentInv'
<1>1. /\ replyq \in Seq(Packet) /\ mirror \in [Word -> Content] /\ dropped \in BOOLEAN
  BY DEF Inv, LinkType, MemType
<1>2. PICK h \in Packet : h = Head(replyq) /\ h = replyq[1] /\ 1 \in DOMAIN replyq
  BY <1>1, QueueHead
<1>3. /\ h.local = h.at /\ h.dir \in Dir
      /\ h.data = IF h.dir = "rx" THEN RdcuWords(h) ELSE Nothing
  BY <1>2 DEF SentInv, Exact, PacketsTile, Tiles, Tile, Packet
<1>4. Exact'
  <2>1. \A i \in DOMAIN replyq' : i + 1 \in DOMAIN replyq /\ replyq'[i] = replyq[i + 1]
    BY <1>1, QueueHead
  <2> QED
    BY <2>1 DEF SentInv, Exact, IcuWords, RdcuWords
<1>5. Apart' /\ Finished'
  <2>1. replyq' # <<>> => replyq # <<>>
    OBVIOUS
  <2> QED
    BY <2>1 DEF SentInv, Apart, Asked, Finished
<1>6. \/ mirror' = Put(mirror, h.at, h.data) /\ dropped' = dropped
      \/ mirror' = mirror /\ dropped' = (dropped \/ h.dir = "rx")
  BY <1>2, <1>3 DEF Store
<1>7. ASSUME NEW a \in Word, mirror[a] = Rdcu(a) \/ dropped \/ Covers(h, "rx", a)
      PROVE  dropped' \/ mirror'[a] = Rdcu(a)
  <2>1. CASE mirror' = mirror /\ dropped' = (dropped \/ h.dir = "rx")
    BY <1>7, <2>1 DEF Covers
  <2>2. CASE mirror' = Put(mirror, h.at, h.data) /\ dropped' = dropped
    <3>1. CASE h.dir = "rx"
      <4>1. mirror'[a] = IF h.at <= a /\ a < h.at + h.len THEN Rdcu(a) ELSE mirror[a]
        BY <1>1, <1>3, <2>2, <3>1, PutExact
      <4> QED
        BY <1>7, <2>2, <4>1 DEF Covers
    <3>2. CASE h.dir # "rx"
      <4>1. mirror'[a] = mirror[a]
        BY <1>1, <1>3, <2>2, <3>2, PutExact
      <4> QED
        BY <1>7, <2>2, <3>2, <4>1 DEF Covers
    <3> QED
      BY <3>1, <3>2
  <2> QED
    BY <1>6, <2>1, <2>2
<1>8. \A a : Under(replyq, "rx", a) => Covers(h, "rx", a) \/ Under(Tail(replyq), "rx", a)
  BY <1>1, <1>2, TailUnder
<1>9. Underway'
  <2> SUFFICES ASSUME op # "none" \/ ret = "ok", lost = 0, NEW a \in Word
               PROVE  /\ Passed("rx", a) =>
                           \/ Under(cmdq, "rx", a) \/ Under(Tail(replyq), "rx", a)
                           \/ dropped' \/ mirror'[a] = Rdcu(a)
                      /\ Passed("tx", a) => Under(cmdq, "tx", a) \/ sram[a] = Icu(a)
    BY DEF Underway, Under, Passed
  <2> QED
    BY <1>7, <1>8 DEF SentInv, Underway
<1> QED
  BY <1>4, <1>5, <1>9 DEF SentInv

\* The RDCU puts the words of a write where they belong, and answers a read with
\* words that no write has changed.
LEMMA ExecuteSent ==
  ASSUME Inv, PacketsTile, NoStray, SentInv, Execute
  PROVE  SentInv'
<1>1. /\ cmdq \in Seq(Packet) /\ replyq \in Seq(Packet) /\ sram \in [Word -> Content]
  BY DEF Inv, LinkType, MemType
<1>2. /\ cmdq # <<>> /\ cmdq' = Tail(cmdq)
      /\ UNCHANGED <<addr, size, left, op, ret, mirror, lost, dropped>>
  BY ExecuteIs DEF args, loop, Execute
<1>3. PICK h \in Packet : h = Head(cmdq) /\ h = cmdq[1] /\ 1 \in DOMAIN cmdq
  BY <1>1, <1>2, QueueHead
<1>4. /\ Tile(h) /\ h.dir \in Dir
      /\ h.at \in Nat /\ h.len \in Nat /\ h.at % 4 = 0 /\ h.at + h.len <= SRAM_SIZE
      /\ h.data = IF h.dir = "tx" THEN IcuWords(h) ELSE Nothing
  BY <1>3 DEF SentInv, Exact, PacketsTile, Tiles, Packet
<1>5. PICK r \in Packet : /\ r = Answer(h) /\ r.dir = h.dir /\ r.at = h.at /\ r.len = h.len
                          /\ r.data = IF h.dir = "tx" THEN Nothing
                                      ELSE Read(sram, h.at, h.len)
  BY AnswerType DEF Inv
<1>6. /\ replyq' = Append(replyq, r)
      /\ sram' = IF h.dir = "tx" THEN Put(sram, h.at, h.data) ELSE sram
  BY <1>3, <1>5, ExecuteIs
<1>7. r.data = IF r.dir = "rx" THEN RdcuWords(r) ELSE Nothing
  <2>1. CASE h.dir = "tx"
    BY <1>5, <2>1
  <2>2. CASE h.dir = "rx"
    <3>1. ASSUME NEW a \in Word, h.at <= a, a < h.at + h.len PROVE sram[a] = Rdcu(a)
      <4>1. a \in Nat
        BY SramAssumption DEF Word
      <4>2. Asked("rx", a)
        BY <1>4, <2>2, <3>1, <4>1, TileAsked
      <4>3. ~ Asked("tx", a)
        BY <1>2, <4>2 DEF SentInv, Apart
      <4> QED
        BY <4>3 DEF NoStray
    <3>2. ASSUME NEW o \in {o \in Word : o < h.len}
          PROVE  sram[h.at + o] = Rdcu(h.at + o)
      <4>1. h.at + o \in Word /\ h.at <= h.at + o /\ h.at + o < h.at + h.len
        BY <1>4, RangeWords
      <4> QED
        BY <3>1, <4>1
    <3>3. Read(sram, h.at, h.len) = RdcuWords(h)
      BY <3>2 DEF Read, RdcuWords
    <3> QED
      BY <1>5, <2>2, <3>3 DEF RdcuWords
  <2> QED
    BY <1>4, <2>1, <2>2 DEF Dir
<1>8. Exact'
  <2>1. \A i \in DOMAIN cmdq' : i + 1 \in DOMAIN cmdq /\ cmdq'[i] = cmdq[i + 1]
    BY <1>1, <1>2, QueueHead
  <2>2. \A i \in DOMAIN replyq' : \/ i \in DOMAIN replyq /\ replyq'[i] = replyq[i]
                                 \/ replyq'[i] = r
    BY <1>1, <1>6, QueueAppend
  <2> QED
    BY <1>7, <2>1, <2>2 DEF SentInv, Exact, IcuWords, RdcuWords
<1>9. Apart' /\ Finished'
  BY <1>2 DEF SentInv, Apart, Asked, Finished
<1>10. ASSUME NEW a \in Word
       PROVE  sram'[a] = IF Covers(h, "tx", a) THEN Icu(a) ELSE sram[a]
  <2>1. CASE h.dir = "tx"
    BY <1>1, <1>4, <1>6, <2>1, PutExact DEF Covers
  <2>2. CASE h.dir # "tx"
    BY <1>6, <2>2 DEF Covers
  <2> QED
    BY <2>1, <2>2
<1>11. \A d, a : Under(cmdq, d, a) => Covers(h, d, a) \/ Under(Tail(cmdq), d, a)
  BY <1>1, <1>2, <1>3, TailUnder
<1>12. \A d, a : Under(replyq, d, a) \/ Covers(h, d, a) => Under(Append(replyq, r), d, a)
  BY <1>1, <1>5, AppendUnder DEF Covers
<1>13. Underway'
  <2> SUFFICES ASSUME op # "none" \/ ret = "ok", lost = 0, NEW a \in Word
               PROVE  /\ Passed("rx", a) =>
                           \/ Under(Tail(cmdq), "rx", a) \/ Under(Append(replyq, r), "rx", a)
                           \/ dropped \/ mirror[a] = Rdcu(a)
                      /\ Passed("tx", a) => Under(Tail(cmdq), "tx", a) \/ sram'[a] = Icu(a)
    BY <1>2, <1>6 DEF Underway, Under, Passed
  <2> QED
    BY <1>10, <1>11, <1>12 DEF SentInv, Underway
<1> QED
  BY <1>8, <1>9, <1>13 DEF SentInv

\* A packet that is lost ends all promises but those for the packets left.
LEMMA LostSent ==
  ASSUME Inv, SentInv, LosePacket
  PROVE  SentInv'
<1>1. /\ cmdq \in Seq(Packet) /\ replyq \in Seq(Packet) /\ lost \in Nat
  BY DEF Inv, LinkType
<1>2. /\ lost' # 0 /\ UNCHANGED <<addr, size, left, op, ret>>
      /\ \/ cmdq # <<>> /\ cmdq' = Tail(cmdq) /\ UNCHANGED replyq
         \/ replyq # <<>> /\ replyq' = Tail(replyq) /\ UNCHANGED cmdq
  BY <1>1 DEF LosePacket, args, loop
<1>3. Apart' /\ Underway' /\ Finished'
  BY <1>2 DEF SentInv, Apart, Asked, Underway, Finished
<1>4. Exact'
  <2>1. CASE cmdq # <<>> /\ cmdq' = Tail(cmdq) /\ UNCHANGED replyq
    <3>1. \A i \in DOMAIN cmdq' : i + 1 \in DOMAIN cmdq /\ cmdq'[i] = cmdq[i + 1]
      BY <1>1, <2>1, QueueHead
    <3> QED
      BY <2>1, <3>1 DEF SentInv, Exact, IcuWords, RdcuWords
  <2>2. CASE replyq # <<>> /\ replyq' = Tail(replyq) /\ UNCHANGED cmdq
    <3>1. \A i \in DOMAIN replyq' : i + 1 \in DOMAIN replyq /\ replyq'[i] = replyq[i + 1]
      BY <1>1, <2>2, QueueHead
    <3> QED
      BY <2>2, <3>1 DEF SentInv, Exact, IcuWords, RdcuWords
  <2> QED
    BY <1>2, <2>1, <2>2
<1> QED
  BY <1>3, <1>4 DEF SentInv

\* A packet that is sent transfers the words its direction passes.
LEMMA TxSent ==
  ASSUME Inv, PacketsTile, NoStray, SentInv, Tx
  PROVE  SentInv'
<1>1. /\ cmdq \in Seq(Packet) /\ replyq \in Seq(Packet) /\ mirror \in [Word -> Content]
      /\ op \in {"rx", "tx", "both"} /\ dir \in Dir
  BY DEF Inv, LinkType, MemType, CallInv, CallType, Tx
<1>2. UNCHANGED <<mtu, addr, size, mirror, sram, replyq, dropped>>
  BY DEF Tx
<1>3. CASE Fail /\ UNCHANGED <<cmdq, done, left>>
  BY <1>1, <1>2, <1>3, SameSent DEF Fail, Return
<1>4. CASE /\ cmdq' = Append(cmdq, NewPacket(dir)) /\ Advance(dir)
           /\ Loop(op, mtu, left', dir) /\ UNCHANGED lost
  <2>1. PICK d \in Dir : d = dir
    BY <1>1
  <2>2. PICK n \in Packet :
          /\ n = NewPacket(d) /\ n.dir = d /\ n.at = addr[d] + done[d] /\ n.len = PacketLen(d)
          /\ n.data = IF d = "tx" THEN Read(mirror, addr[d] + done[d], PacketLen(d)) ELSE Nothing
    BY <1>1, <2>1, NewPacketType
  <2>3. /\ n.at \in Nat /\ n.len \in Nat /\ n.at % 4 = 0 /\ n.at + n.len <= SRAM_SIZE
    BY DEF Packet
  <2>4. /\ addr[d] \in Nat /\ size[d] \in Nat /\ done[d] \in Nat /\ left[d] \in Nat
        /\ left[d] = size[d] - done[d] /\ PacketLen(d) \in Nat /\ PacketLen(d) <= left[d]
    BY <1>1, <2>1, AtHand DEF Inv
  <2>5. /\ left' \in [Dir -> Nat] /\ left'[d] = left[d] - PacketLen(d)
        /\ \A e \in Dir : e # d => left'[e] = left[e]
    BY <1>1, <1>2, <1>4, <2>1, AdvanceCut DEF Inv
  <2>6. ASSUME NEW a \in Word, NEW e \in Dir, Passed(e, a)'
        PROVE  Passed(e, a) \/ Covers(n, e, a)
    <3>1. a \in Int
      BY SramAssumption DEF Word
    <3>2. CASE e = d
      BY <1>2, <2>2, <2>4, <2>5, <2>6, <3>1, <3>2 DEF Passed, Covers
    <3>3. CASE e # d
      BY <1>2, <2>5, <2>6, <3>3 DEF Passed
    <3> QED
      BY <3>2, <3>3
  <2>7. n.data = IF n.dir = "tx" THEN IcuWords(n) ELSE Nothing
    <3>1. CASE d = "tx"
      <4>1. ASSUME NEW a \in Word, n.at <= a, a < n.at + n.len PROVE mirror[a] = Icu(a)
        <5>1. a \in Int
          BY SramAssumption DEF Word
        <5>2. Asked("tx", a)
          BY <2>2, <2>4, <3>1, <4>1, <5>1 DEF Asked
        <5>3. ~ Asked("rx", a)
          BY <1>1, <5>2 DEF SentInv, Apart
        <5> QED
          BY <5>3 DEF NoStray
      <4>2. ASSUME NEW o \in {o \in Word : o < n.len}
            PROVE  mirror[n.at + o] = Icu(n.at + o)
        <5>1. n.at + o \in Word /\ n.at <= n.at + o /\ n.at + o < n.at + n.len
          BY <2>3, RangeWords
        <5> QED
          BY <4>1, <5>1
      <4>3. Read(mirror, n.at, n.len) = IcuWords(n)
        BY <4>2 DEF Read, IcuWords
      <4> QED
        BY <2>2, <3>1, <4>3 DEF IcuWords
    <3>2. CASE d # "tx"
      BY <2>2, <3>2
    <3> QED
      BY <3>1, <3>2
  <2>8. cmdq' = Append(cmdq, n)
    BY <1>4, <2>1, <2>2
  <2>9. Exact'
    <3>1. \A i \in DOMAIN cmdq' : \/ i \in DOMAIN cmdq /\ cmdq'[i] = cmdq[i]
                                 \/ cmdq'[i] = n
      BY <1>1, <2>8, QueueAppend
    <3> QED
      BY <1>2, <2>7, <3>1 DEF SentInv, Exact, IcuWords, RdcuWords
  <2>10. Apart'
    BY <1>1, <1>2 DEF SentInv, Apart, Asked
  <2>11. \A e, a : Under(cmdq, e, a) \/ Covers(n, e, a) => Under(Append(cmdq, n), e, a)
    BY <1>1, AppendUnder
  <2>12. Underway'
    <3> SUFFICES ASSUME lost = 0, NEW a \in Word
                 PROVE  /\ Passed("rx", a)' =>
                             \/ Under(Append(cmdq, n), "rx", a) \/ Under(replyq, "rx", a)
                             \/ dropped \/ mirror[a] = Rdcu(a)
                        /\ Passed("tx", a)' => Under(Append(cmdq, n), "tx", a) \/ sram[a] = Icu(a)
      BY <1>2, <1>4, <2>8 DEF Underway, Under
    <3>1. /\ Passed("rx", a) => \/ Under(cmdq, "rx", a) \/ Under(replyq, "rx", a)
                                \/ dropped \/ mirror[a] = Rdcu(a)
          /\ Passed("tx", a) => Under(cmdq, "tx", a) \/ sram[a] = Icu(a)
      BY <1>1 DEF SentInv, Underway
    <3> QED
      BY <2>6, <2>11, <3>1 DEF Dir
  <2>13. Finished'
    <3> SUFFICES ASSUME op' = "none", NEW e \in Dir PROVE left'[e] = 0
      BY DEF Finished
    <3>1. Uses(op, e) => left'[e] = 0
      BY <1>1, <1>4, <2>5, LoopEnds
    <3>2. ~ Uses(op, e) => left[e] = 0 /\ e # d
      BY <1>1, <2>1, AtHand DEF Inv, CallInv, Running
    <3> QED
      BY <2>5, <3>1, <3>2
  <2> QED
    BY <2>9, <2>10, <2>12, <2>13 DEF SentInv
<1> QED
  BY <1>3, <1>4 DEF Tx

\* Every step keeps track of each word.
LEMMA NextSentInv == Inv /\ PacketsTile /\ NoStray /\ SentInv /\ [Next]_vars => SentInv'
<1> SUFFICES ASSUME Inv, PacketsTile, NoStray, SentInv, [Next]_vars PROVE SentInv'
  OBVIOUS
<1>1. CASE Process \/ Poll
  BY <1>1, StoreSent DEF Process, Poll, args, loop
<1>2. CASE Grab
  <2>1. UNCHANGED <<mtu, addr, size, done, left, mirror, sram, cmdq, replyq, dropped>>
    BY <1>2 DEF Grab
  <2>2. op \in {"rx", "tx", "both"} /\ dir \in Dir /\ Wants(op, mtu, left, dir)
    BY <1>2 DEF Grab, Inv, CallInv, CallType, Running
  <2>3. CASE Loop(op, mtu, left, dir) /\ UNCHANGED lost
    <3>1. op' = op /\ ret' = ret
      BY <2>2, <2>3 DEF Loop, GoOn, Return
    <3> QED
      BY <2>1, <2>3, <3>1, SameSent
  <2>4. CASE Fail
    BY <2>1, <2>2, <2>4, SameSent DEF Fail, Return
  <2>5. CASE UNCHANGED <<op, dir, ret, lost>>
    BY <2>1, <2>5, SameSent
  <2> QED
    BY <1>2, <2>3, <2>4, <2>5 DEF Grab
<1>3. CASE Processed \/ UNCHANGED vars
  BY <1>3, SameSent DEF Processed, vars, args, loop
<1> QED
  BY <1>1, <1>2, <1>3, CallSent, TxSent, ExecuteSent, LostSent DEF Next, Library, Link

\* A call that returned 0 has transferred every word it was asked for and no other,
\* once its transactions are answered (Complete), whatever its arguments, however
\* its packets interleave with those of the other direction, and whatever is lost.
THEOREM CompleteCorrect == Spec => []Complete
<1>1. Init => PacketsTile /\ NoStray /\ SentInv
  BY DEF Init, PacketsTile, Tiles, Ascending, AllBefore, NoStray, SentInv, Apart, Exact,
         Underway, Finished
<1>2. Inv /\ NoStray /\ SentInv => Complete
  <2> SUFFICES ASSUME Inv, NoStray, SentInv, ret = "ok", op = "none", Open = 0, NEW a \in Word
               PROVE  /\ dropped \/ mirror[a] = IF Asked("rx", a) THEN Rdcu(a) ELSE Icu(a)
                      /\ sram[a] = IF Asked("tx", a) THEN Icu(a) ELSE Rdcu(a)
    BY DEF Complete
  <2>1. cmdq \in Seq(Packet) /\ replyq \in Seq(Packet) /\ lost \in Nat
    BY DEF Inv, LinkType
  <2>2. Len(cmdq) = 0 /\ Len(replyq) = 0 /\ lost = 0
    BY <2>1, LenProperties DEF Open
  <2>3. cmdq = <<>> /\ replyq = <<>>
    BY <2>1, <2>2, EmptySeq
  <2>4. \A d, b : ~ Under(cmdq, d, b) /\ ~ Under(replyq, d, b)
    BY <2>3 DEF Under
  <2>5. \A d \in Dir : Asked(d, a) => Passed(d, a)
    <3> SUFFICES ASSUME NEW d \in Dir, Asked(d, a) PROVE Passed(d, a)
      OBVIOUS
    <3>1. left[d] = 0 /\ addr[d] \in Int /\ size[d] \in Int
      BY SramAssumption DEF SentInv, Finished, Inv, CallInv, CallType
    <3> QED
      BY <3>1 DEF Asked, Passed
  <2>6. /\ Asked("rx", a) => dropped \/ mirror[a] = Rdcu(a)
        /\ Asked("tx", a) => sram[a] = Icu(a)
    BY <2>2, <2>4, <2>5 DEF SentInv, Underway, Dir
  <2> QED
    BY <2>6 DEF NoStray
<1> QED
  BY <1>1, <1>2, InitInv, NextInv, NextPacketsTile, StrayCorrect, NextSentInv, PTL DEF Spec
=============================================================================
