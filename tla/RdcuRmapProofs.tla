--------------------------- MODULE RdcuRmapProofs ---------------------------
(***************************************************************************)
(* Proofs about RdcuRmap for every size of the transaction log, every set  *)
(* of registers and SRAM blocks, every byte order and every fault; then    *)
(* what the status is worth, that pending transactions end and that none   *)
(* pending means the mirror is complete, under the faults that do not      *)
(* refute it.                                                              *)
(***************************************************************************)
EXTENDS RdcuRmap, FiniteSetTheorems, SequenceTheorems, TLAPS

-----------------------------------------------------------------------------
(* Types *)

\* The initial state is well typed.
LEMMA InitTypeOK == Init => TypeOK
<1> SUFFICES ASSUME Init PROVE TypeOK
  OBVIOUS
<1>1. LogType
  BY DEF Init, LogType
<1>2. CallType
  BY DEF Init, CallType
<1>3. MemType
  BY DEF Init, MemType
<1>4. LinkType
  <2>1. cmdq \in Seq(Cmd) /\ replyq \in Seq(Reply)
    BY DEF Init
  <2>2. misled \in BOOLEAN
    BY Zenon DEF Init
  <2> QED
    BY <2>1, <2>2 DEF LinkType
<1> QED
  BY <1>1, <1>2, <1>3, <1>4 DEF TypeOK

\* Byte swapping and the conversion to the byte order of the host give words.
LEMMA SwapType == \A w \in Word : ByteSwap[w] \in Word /\ ToHost(w) \in Word
BY WordAssumption DEF ToHost

\* What grabbing and releasing a slot do to the types of the log.
LEMMA GrabType ==
  ASSUME LogType, NEW s \in Slot, NEW a \in Addr, GrabSlot(s, a)
  PROVE  LogType'
<1>1. in_use' \in [Slot -> BOOLEAN] /\ local_addr' \in [Slot -> Addr \cup {Null}]
  BY DEF LogType, GrabSlot
<1>2. pending' \in Int
  BY DEF LogType, GrabSlot
<1>3. ASSUME NEW t \in Slot, in_use'[t] PROVE local_addr'[t] \in Addr
  BY <1>3 DEF LogType, GrabSlot
<1> QED
  BY <1>1, <1>2, <1>3 DEF LogType

\* Releasing a slot keeps the types of the log.
LEMMA ReleaseType ==
  ASSUME LogType, NEW s \in Slot, ReleaseSlot(s)
  PROVE  LogType'
BY DEF LogType, ReleaseSlot

\* The oldest packet of a queue, and what is left without it.
LEMMA QueueHead ==
  ASSUME NEW S, NEW q \in Seq(S), q # <<>>
  PROVE  Head(q) \in S /\ Tail(q) \in Seq(S)
BY HeadTailProperties

\* A call that leaves rdcu_process_rx goes on in a well-typed state.
LEMMA LeaveRxType ==
  ASSUME CallType, LeaveRx
  PROVE  CallType'
BY DEF CallType, LeaveRx

\* A call that returns leaves no argument behind.
LEMMA ReturnType == Return => CallType'
BY DEF Return, CallType

\* Wherever a payload is copied to, the mirror holds words.
LEMMA CopiedType ==
  ASSUME MemType, NEW from, NEW a \in Addr, NEW w \in Word
  PROVE  Copied(from, a, w) \subseteq [Addr -> Word]
BY DEF Copied, MemType

\* Every step of caller, library, link and RDCU keeps the types.
LEMMA NextTypeOK == TypeOK /\ [Next]_vars => TypeOK'
<1> SUFFICES ASSUME LogType, CallType, MemType, LinkType, [Next]_vars
             PROVE  LogType' /\ CallType' /\ MemType' /\ LinkType'
  BY DEF TypeOK
<1>1. ASSUME NEW a \in Writable, NEW w \in Word, WriteMirror(a, w)
      PROVE  LogType' /\ CallType' /\ MemType' /\ LinkType'
  <2>1. MemType'
    BY <1>1 DEF WriteMirror, MemType, Writable, Addr
  <2> QED
    BY <1>1, <2>1 DEF WriteMirror, LogType, CallType, LinkType, log, call, link
<1>2. ASSUME NEW a \in Addr, NEW read \in BOOLEAN, Sync(a, read)
      PROVE  LogType' /\ CallType' /\ MemType' /\ LinkType'
  <2>1. PICK s \in Slot : /\ GrabSlot(s, a)
                          /\ \/ NoCommand(s)
                             \/ /\ ProcessRxThen("tx", s, a, read, CopiedBeforeTx(a, read))
                                /\ UNCHANGED leaked
    BY <1>2 DEF Sync
  <2>2. CopiedBeforeTx(a, read) \in Word \cup {Null}
    BY SwapType DEF CopiedBeforeTx, MemType
  <2>3. CallType' /\ leaked' \subseteq Slot
    <3>1. CASE NoCommand(s)
      BY <3>1, ReturnType DEF NoCommand, MemType
    <3>2. CASE ProcessRxThen("tx", s, a, read, CopiedBeforeTx(a, read)) /\ UNCHANGED leaked
      BY <3>2, <2>2 DEF ProcessRxThen, CallType, MemType
    <3> QED
      BY <2>1, <3>1, <3>2
  <2> QED
    BY <1>2, <2>1, <2>3, GrabType DEF Sync, MemType, LinkType, link
<1>3. ASSUME NEW a \in Sram, NEW read \in BOOLEAN, SyncData(a, read)
      PROVE  LogType' /\ CallType' /\ MemType' /\ LinkType'
  BY <1>3 DEF SyncData, ProcessRxThen, LogType, CallType, MemType, LinkType, log, link, Addr
<1>4. CASE Grab
  <2>1. CASE LogFull /\ Return /\ UNCHANGED <<log, leaked>>
    BY <1>4, <2>1, ReturnType DEF Grab, LogType, MemType, LinkType, log, link
  <2>2. ASSUME NEW s \in Slot, GrabSlot(s, arg),
               \/ NoCommand(s)
               \/ ProcessRxThen("tx", s, arg, reading, Null) /\ UNCHANGED leaked
        PROVE  LogType' /\ CallType' /\ MemType' /\ LinkType'
    <3>1. arg \in Addr
      BY <1>4 DEF Grab, CallType
    <3>2. CallType' /\ leaked' \subseteq Slot
      <4>1. CASE NoCommand(s)
        BY <4>1, ReturnType DEF NoCommand, MemType
      <4>2. CASE ProcessRxThen("tx", s, arg, reading, Null) /\ UNCHANGED leaked
        BY <3>1, <4>2 DEF ProcessRxThen, CallType, MemType
      <4> QED
        BY <2>2, <4>1, <4>2
    <3> QED
      BY <1>4, <2>2, <3>1, <3>2, GrabType DEF Grab, MemType, LinkType, link
  <2>3. \/ LogFull /\ Return /\ UNCHANGED <<log, leaked>>
        \/ \E s \in Slot :
             /\ GrabSlot(s, arg)
             /\ \/ NoCommand(s)
                \/ ProcessRxThen("tx", s, arg, reading, Null) /\ UNCHANGED leaked
    BY <1>4 DEF Grab
  <2> QED
    BY <2>1, <2>2, <2>3
<1>5. CASE SyncStatus
  BY <1>5 DEF SyncStatus, ProcessRxThen, LogType, CallType, MemType, LinkType, log, link
<1>6. CASE ResetLog
  BY <1>6 DEF ResetLog, LogType, CallType, MemType, LinkType, call
<1>7. CASE Tx
  <2>1. slot \in Slot /\ arg \in Addr /\ reading \in BOOLEAN /\ buf \in Word \cup {Null}
    BY <1>7 DEF Tx, CallType
  <2>2. [tr |-> slot, read |-> reading, addr |-> arg, data |-> Payload] \in Cmd
    BY <2>1 DEF Payload, Cmd, MemType
  <2>3. cmdq' \in Seq(Cmd)
    BY <1>7, <2>2, AppendProperties DEF Tx, LinkType
  <2> QED
    BY <1>7, <2>1, <2>3, ReturnType DEF Tx, LogType, MemType, LinkType, log
<1>8. CASE RxEmpty \/ RxNoMemory
  BY <1>8, LeaveRxType DEF RxEmpty, RxNoMemory, LogType, MemType, LinkType, log, link
<1>9. ASSUME Receive
      PROVE  /\ LinkType'
             /\ Head(replyq).tr \in Slot
             /\ Head(replyq).data # Null => Head(replyq).data \in Word
  <2>1. Head(replyq) \in Reply /\ Tail(replyq) \in Seq(Reply)
    BY <1>9, QueueHead DEF Receive, LinkType
  <2> QED
    BY <1>9, <2>1 DEF Receive, LinkType, Reply
<1>10. CASE RxGarbled
  BY <1>9, <1>10 DEF RxGarbled, Receive, LogType, CallType, MemType, log, call
<1>11. CASE RxUnknown
  BY <1>9, <1>11 DEF RxUnknown, Receive, LogType, CallType, MemType, log, call
<1>12. CASE RxBadLength
  BY <1>9, <1>12, LeaveRxType, ReleaseType DEF RxBadLength, Receive, MemType
<1>13. CASE RxNoData
  BY <1>9, <1>13, ReleaseType DEF RxNoData, Receive, CallType, MemType, call
<1>14. ASSUME NEW w \in Word, NEW crc \in Checksum, RxData(w, crc)
       PROVE  LogType' /\ CallType' /\ MemType' /\ LinkType'
  <2>1. mirror' \in [Addr -> Word]
    <3> DEFINE rp == Head(replyq)
    <3>1. in_use[rp.tr] /\ rp.tr \in Slot
      BY <1>9, <1>14 DEF RxData
    <3>2. local_addr[rp.tr] \in Addr /\ ToHost(w) \in Word
      BY <3>1, SwapType DEF LogType
    <3>3. Copied(rp.addr, local_addr[rp.tr], ToHost(w)) \subseteq [Addr -> Word]
      BY <3>2, CopiedType
    <3>4. mirror' = mirror \/ mirror' \in Copied(rp.addr, local_addr[rp.tr], ToHost(w))
      BY <1>14 DEF RxData
    <3> HIDE DEF rp
    <3> QED
      BY <3>3, <3>4 DEF MemType
  <2>2. CallType'
    BY <1>14, LeaveRxType DEF RxData, CallType, call
  <2> QED
    BY <1>9, <1>14, <2>1, <2>2, ReleaseType DEF RxData, Receive, MemType
<1>15. CASE RdcuExecute
  <2>1. Head(cmdq) \in Cmd /\ Tail(cmdq) \in Seq(Cmd)
    BY <1>15, QueueHead DEF RdcuExecute, LinkType
  <2>2. Executed(Head(cmdq)) \in Reply
    BY <2>1 DEF Executed, Cmd, Reply, MemType
  <2>3. remote' \in [Addr -> Word]
    BY <1>15, <2>1 DEF RdcuExecute, Cmd, MemType
  <2>4. LinkType'
    BY <1>15, <2>1, <2>2, AppendProperties DEF RdcuExecute, LinkType
  <2> QED
    BY <1>15, <2>3, <2>4 DEF RdcuExecute, LogType, CallType, MemType, log, call
<1>16. CASE RdcuReject
  <2>1. Head(cmdq) \in Cmd /\ Tail(cmdq) \in Seq(Cmd)
    BY <1>16, QueueHead DEF RdcuReject, LinkType
  <2>2. [Executed(Head(cmdq)) EXCEPT !.data = Null] \in Reply
    BY <2>1 DEF Executed, Cmd, Reply, MemType
  <2>3. LinkType'
    BY <1>16, <2>1, <2>2, AppendProperties DEF RdcuReject, LinkType
  <2> QED
    BY <1>16, <2>3 DEF RdcuReject, LogType, CallType, MemType, log, call
<1>17. ASSUME NEW a \in Readable, NEW w \in Word, RdcuUpdate(a, w)
       PROVE  LogType' /\ CallType' /\ MemType' /\ LinkType'
  <2>1. MemType'
    BY <1>17 DEF RdcuUpdate, MemType, Readable, Addr
  <2> QED
    BY <1>17, <2>1 DEF RdcuUpdate, LogType, CallType, LinkType, log, call, link
<1>18. CASE LoseCommand
  <2>1. Head(cmdq) \in Cmd /\ Tail(cmdq) \in Seq(Cmd)
    BY <1>18, QueueHead DEF LoseCommand, LinkType
  <2>2. Head(cmdq).tr \in Slot
    BY <2>1 DEF Cmd
  <2> QED
    BY <1>18, <2>1, <2>2 DEF LoseCommand, Abandon, LogType, CallType, MemType, LinkType, log, call
<1>19. CASE LoseReply
  <2>1. Head(replyq) \in Reply /\ Tail(replyq) \in Seq(Reply)
    BY <1>19, QueueHead DEF LoseReply, LinkType
  <2>2. Head(replyq).tr \in Slot
    BY <2>1 DEF Reply
  <2> QED
    BY <1>19, <2>1, <2>2 DEF LoseReply, Abandon, LogType, CallType, MemType, LinkType, log, call
<1>20. CASE DamageHeader
  <2>1. PICK t \in Slot, d \in {Head(replyq).data, Null} :
          /\ replyq' = [replyq EXCEPT ![1].tr = t, ![1].data = d]
          /\ IF t = Head(replyq).tr THEN UNCHANGED <<leaked, misled>>
             ELSE Abandon(Head(replyq).tr) /\ misled' = TRUE
    BY <1>20 DEF DamageHeader
  <2>2. replyq \in Seq(Reply) /\ replyq # <<>>
    BY <1>20 DEF DamageHeader, LinkType
  <2>3. /\ Head(replyq) \in Reply /\ Head(replyq) = replyq[1]
        /\ 1 \in DOMAIN replyq
    BY <2>2, QueueHead
  <2>4. replyq' \in Seq(Reply)
    <3>1. [[replyq[1] EXCEPT !.tr = t] EXCEPT !.data = d] \in Reply
      BY <2>3 DEF Reply
    <3>2. replyq' = [replyq EXCEPT ![1] = [[replyq[1] EXCEPT !.tr = t] EXCEPT !.data = d]]
      BY <2>1, <2>2, <2>3
    <3> QED
      BY <2>2, <2>3, <3>1, <3>2, ExceptSeq
  <2>5. leaked' \subseteq Slot /\ misled' \in BOOLEAN
    BY <2>1, <2>3 DEF Abandon, Reply, MemType, LinkType
  <2> QED
    BY <1>20, <2>4, <2>5 DEF DamageHeader, LogType, CallType, MemType, LinkType, log, call
<1>21. CASE UNCHANGED vars
  BY <1>21 DEF LogType, CallType, MemType, LinkType, vars, log, call, link
<1>22. Next => \/ \E a \in Writable, w \in Word : WriteMirror(a, w)
               \/ \E a \in Addr, read \in BOOLEAN : Sync(a, read)
               \/ \E a \in Sram, read \in BOOLEAN : SyncData(a, read)
               \/ Grab \/ SyncStatus \/ ResetLog \/ Tx
               \/ RxEmpty \/ RxNoMemory \/ RxGarbled \/ RxUnknown \/ RxBadLength
               \/ RxNoData \/ (\E w \in Word, crc \in Checksum : RxData(w, crc))
               \/ RdcuExecute \/ RdcuReject \/ LoseCommand \/ LoseReply \/ DamageHeader
               \/ \E a \in Readable, w \in Word : RdcuUpdate(a, w)
  BY DEF Next, Library, Rx, Caller, Rdcu, Addr
<1> QED
  BY <1>1, <1>2, <1>3, <1>4, <1>5, <1>6, <1>7, <1>8, <1>10, <1>11, <1>12, <1>13,
     <1>14, <1>15, <1>16, <1>17, <1>18, <1>19, <1>20, <1>21, <1>22

\* Every reachable state is well typed: in particular a slot in use always has a
\* local address, so that a response never finds NULL there.
THEOREM TypeCorrect == Spec => []TypeOK
BY InitTypeOK, NextTypeOK, PTL DEF Spec

-----------------------------------------------------------------------------
(* The pending counter *)

\* The slots in use can be counted.
LEMMA InUseFinite == IsFiniteSet(InUse)
<1>1. IsFiniteSet(Slot)
  <2>1. TRANS_LOG_SIZE \in Int
    BY LogAssumption, SMTT(30)
  <2>2. IsFiniteSet(0 .. TRANS_LOG_SIZE - 1)
    <3>1. 0 \in Int /\ TRANS_LOG_SIZE - 1 \in Int
      BY <2>1, SMT
    <3> HIDE LogAssumption
    <3> QED
      BY <3>1, FS_Interval
  <2> QED
    BY <2>2, Zenon DEF Slot
<1> QED
  BY <1>1, FS_Subset DEF InUse

\* Grabbing adds one slot to those in use.
LEMMA GrabInUse ==
  ASSUME LogType, NEW s \in Slot, NEW a, GrabSlot(s, a)
  PROVE  s \notin InUse /\ InUse' = InUse \cup {s} /\ pending' = pending + 1
BY DEF LogType, GrabSlot, InUse

\* Releasing takes one slot from those in use, if it was one of them.
LEMMA ReleaseInUse ==
  ASSUME LogType, NEW s \in Slot, ReleaseSlot(s)
  PROVE  /\ InUse' = InUse \ {s}
         /\ pending' = IF s \in InUse THEN pending - 1 ELSE pending
BY DEF LogType, ReleaseSlot, InUse

\* grab_slot keeps the counter right.
LEMMA GrabCount ==
  ASSUME LogType, PendingCount, NEW s \in Slot, NEW a, GrabSlot(s, a)
  PROVE  PendingCount'
<1>1. Cardinality(InUse \cup {s}) = Cardinality(InUse) + 1
  BY InUseFinite, GrabInUse, FS_AddElement
<1> QED
  BY <1>1, GrabInUse DEF PendingCount

\* release_slot keeps the counter right, also for a slot that was free.
LEMMA ReleaseCount ==
  ASSUME LogType, PendingCount, NEW s \in Slot, ReleaseSlot(s)
  PROVE  PendingCount'
<1>1. Cardinality(InUse \ {s}) = IF s \in InUse THEN Cardinality(InUse) - 1
                                 ELSE Cardinality(InUse)
  BY InUseFinite, FS_RemoveElement
<1> QED
  BY <1>1, ReleaseInUse DEF PendingCount

\* A step that leaves the log alone keeps the counter right.
LEMMA SameCount ==
  ASSUME PendingCount, UNCHANGED <<in_use, pending>>
  PROVE  PendingCount'
BY DEF PendingCount, InUse

\* Every step keeps the counter right.
LEMMA NextPendingCount == TypeOK /\ PendingCount /\ [Next]_vars => PendingCount'
<1> SUFFICES ASSUME TypeOK, PendingCount, [Next]_vars PROVE PendingCount'
  OBVIOUS
<1>1. LogType /\ CallType
  BY DEF TypeOK
<1>2. ASSUME NEW a \in Addr, NEW read \in BOOLEAN, Sync(a, read) PROVE PendingCount'
  BY <1>1, <1>2, GrabCount DEF Sync
<1>3. CASE Grab
  BY <1>1, <1>3, GrabCount, SameCount DEF Grab, log
<1>4. CASE ResetLog
  <2>1. InUse' = {}
    BY <1>4 DEF ResetLog, InUse
  <2> QED
    BY <1>4, <2>1, FS_EmptySet DEF ResetLog, PendingCount
<1>5. CASE RxBadLength \/ RxNoData \/ \E w \in Word, crc \in Checksum : RxData(w, crc)
  <2>1. Head(replyq).tr \in Slot
    <3>1. replyq # <<>>
      BY <1>5 DEF RxBadLength, RxNoData, RxData, Receive
    <3>2. Head(replyq) \in Reply
      BY <3>1, QueueHead DEF TypeOK, LinkType
    <3> QED
      BY <3>2 DEF Reply
  <2>2. ReleaseSlot(Head(replyq).tr)
    BY <1>5 DEF RxBadLength, RxNoData, RxData
  <2> QED
    BY <1>1, <2>1, <2>2, ReleaseCount
<1>6. CASE \/ \E a \in Writable, w \in Word : WriteMirror(a, w)
           \/ \E a \in Sram, read \in BOOLEAN : SyncData(a, read)
           \/ SyncStatus \/ Tx \/ RxEmpty \/ RxNoMemory \/ RxGarbled \/ RxUnknown
           \/ RdcuExecute \/ RdcuReject \/ LoseCommand \/ LoseReply \/ DamageHeader
           \/ \E a \in Readable, w \in Word : RdcuUpdate(a, w)
           \/ UNCHANGED vars
  <2>1. UNCHANGED log
    BY <1>6 DEF WriteMirror, SyncData, SyncStatus, Tx, RxEmpty, RxNoMemory, RxGarbled,
                RxUnknown, RdcuExecute, RdcuReject, LoseCommand, LoseReply, DamageHeader,
                RdcuUpdate, vars
  <2> QED
    BY <2>1, SameCount DEF log
<1> QED
  BY <1>2, <1>3, <1>4, <1>5, <1>6 DEF Next, Library, Rx, Caller, Rdcu, Addr

\* The counter never drifts from the slots in use, whatever fails on the way.
THEOREM PendingCorrect == Spec => []PendingCount
<1>1. Init => PendingCount
  <2> SUFFICES ASSUME Init PROVE PendingCount
    OBVIOUS
  <2>1. in_use = [s \in Slot |-> FALSE]
    BY DEF Init
  <2>2. \A s \in Slot : ~ in_use[s]
    BY <2>1, Zenon
  <2>3. InUse = {}
    BY <2>2 DEF InUse
  <2> QED
    BY <2>3, FS_EmptySet DEF Init, PendingCount
<1> QED
  BY <1>1, TypeCorrect, NextPendingCount, PTL DEF Spec

-----------------------------------------------------------------------------
(* Every transaction has one owner *)

\* The packets of a queue that gets one more.
LEMMA Appended ==
  ASSUME NEW S, NEW q \in Seq(S), NEW e \in S
  PROVE  /\ DOMAIN q = 1 .. Len(q) /\ Len(q) \in Nat
         /\ DOMAIN Append(q, e) = 1 .. Len(q) + 1
         /\ \A i \in 1 .. Len(q) : Append(q, e)[i] = q[i]
         /\ Append(q, e)[Len(q) + 1] = e
BY AppendProperties, LenProperties

\* The packets of a queue that loses its oldest one.
LEMMA Shortened ==
  ASSUME NEW S, NEW q \in Seq(S), q # <<>>
  PROVE  /\ DOMAIN q = 1 .. Len(q) /\ Len(q) \in Nat /\ Len(q) # 0
         /\ Head(q) = q[1]
         /\ DOMAIN Tail(q) = 1 .. Len(q) - 1
         /\ \A i \in 1 .. Len(q) - 1 : Tail(q)[i] = q[i + 1]
BY HeadTailProperties, LenProperties, EmptySeq

\* A packet of a fresh transaction at the end of a queue keeps the queue in order.
LEMMA AppendItem ==
  ASSUME NEW S, NEW q \in Seq(S), NEW e \in S
  PROVE  /\ Packets(Append(q, e)) = Packets(q) \cup {e.tr}
         /\ Distinct(q) /\ e.tr \notin Packets(q) => Distinct(Append(q, e))
         /\ Tracked(q) /\ local_addr[e.tr] = e.addr => Tracked(Append(q, e))
<1>1. /\ DOMAIN q = 1 .. Len(q) /\ Len(q) \in Nat
      /\ DOMAIN Append(q, e) = 1 .. Len(q) + 1
      /\ \A i \in 1 .. Len(q) : Append(q, e)[i] = q[i]
      /\ Append(q, e)[Len(q) + 1] = e
  BY AppendProperties, LenProperties
<1>2. \A i \in DOMAIN Append(q, e) : i \in DOMAIN q \/ i = Len(q) + 1
  BY <1>1
<1>3. Len(q) + 1 \in DOMAIN Append(q, e) /\ DOMAIN q \subseteq DOMAIN Append(q, e)
  BY <1>1
<1>4. Packets(Append(q, e)) = Packets(q) \cup {e.tr}
  <2>1. Packets(Append(q, e)) \subseteq Packets(q) \cup {e.tr}
    BY <1>1, <1>2, Zenon DEF Packets
  <2>2. Packets(q) \subseteq Packets(Append(q, e))
    BY <1>1, <1>3, Zenon DEF Packets
  <2>3. e.tr \in Packets(Append(q, e))
    BY <1>1, <1>3, Zenon DEF Packets
  <2> QED
    BY <2>1, <2>2, <2>3
<1>5. ASSUME Distinct(q), e.tr \notin Packets(q) PROVE Distinct(Append(q, e))
  <2>1. \A i \in DOMAIN q : Append(q, e)[i] = q[i] /\ q[i].tr # e.tr
    BY <1>1, <1>5, Zenon DEF Packets
  <2>2. SUFFICES ASSUME NEW i \in DOMAIN Append(q, e), NEW j \in DOMAIN Append(q, e),
                        Append(q, e)[i].tr = Append(q, e)[j].tr
                 PROVE  i = j
    BY Zenon DEF Distinct
  <2>3. CASE i \in DOMAIN q /\ j \in DOMAIN q
    BY <1>5, <2>1, <2>2, <2>3, Zenon DEF Distinct
  <2>4. CASE i = Len(q) + 1 /\ j = Len(q) + 1
    BY <2>4
  <2>5. CASE i \in DOMAIN q /\ j = Len(q) + 1
    BY <1>1, <2>1, <2>2, <2>5, Zenon
  <2>6. CASE i = Len(q) + 1 /\ j \in DOMAIN q
    BY <1>1, <2>1, <2>2, <2>6, Zenon
  <2> QED
    BY <1>2, <2>3, <2>4, <2>5, <2>6, Zenon
<1>6. ASSUME Tracked(q), local_addr[e.tr] = e.addr PROVE Tracked(Append(q, e))
  BY <1>1, <1>2, <1>6, Zenon DEF Tracked
<1> QED
  BY <1>4, <1>5, <1>6

\* Taking the first packet off a queue of distinct ones removes just its transaction.
LEMMA TailItem ==
  ASSUME NEW S, NEW q \in Seq(S), q # <<>>
  PROVE  /\ Head(q).tr \in Packets(q)
         /\ Distinct(q) => /\ Packets(Tail(q)) = Packets(q) \ {Head(q).tr}
                           /\ Distinct(Tail(q))
         /\ Tracked(q) => Tracked(Tail(q)) /\ local_addr[Head(q).tr] = Head(q).addr
<1>1. /\ DOMAIN q = 1 .. Len(q) /\ Len(q) \in Nat /\ Len(q) # 0
      /\ Head(q) = q[1] /\ 1 \in DOMAIN q
      /\ DOMAIN Tail(q) = 1 .. Len(q) - 1
      /\ \A i \in 1 .. Len(q) - 1 : Tail(q)[i] = q[i + 1]
  BY HeadTailProperties, LenProperties, EmptySeq
<1>2. /\ \A i \in DOMAIN Tail(q) : i + 1 \in DOMAIN q /\ Tail(q)[i] = q[i + 1] /\ i + 1 # 1
      /\ \A i \in DOMAIN q : i = 1 \/ (i - 1 \in DOMAIN Tail(q) /\ Tail(q)[i - 1] = q[i])
      /\ \A i, j \in DOMAIN Tail(q) : i + 1 = j + 1 => i = j
  BY <1>1
<1>3. Head(q).tr \in Packets(q)
  BY <1>1 DEF Packets
<1>4. ASSUME Distinct(q) PROVE Distinct(Tail(q))
  BY <1>2, <1>4 DEF Distinct
<1>5. ASSUME Distinct(q) PROVE Packets(Tail(q)) = Packets(q) \ {Head(q).tr}
  <2>1. Packets(Tail(q)) \subseteq Packets(q) \ {Head(q).tr}
    BY <1>1, <1>2, <1>5 DEF Distinct, Packets
  <2>2. Packets(q) \ {Head(q).tr} \subseteq Packets(Tail(q))
    <3> SUFFICES ASSUME NEW i \in DOMAIN q, q[i].tr # Head(q).tr
                 PROVE  q[i].tr \in Packets(Tail(q))
      BY DEF Packets
    <3>1. i - 1 \in DOMAIN Tail(q) /\ Tail(q)[i - 1] = q[i]
      BY <1>1, <1>2
    <3> QED
      BY <3>1, Zenon DEF Packets
  <2> QED
    BY <2>1, <2>2
<1>6. ASSUME Tracked(q) PROVE Tracked(Tail(q)) /\ local_addr[Head(q).tr] = Head(q).addr
  BY <1>1, <1>2, <1>6 DEF Tracked
<1> QED
  BY <1>3, <1>4, <1>5, <1>6

\* The owners before the step, named once for the proofs of the actions.
LEMMA OwnersDef ==
  Owners <=>
    /\ Distinct(cmdq) /\ Distinct(replyq)
    /\ Tracked(cmdq) /\ Tracked(replyq)
    /\ Packets(cmdq) \cap Packets(replyq) = {}
    /\ CallSlot \cap (Packets(cmdq) \cup Packets(replyq)) = {}
    /\ leaked \cap (Packets(cmdq) \cup Packets(replyq) \cup CallSlot) = {}
    /\ InUse = Packets(cmdq) \cup Packets(replyq) \cup CallSlot \cup leaked
    /\ \A s \in CallSlot : local_addr[s] = arg
BY DEF Owners, InFlight

\* A queue keeps its properties when no entry of a packet in it changes.
LEMMA SameQueue ==
  ASSUME NEW q, Tracked(q), \A t \in Packets(q) : local_addr'[t] = local_addr[t]
  PROVE  \A i \in DOMAIN q : local_addr'[q[i].tr] = q[i].addr
BY DEF Tracked, Packets

\* A grabbed slot was owned by nobody and gets one owner.
LEMMA GrabOwner ==
  ASSUME LogType, CallType, Owners, NEW s \in Slot, NEW a \in Addr, GrabSlot(s, a),
         slot = Null, UNCHANGED link,
         \/ leaked' = leaked \cup {s} /\ slot' = Null
         \/ leaked' = leaked /\ slot' = s /\ arg' = a
  PROVE  Owners'
<1>1. s \notin InUse /\ InUse' = InUse \cup {s}
  BY GrabInUse
<1>2. /\ s \notin Packets(cmdq) \cup Packets(replyq) \cup leaked
      /\ CallSlot = {} /\ s # Null
  BY <1>1, OwnersDef, AddrAssumption DEF CallSlot
<1>3. \A t \in Slot : t # s => local_addr'[t] = local_addr[t]
  BY DEF GrabSlot, LogType
<1>4. /\ Packets(cmdq)' = Packets(cmdq) /\ Packets(replyq)' = Packets(replyq)
      /\ Distinct(cmdq)' /\ Distinct(replyq)'
  BY OwnersDef DEF link, Packets, Distinct
<1>5. Packets(cmdq) \subseteq Slot /\ Packets(replyq) \subseteq Slot
  BY OwnersDef DEF InUse
<1>6. Tracked(cmdq)' /\ Tracked(replyq)'
  <2>1. /\ \A t \in Packets(cmdq) : local_addr'[t] = local_addr[t]
        /\ \A t \in Packets(replyq) : local_addr'[t] = local_addr[t]
    BY <1>2, <1>3, <1>5
  <2> QED
    BY <2>1, SameQueue, OwnersDef DEF link, Tracked
<1>7. local_addr'[s] = a
  BY DEF GrabSlot, LogType
<1>8. CallSlot' = IF slot' = Null THEN {} ELSE {slot'}
  BY DEF CallSlot
<1>9. CASE leaked' = leaked \cup {s} /\ slot' = Null
  BY <1>1, <1>2, <1>4, <1>6, <1>8, <1>9, OwnersDef DEF Owners, InFlight
<1>10. CASE leaked' = leaked /\ slot' = s /\ arg' = a
  BY <1>1, <1>2, <1>4, <1>6, <1>7, <1>8, <1>10, OwnersDef DEF Owners, InFlight
<1> QED
  BY <1>9, <1>10

\* The slot of a response that is taken off the link is owned by nobody.
LEMMA ReleaseOwner ==
  ASSUME LogType, Owners, replyq \in Seq(Reply), replyq # <<>>,
         ReleaseSlot(Head(replyq).tr), replyq' = Tail(replyq),
         UNCHANGED <<cmdq, leaked, slot, arg>>
  PROVE  Owners'
<1> DEFINE t == Head(replyq).tr
<1>1. t \in Packets(replyq) /\ t \in Slot
  <2>1. t \in Packets(replyq)
    BY TailItem
  <2>2. Head(replyq) \in Reply
    BY QueueHead
  <2> QED
    BY <2>1, <2>2 DEF Reply
<1>2. InUse' = InUse \ {t}
  BY <1>1, ReleaseInUse
<1>3. local_addr' = local_addr
  BY DEF ReleaseSlot
<1>4. Packets(replyq)' = Packets(replyq) \ {t} /\ Distinct(replyq)' /\ Tracked(replyq)'
  <2>1. /\ Packets(Tail(replyq)) = Packets(replyq) \ {t}
        /\ Distinct(Tail(replyq)) /\ Tracked(Tail(replyq))
    BY TailItem, OwnersDef
  <2> QED
    BY <1>3, <2>1 DEF Packets, Distinct, Tracked
<1>5. /\ Packets(cmdq)' = Packets(cmdq) /\ Distinct(cmdq)' /\ Tracked(cmdq)'
      /\ CallSlot' = CallSlot
  BY <1>3, OwnersDef DEF Packets, Distinct, Tracked, CallSlot
<1> QED
  BY <1>1, <1>2, <1>3, <1>4, <1>5, OwnersDef DEF Owners, InFlight

\* A step that changes neither log, call, link nor the lost ones keeps every owner.
LEMMA SameOwner ==
  ASSUME Owners, UNCHANGED <<log, link, slot, arg, leaked>>
  PROVE  Owners'
BY DEF Owners, InFlight, InUse, Packets, Distinct, Tracked, CallSlot, log, link

\* Every step that does not bring a packet a foreign identifier keeps one owner for
\* each slot in use.
LEMMA NextOwners == TypeOK /\ Owners /\ [Next]_vars /\ ~ misled' => Owners'
<1> SUFFICES ASSUME TypeOK, Owners, [Next]_vars, ~ misled' PROVE Owners'
  OBVIOUS
<1>1. /\ LogType /\ CallType /\ replyq \in Seq(Reply) /\ cmdq \in Seq(Cmd)
      /\ leaked \subseteq Slot
  BY DEF TypeOK, LinkType, MemType
<1>2. ASSUME NEW a \in Addr, NEW read \in BOOLEAN, Sync(a, read) PROVE Owners'
  <2>1. slot = Null /\ UNCHANGED link
    BY <1>1, <1>2 DEF Sync, CallType, link
  <2>2. PICK s \in Slot : /\ GrabSlot(s, a)
                          /\ \/ leaked' = leaked \cup {s} /\ slot' = Null
                             \/ leaked' = leaked /\ slot' = s /\ arg' = a
    BY <1>2 DEF Sync, NoCommand, Return, ProcessRxThen
  <2> QED
    BY <1>1, <2>1, <2>2, GrabOwner
<1>3. CASE Grab
  <2>1. slot = Null /\ UNCHANGED link /\ arg \in Addr
    BY <1>1, <1>3 DEF Grab, CallType, link
  <2>2. CASE LogFull /\ Return /\ UNCHANGED <<log, leaked>>
    BY <2>1, <2>2, AddrAssumption
    DEF Return, Owners, InFlight, InUse, Packets, Distinct, Tracked, CallSlot, log, link
  <2>3. CASE \E s \in Slot : /\ GrabSlot(s, arg)
                             /\ \/ leaked' = leaked \cup {s} /\ slot' = Null
                                \/ leaked' = leaked /\ slot' = s /\ arg' = arg
    BY <1>1, <2>1, <2>3, GrabOwner
  <2> QED
    BY <1>3, <2>2, <2>3 DEF Grab, NoCommand, Return, ProcessRxThen
<1>4. CASE ResetLog
  <2>1. cmdq' = <<>> /\ replyq' = <<>>
    BY <1>4 DEF ResetLog
  <2>2. CallSlot' = {} /\ InUse' = {} /\ leaked' = {}
    BY <1>1, <1>4 DEF ResetLog, CallType, CallSlot, InUse, call
  <2> QED
    BY <2>1, <2>2 DEF Owners, InFlight, Packets, Distinct, Tracked
<1>5. CASE Tx
  <2> DEFINE e == [tr |-> slot, read |-> reading, addr |-> arg, data |-> Payload]
  <2>1. /\ slot \in Slot /\ arg \in Addr /\ CallSlot = {slot} /\ CallSlot' = {}
        /\ e.tr = slot /\ e.addr = arg /\ local_addr[slot] = arg
        /\ InUse' = InUse /\ local_addr' = local_addr
    BY <1>1, <1>5, AddrAssumption, OwnersDef DEF Tx, Return, CallType, CallSlot, InUse, log
  <2>2. /\ Packets(replyq)' = Packets(replyq) /\ Distinct(replyq)' /\ Tracked(replyq)'
    BY <1>5, <2>1, OwnersDef DEF Tx, Packets, Distinct, Tracked
  <2>3. CASE cmdq' = Append(cmdq, e) /\ UNCHANGED leaked
    <3>1. e \in Cmd
      BY <1>5, <1>1 DEF Payload, Cmd, CallType, Tx, TypeOK, MemType
    <3> HIDE DEF e
    <3>2. cmdq \in Seq(Cmd) /\ Distinct(cmdq) /\ Tracked(cmdq) /\ slot \notin Packets(cmdq)
      BY <1>1, <2>1, OwnersDef DEF TypeOK, LinkType
    <3>3. /\ Packets(Append(cmdq, e)) = Packets(cmdq) \cup {slot}
          /\ Distinct(Append(cmdq, e)) /\ Tracked(Append(cmdq, e))
      BY <2>1, <3>1, <3>2, AppendItem
    <3>4. /\ Packets(cmdq)' = Packets(cmdq) \cup {slot}
          /\ Distinct(cmdq)' /\ Tracked(cmdq)'
      BY <2>1, <2>3, <3>3 DEF Packets, Distinct, Tracked
    <3> QED
      BY <1>1, <2>1, <2>2, <2>3, <3>4, OwnersDef DEF Owners, InFlight
  <2>4. CASE leaked' = leaked \cup {slot} /\ UNCHANGED cmdq
    <3>1. Packets(cmdq)' = Packets(cmdq) /\ Distinct(cmdq)' /\ Tracked(cmdq)'
      BY <2>1, <2>4, OwnersDef DEF Packets, Distinct, Tracked
    <3> QED
      BY <2>1, <2>2, <2>4, <3>1, OwnersDef DEF Owners, InFlight
  <2> QED
    BY <1>5, <2>3, <2>4 DEF Tx
<1>6. CASE RxBadLength \/ RxNoData \/ \E w \in Word, crc \in Checksum : RxData(w, crc)
  BY <1>1, <1>6, ReleaseOwner DEF RxBadLength, RxNoData, RxData, Receive, LeaveRx, call
<1>7. CASE RxGarbled \/ RxUnknown \/ LoseReply
  <2> DEFINE t == Head(replyq).tr
  <2>1. replyq # <<>> /\ replyq' = Tail(replyq) /\ UNCHANGED <<log, cmdq, slot, arg>>
    BY <1>7 DEF RxGarbled, RxUnknown, LoseReply, Receive, call
  <2>2. t \in Packets(replyq) /\ t \in InUse /\ in_use[t]
    BY <1>1, <2>1, TailItem, OwnersDef DEF InUse
  <2>3. leaked' = leaked \cup {t}
    BY <1>7, <2>2 DEF RxGarbled, RxUnknown, LoseReply, Receive, Abandon
  <2>4. /\ Packets(Tail(replyq)) = Packets(replyq) \ {t}
        /\ Distinct(Tail(replyq)) /\ Tracked(Tail(replyq))
    BY <1>1, <2>1, TailItem, OwnersDef
  <2>5. /\ Packets(replyq)' = Packets(replyq) \ {t} /\ Distinct(replyq)' /\ Tracked(replyq)'
        /\ Packets(cmdq)' = Packets(cmdq) /\ Distinct(cmdq)' /\ Tracked(cmdq)'
        /\ CallSlot' = CallSlot /\ InUse' = InUse /\ local_addr' = local_addr
    BY <2>1, <2>4, OwnersDef DEF Packets, Distinct, Tracked, CallSlot, InUse, log
  <2> QED
    BY <2>1, <2>2, <2>3, <2>5, OwnersDef DEF Owners, InFlight
<1>8. CASE RdcuExecute \/ RdcuReject
  <2> DEFINE t == Head(cmdq).tr
  <2>1. PICK e \in Reply : /\ e.tr = t /\ e.addr = Head(cmdq).addr
                           /\ replyq' = Append(replyq, e)
    <3>1. cmdq # <<>>
      BY <1>8 DEF RdcuExecute, RdcuReject
    <3>2. Head(cmdq) \in Cmd
      BY <1>1, <3>1, QueueHead
    <3>3. /\ Executed(Head(cmdq)) \in Reply
          /\ [Executed(Head(cmdq)) EXCEPT !.data = Null] \in Reply
          /\ Executed(Head(cmdq)).tr = t
          /\ Executed(Head(cmdq)).addr = Head(cmdq).addr
          /\ [Executed(Head(cmdq)) EXCEPT !.data = Null].tr = t
          /\ [Executed(Head(cmdq)) EXCEPT !.data = Null].addr = Head(cmdq).addr
      BY <3>2 DEF Executed, Cmd, Reply, TypeOK, MemType
    <3> QED
      BY <1>8, <3>3 DEF RdcuExecute, RdcuReject
  <2>2. /\ cmdq # <<>> /\ cmdq' = Tail(cmdq) /\ UNCHANGED <<log, leaked, slot, arg>>
    BY <1>8 DEF RdcuExecute, RdcuReject, call
  <2>3. t \in Packets(cmdq) /\ t \notin Packets(replyq) /\ local_addr[t] = Head(cmdq).addr
    BY <1>1, <2>2, TailItem, OwnersDef
  <2>4. /\ Packets(Tail(cmdq)) = Packets(cmdq) \ {t}
        /\ Distinct(Tail(cmdq)) /\ Tracked(Tail(cmdq))
    BY <1>1, <2>2, TailItem, OwnersDef
  <2>5. /\ Packets(cmdq)' = Packets(cmdq) \ {t} /\ Distinct(cmdq)' /\ Tracked(cmdq)'
        /\ CallSlot' = CallSlot /\ InUse' = InUse /\ local_addr' = local_addr
    <3>1. local_addr' = local_addr /\ InUse' = InUse /\ CallSlot' = CallSlot
      BY <2>2 DEF InUse, CallSlot, log
    <3>2. Packets(cmdq)' = Packets(Tail(cmdq)) /\ Distinct(cmdq)'
      BY <2>2, <2>4 DEF Packets, Distinct
    <3>3. Tracked(cmdq)'
      BY <2>2, <2>4, <3>1 DEF Tracked
    <3> QED
      BY <2>4, <3>1, <3>2, <3>3
  <2>6. Packets(replyq)' = Packets(replyq) \cup {t} /\ Distinct(replyq)' /\ Tracked(replyq)'
    <3>1. replyq \in Seq(Reply) /\ Distinct(replyq) /\ Tracked(replyq)
      BY <1>1, OwnersDef DEF TypeOK, LinkType
    <3>2. /\ Packets(Append(replyq, e)) = Packets(replyq) \cup {t}
          /\ Distinct(Append(replyq, e)) /\ Tracked(Append(replyq, e))
      BY <2>1, <2>3, <3>1, AppendItem
    <3> QED
      BY <2>1, <2>5, <3>2 DEF Packets, Distinct, Tracked
  <2> QED
    BY <2>2, <2>3, <2>5, <2>6, OwnersDef DEF Owners, InFlight
<1>9. CASE LoseCommand
  <2> DEFINE t == Head(cmdq).tr
  <2>1. cmdq # <<>> /\ cmdq' = Tail(cmdq) /\ UNCHANGED <<log, replyq, slot, arg>>
    BY <1>9 DEF LoseCommand, call
  <2>2. t \in Packets(cmdq) /\ t \in InUse /\ in_use[t]
    BY <1>1, <2>1, TailItem, OwnersDef DEF InUse
  <2>3. leaked' = leaked \cup {t}
    BY <1>9, <2>2 DEF LoseCommand, Abandon
  <2>4. /\ Packets(Tail(cmdq)) = Packets(cmdq) \ {t}
        /\ Distinct(Tail(cmdq)) /\ Tracked(Tail(cmdq))
    BY <1>1, <2>1, TailItem, OwnersDef
  <2>5. /\ Packets(cmdq)' = Packets(cmdq) \ {t} /\ Distinct(cmdq)' /\ Tracked(cmdq)'
        /\ Packets(replyq)' = Packets(replyq) /\ Distinct(replyq)' /\ Tracked(replyq)'
        /\ CallSlot' = CallSlot /\ InUse' = InUse /\ local_addr' = local_addr
    <3>1. local_addr' = local_addr /\ InUse' = InUse /\ CallSlot' = CallSlot
      BY <2>1 DEF InUse, CallSlot, log
    <3>2. Packets(cmdq)' = Packets(Tail(cmdq)) /\ Distinct(cmdq)'
      BY <2>1, <2>4 DEF Packets, Distinct
    <3>3. Packets(replyq)' = Packets(replyq) /\ Distinct(replyq)'
      BY <2>1, OwnersDef DEF Packets, Distinct
    <3>4. Tracked(cmdq)' /\ Tracked(replyq)'
      BY <2>1, <2>4, <3>1, OwnersDef DEF Tracked
    <3> QED
      BY <2>4, <3>1, <3>2, <3>3, <3>4
  <2> QED
    BY <2>1, <2>2, <2>3, <2>5, OwnersDef DEF Owners, InFlight
<1>10. CASE \/ \E a \in Sram, read \in BOOLEAN : SyncData(a, read)
            \/ SyncStatus
  <2>1. CallSlot = {} /\ CallSlot' = {} /\ UNCHANGED <<log, link, leaked>>
    BY <1>1, <1>10 DEF SyncData, SyncStatus, ProcessRxThen, CallType, CallSlot
  <2> QED
    BY <2>1 DEF Owners, InFlight, InUse, Packets, Distinct, Tracked, log, link
<1>11. CASE \/ \E a \in Writable, w \in Word : WriteMirror(a, w)
            \/ RxEmpty \/ RxNoMemory
            \/ \E a \in Readable, w \in Word : RdcuUpdate(a, w)
            \/ UNCHANGED vars
  <2>1. UNCHANGED <<log, link, slot, arg, leaked>>
    BY <1>11 DEF WriteMirror, RxEmpty, RxNoMemory, LeaveRx, RdcuUpdate, vars, call
  <2> QED
    BY <2>1, SameOwner
<1>12. CASE DamageHeader
  <2>1. PICK t \in Slot, d \in {Head(replyq).data, Null} :
          /\ replyq' = [replyq EXCEPT ![1].tr = t, ![1].data = d]
          /\ IF t = Head(replyq).tr THEN UNCHANGED <<leaked, misled>>
             ELSE Abandon(Head(replyq).tr) /\ misled' = TRUE
    BY <1>12 DEF DamageHeader
  <2>2. /\ replyq \in Seq(Reply) /\ replyq # <<>>
        /\ UNCHANGED <<log, call, cmdq>>
    BY <1>1, <1>12 DEF DamageHeader
  <2>3. t = replyq[1].tr /\ UNCHANGED leaked
    <3>1. t = Head(replyq).tr /\ UNCHANGED leaked
      BY <2>1
    <3> QED
      BY <2>2, <3>1, Shortened
  <2>4. replyq' = [replyq EXCEPT ![1] = [[replyq[1] EXCEPT !.tr = t] EXCEPT !.data = d]]
    BY <2>1
  <2>5. /\ DOMAIN replyq' = DOMAIN replyq
        /\ \A i \in DOMAIN replyq : /\ replyq'[i].tr = replyq[i].tr
                                    /\ replyq'[i].addr = replyq[i].addr
    <3>1. \A i \in DOMAIN replyq : replyq[i] \in Reply
      BY <2>2, ElementOfSeq, LenProperties
    <3>2. ASSUME NEW i \in DOMAIN replyq
          PROVE  replyq'[i].tr = replyq[i].tr /\ replyq'[i].addr = replyq[i].addr
      <4>1. CASE i # 1
        BY <2>4, <4>1
      <4>2. CASE i = 1
        <5>1. replyq'[1] = [[replyq[1] EXCEPT !.tr = t] EXCEPT !.data = d]
          BY <2>4, <4>2
        <5> QED
          BY <2>3, <3>1, <4>2, <5>1 DEF Reply
      <4> QED
        BY <4>1, <4>2
    <3> QED
      BY <2>4, <3>2
  <2>6. /\ Packets(replyq)' = Packets(replyq) /\ Packets(cmdq)' = Packets(cmdq)
        /\ CallSlot' = CallSlot /\ InUse' = InUse
        /\ local_addr' = local_addr /\ arg' = arg
    BY <2>2, <2>5 DEF Packets, CallSlot, InUse, log, call
  <2>7. Distinct(replyq)' /\ Tracked(replyq)' /\ Distinct(cmdq)' /\ Tracked(cmdq)'
    BY <2>2, <2>5, <2>6, OwnersDef DEF Distinct, Tracked
  <2> QED
    BY <2>3, <2>6, <2>7, OwnersDef DEF Owners, InFlight
<1> QED
  BY <1>2, <1>3, <1>4, <1>5, <1>6, <1>7, <1>8, <1>9, <1>10, <1>11, <1>12
  DEF Next, Library, Rx, Caller, Rdcu, Addr

\* A packet that had a foreign identifier once had it.
LEMMA StillMisled == misled /\ [Next]_vars => misled'
BY DEF Next, Library, Rx, Caller, Rdcu, WriteMirror, Sync, SyncData, Grab, SyncStatus,
       ResetLog, Tx, RxEmpty, RxNoMemory, Receive, RxGarbled, RxUnknown, RxBadLength,
       RxNoData, RxData, RdcuExecute, RdcuReject, RdcuUpdate, LoseCommand, LoseReply,
       DamageHeader, vars, link

\* Nothing is owned at the start.
LEMMA InitOwners == Init => Owners /\ ~ misled
<1> SUFFICES ASSUME Init PROVE Owners
  BY DEF Init
<1>1. in_use = [s \in Slot |-> FALSE] /\ cmdq = <<>> /\ replyq = <<>> /\ leaked = {} /\ slot = Null
  BY DEF Init
<1>2. InUse = {} /\ CallSlot = {}
  BY <1>1 DEF InUse, CallSlot
<1> QED
  BY <1>1, <1>2 DEF Owners, InFlight, Packets, Distinct, Tracked

\* Until a packet comes with an identifier that is not its own, a transaction
\* identifier is never given to two transactions, whatever faults occur, whenever
\* the log is reset.
THEOREM OwnerCorrect == Spec => []OneOwner
<1>1. Init => OneOwner
  BY InitOwners DEF OneOwner
<1>2. TypeOK /\ OneOwner /\ [Next]_vars => OneOwner'
  BY NextOwners, StillMisled, Zenon DEF OneOwner
<1> QED
  BY <1>1, <1>2, TypeCorrect, PTL DEF Spec

\* No packet comes with a foreign identifier.
Named == ~ misled

\* When no header is damaged and the log is reset only while no packet is on the link,
\* every packet comes with its own identifier.
LEMMA NamedCorrect ==
  ASSUME ResetBacklog = 0, "damaged_header" \notin Faults
  PROVE  Spec => [](Named /\ Owners)
<1>1. TypeOK /\ Named /\ [Next]_vars => Named'
  <2> SUFFICES ASSUME TypeOK, ~ misled, [Next]_vars PROVE ~ misled'
    BY DEF Named
  <2>1. CASE ResetLog
    <3>1. cmdq \in Seq(Cmd) /\ replyq \in Seq(Reply)
      BY DEF TypeOK, LinkType
    <3>2. Len(cmdq) = 0 /\ Len(replyq) = 0
      BY <2>1, <3>1, LenProperties DEF ResetLog
    <3>3. cmdq = <<>> /\ replyq = <<>>
      BY <3>1, <3>2, EmptySeq
    <3> QED
      BY <2>1, <3>3 DEF ResetLog
  <2>2. ~ DamageHeader
    BY DEF DamageHeader
  <2>3. ASSUME ~ ResetLog PROVE UNCHANGED misled
    BY <2>2, <2>3
    DEF Next, Library, Rx, Caller, Rdcu, WriteMirror, Sync, SyncData, Grab, SyncStatus,
        Tx, RxEmpty, RxNoMemory, Receive, RxGarbled, RxUnknown, RxBadLength, RxNoData,
        RxData, RdcuExecute, RdcuReject, RdcuUpdate, LoseCommand, LoseReply, vars, link
  <2> QED
    BY <2>1, <2>3
<1>2. Init => Named
  BY InitOwners DEF Named
<1>3. OneOwner /\ Named => Owners
  BY DEF OneOwner, Named
<1> QED
  BY <1>1, <1>2, <1>3, TypeCorrect, OwnerCorrect, PTL DEF Spec

-----------------------------------------------------------------------------
(* Delivery *)

\* A response is stored only at the address its command named, and as contents the
\* RDCU had there or others with the checksum of those: no other transaction, no
\* failing call and no fault of the link puts data at a wrong place in the mirror
\* or lets them in under a wrong checksum.  Left out is a payload damaged together
\* with its checksum; excepted is what follows a packet with a foreign identifier.
THEOREM DeliveryCorrect ==
  ASSUME "corrupt_both" \notin Faults
  PROVE  Spec => RxDelivers
<1> DEFINE Step == \/ \E a \in Writable, w \in Word : WriteMirror(a, w)
                   \/ mirror' = mirror \/ misled
                   \/ replyq # <<>> /\ Delivers(Head(replyq))
<1>1. TypeOK /\ OneOwner /\ [Next]_vars => [Step]_vars
  <2> SUFFICES ASSUME TypeOK, OneOwner, Next PROVE Step
    BY DEF vars
  <2>1. ASSUME NEW w \in Word, NEW crc \in Checksum, RxData(w, crc) PROVE Step
    <3> DEFINE rp == Head(replyq)
    <3> SUFFICES ASSUME ~ misled PROVE Step
      OBVIOUS
    <3>1. replyq # <<>> /\ replyq \in Seq(Reply) /\ Tracked(replyq)
      BY <2>1 DEF RxData, Receive, TypeOK, LinkType, OneOwner, Owners
    <3>2. local_addr[rp.tr] = rp.addr
      BY <3>1, TailItem
    <3>3. CASE CrcMatches(w, crc)
      <4>1. mirror' = [mirror EXCEPT ![rp.addr] = ToHost(w)]
        BY <2>1, <3>2, <3>3 DEF RxData, Copied
      <4>2. w = rp.data \/ crc = Crc8[rp.data]
        BY <2>1 DEF RxData, Arriving
      <4>3. ToHost(w) \in Word
        BY SwapType
      <4>4. ToHost(w) = ToHost(rp.data) \/ Crc8[ToHost(w)] = Crc8[rp.data]
        BY <3>3, <4>2 DEF CrcMatches
      <4> HIDE DEF rp
      <4>5. Delivers(rp)
        BY <4>1, <4>3, <4>4 DEF Delivers
      <4> QED
        BY <3>1, <4>5 DEF rp
    <3>4. CASE ~ CrcMatches(w, crc)
      BY <2>1, <3>4 DEF RxData
    <3> QED
      BY <3>3, <3>4
  <2>2. CASE \/ \E a \in Addr, read \in BOOLEAN : Sync(a, read)
             \/ \E a \in Sram, read \in BOOLEAN : SyncData(a, read)
             \/ Grab \/ SyncStatus \/ ResetLog \/ Tx \/ RxEmpty \/ RxNoMemory \/ RxGarbled
             \/ RxUnknown \/ RxBadLength \/ RxNoData
             \/ RdcuExecute \/ RdcuReject \/ LoseCommand \/ LoseReply \/ DamageHeader
             \/ \E a \in Readable, w \in Word : RdcuUpdate(a, w)
    BY <2>2 DEF Sync, SyncData, Grab, SyncStatus, ResetLog, Tx, RxEmpty, RxNoMemory,
                RxGarbled, RxUnknown, RxBadLength, RxNoData, RdcuExecute, RdcuReject,
                LoseCommand, LoseReply, DamageHeader, RdcuUpdate
  <2> QED
    BY <2>1, <2>2 DEF Next, Library, Rx, Caller, Rdcu, Addr
<1>2. Spec => []OneOwner
  BY OwnerCorrect
<1>3. Spec => [][Step]_vars
  BY <1>1, <1>2, TypeCorrect, PTL DEF Spec
<1> QED
  BY <1>3 DEF RxDelivers

-----------------------------------------------------------------------------
(* Pending transactions *)

\* Without a fault that leaves a slot in use for ever none is left in use.
NoneLeaked == leaked = {}

\* No step leaks a slot.
LEMMA NextNoneLeaked ==
  ASSUME Faults \subseteq {"rejected", "bad_length", "corrupt", "corrupt_both", "no_memory"}
  PROVE  NoneLeaked /\ [Next]_vars => NoneLeaked'
<1> SUFFICES ASSUME NoneLeaked, [Next]_vars PROVE NoneLeaked'
  OBVIOUS
<1>1. {"no_command", "tx_error", "garbled", "lost_command", "lost_reply", "damaged_header"}
        \cap Faults = {}
  OBVIOUS
<1>2. ASSUME NEW a \in Addr, NEW read \in BOOLEAN, Sync(a, read) PROVE NoneLeaked'
  BY <1>1, <1>2 DEF Sync, NoCommand, NoneLeaked
<1>3. CASE Grab
  BY <1>1, <1>3 DEF Grab, NoCommand, NoneLeaked
<1>4. CASE Tx
  BY <1>1, <1>4 DEF Tx, NoneLeaked
<1>5. CASE RxGarbled \/ LoseCommand \/ LoseReply \/ DamageHeader
  BY <1>1, <1>5 DEF RxGarbled, LoseCommand, LoseReply, DamageHeader
<1>6. CASE \/ \E a \in Writable, w \in Word : WriteMirror(a, w)
           \/ \E a \in Sram, read \in BOOLEAN : SyncData(a, read)
           \/ SyncStatus \/ ResetLog \/ RxEmpty \/ RxNoMemory \/ RxUnknown \/ RxBadLength
           \/ RxNoData \/ \E w \in Word, crc \in Checksum : RxData(w, crc)
           \/ RdcuExecute \/ RdcuReject
           \/ \E a \in Readable, w \in Word : RdcuUpdate(a, w)
           \/ UNCHANGED vars
  BY <1>6 DEF WriteMirror, SyncData, SyncStatus, ResetLog, RxEmpty, RxNoMemory, RxUnknown,
              RxBadLength, RxNoData, RxData, RdcuExecute, RdcuReject, RdcuUpdate,
              NoneLeaked, vars
<1> QED
  BY <1>2, <1>3, <1>4, <1>5, <1>6 DEF Next, Library, Rx, Caller, Rdcu, Addr

\* A caller that is told to wait waits for a packet on the link or the running
\* call: whatever the RDCU rejects, the link corrupts, or the library drops or
\* leaves with the driver.  The six faults left out each leave a slot in use.
THEOREM StatusCorrect ==
  ASSUME ResetBacklog = 0,
         Faults \subseteq {"rejected", "bad_length", "corrupt", "corrupt_both", "no_memory"}
  PROVE  Spec => []StatusMeansPending
<1>1. Init => NoneLeaked
  BY DEF Init, NoneLeaked
<1>2. PendingCount /\ Owners /\ NoneLeaked => StatusMeansPending
  <2> SUFFICES ASSUME PendingCount, Owners, NoneLeaked, pending > 0 PROVE InFlight # {}
    BY DEF StatusMeansPending
  <2>1. InUse # {}
    BY FS_EmptySet DEF PendingCount
  <2> QED
    BY <2>1 DEF Owners, NoneLeaked
<1>3. Spec => [](Named /\ Owners)
  BY NamedCorrect
<1> QED
  BY <1>1, <1>2, <1>3, NextNoneLeaked, PendingCorrect, PTL DEF Spec

-----------------------------------------------------------------------------
(* Packets of one kind in a queue.  D is the set of packets of the kind.      *)

Of(q, D) == {i \in DOMAIN q : q[i] \in D}
Newest(q, D, i) == i \in Of(q, D) /\ \A j \in Of(q, D) : j <= i

\* The newest packet of a kind, if there is one, carries a word of V.
NewestIn(q, D, V) == \A i \in DOMAIN q : Newest(q, D, i) => q[i].data \in V

\* Every packet of the kind D is in front of every one of the kind E.
Before(q, D, E) == \A i \in Of(q, D), j \in Of(q, E) : i < j

\* A packet of another kind does not matter; one of the kind is its newest.
LEMMA AppendOf ==
  ASSUME NEW S, NEW q \in Seq(S), NEW e \in S, NEW D
  PROVE  /\ Of(Append(q, e), D) = Of(q, D) \cup (IF e \in D THEN {Len(q) + 1} ELSE {})
         /\ \A V : (IF e \in D THEN e.data \in V ELSE NewestIn(q, D, V))
                     => NewestIn(Append(q, e), D, V)
<1> DEFINE r == Append(q, e)
<1>1. /\ DOMAIN q = 1 .. Len(q) /\ Len(q) \in Nat
      /\ DOMAIN r = 1 .. Len(q) + 1
      /\ \A i \in 1 .. Len(q) : r[i] = q[i]
      /\ r[Len(q) + 1] = e
  BY Appended
<1> HIDE DEF r
<1>2. Of(r, D) = Of(q, D) \cup (IF e \in D THEN {Len(q) + 1} ELSE {})
  BY <1>1 DEF Of
<1>3. ASSUME NEW V, IF e \in D THEN e.data \in V ELSE NewestIn(q, D, V),
             NEW i \in DOMAIN r, Newest(r, D, i)
      PROVE  r[i].data \in V
  <2>1. CASE e \in D
    <3>1. Len(q) + 1 \in Of(r, D)
      BY <1>2, <2>1
    <3>2. i = Len(q) + 1
      BY <1>1, <1>3, <3>1 DEF Newest
    <3> QED
      BY <1>1, <1>3, <2>1, <3>2
  <2>2. CASE e \notin D
    <3>1. Newest(q, D, i) /\ i \in 1 .. Len(q)
      BY <1>1, <1>2, <1>3, <2>2 DEF Newest, Of
    <3> QED
      BY <1>1, <1>3, <2>2, <3>1 DEF NewestIn
  <2> QED
    BY <2>1, <2>2
<1> QED
  BY <1>2, <1>3 DEF NewestIn, r

\* ... in particular, one of another kind adds nothing to the kind.
LEMMA AppendOther ==
  ASSUME NEW S, NEW q \in Seq(S), NEW e \in S, NEW D, e \notin D
  PROVE  Of(Append(q, e), D) = Of(q, D)
<1>1. Of(Append(q, e), D) = Of(q, D) \cup {}
  BY AppendOf
<1> QED
  BY <1>1

\* What the oldest packet leaves behind; when it is the last one of its kind it is
\* the newest as well.
LEMMA TailOf ==
  ASSUME NEW S, NEW q \in Seq(S), q # <<>>, NEW D
  PROVE  /\ Of(q, D) = {} => Of(Tail(q), D) = {}
         /\ Head(q) \notin D => (Of(Tail(q), D) = {} => Of(q, D) = {})
         /\ Head(q) \in D => Of(q, D) # {}
         /\ \A V : NewestIn(q, D, V) =>
              /\ NewestIn(Tail(q), D, V)
              /\ Head(q) \in D /\ Of(Tail(q), D) = {} => Head(q).data \in V
<1> DEFINE r == Tail(q)
<1>1. /\ DOMAIN q = 1 .. Len(q) /\ Len(q) \in Nat /\ Len(q) # 0
      /\ Head(q) = q[1]
      /\ DOMAIN r = 1 .. Len(q) - 1
      /\ \A i \in 1 .. Len(q) - 1 : r[i] = q[i + 1]
  BY Shortened
<1> HIDE DEF r
<1>2. /\ \A i \in Of(r, D) : i + 1 \in Of(q, D) /\ i \in 1 .. Len(q) - 1
      /\ \A i \in Of(q, D) : i = 1 \/ i - 1 \in Of(r, D)
      /\ Of(q, D) \subseteq 1 .. Len(q)
      /\ 1 \in Of(q, D) <=> Head(q) \in D
  BY <1>1 DEF Of
<1>3. ASSUME NEW V, NewestIn(q, D, V) PROVE NewestIn(r, D, V)
  <2> SUFFICES ASSUME NEW i \in DOMAIN r, Newest(r, D, i) PROVE r[i].data \in V
    BY DEF NewestIn
  <2>1. i + 1 \in Of(q, D) /\ i \in 1 .. Len(q) - 1
    BY <1>2 DEF Newest
  <2>2. ASSUME NEW j \in Of(q, D) PROVE j <= i + 1
    <3>1. j = 1 \/ j - 1 \in Of(r, D)
      BY <1>2
    <3>2. j \in 1 .. Len(q) /\ i \in 1 .. Len(q) - 1
      BY <1>2, <2>1
    <3>3. j - 1 \in Of(r, D) => j - 1 <= i
      BY DEF Newest
    <3> QED
      BY <1>1, <3>1, <3>2, <3>3
  <2>3. Newest(q, D, i + 1) /\ i + 1 \in DOMAIN q
    BY <2>1, <2>2 DEF Newest, Of
  <2> QED
    BY <1>1, <1>3, <2>1, <2>3 DEF NewestIn
<1>4. ASSUME NEW V, NewestIn(q, D, V), Head(q) \in D, Of(r, D) = {}
      PROVE  Head(q).data \in V
  <2>1. Newest(q, D, 1) /\ 1 \in DOMAIN q
    <3>1. 1 \in Of(q, D)
      BY <1>2, <1>4
    <3>2. \A j \in Of(q, D) : j = 1
      BY <1>2, <1>4
    <3> QED
      BY <3>1, <3>2 DEF Newest, Of
  <2> QED
    BY <1>1, <1>4, <2>1 DEF NewestIn
<1>5. /\ Of(q, D) = {} => Of(r, D) = {}
      /\ Head(q) \notin D => (Of(r, D) = {} => Of(q, D) = {})
      /\ Head(q) \in D => Of(q, D) # {}
  <2>1. Of(q, D) = {} => Of(r, D) = {}
    BY <1>2
  <2>2. ASSUME Head(q) \notin D, Of(r, D) = {} PROVE Of(q, D) = {}
    BY <1>2, <2>2
  <2> QED
    BY <1>2, <2>1, <2>2
<1> QED
  BY <1>3, <1>4, <1>5 DEF r

\* Two kinds stay in order when packets come at the end and leave in front.
LEMMA AppendBefore ==
  ASSUME NEW S, NEW q \in Seq(S), NEW e \in S, NEW D, NEW E, Before(q, D, E),
         e \in D => e \notin E /\ Of(q, E) = {}
  PROVE  Before(Append(q, e), D, E)
<1>1. /\ Of(Append(q, e), D) = Of(q, D) \cup (IF e \in D THEN {Len(q) + 1} ELSE {})
      /\ Of(Append(q, e), E) = Of(q, E) \cup (IF e \in E THEN {Len(q) + 1} ELSE {})
  BY AppendOf
<1>2. Len(q) \in Nat /\ Of(q, D) \subseteq 1 .. Len(q)
  BY Appended DEF Of
<1> QED
  BY <1>1, <1>2 DEF Before

\* ... the oldest one of the second kind has none of the first behind it.
LEMMA TailBefore ==
  ASSUME NEW S, NEW q \in Seq(S), q # <<>>, NEW D, NEW E, Before(q, D, E)
  PROVE  Before(Tail(q), D, E) /\ (Head(q) \in E => Of(q, D) = {})
<1> DEFINE r == Tail(q)
<1>1. /\ DOMAIN q = 1 .. Len(q) /\ Len(q) \in Nat /\ Len(q) # 0
      /\ Head(q) = q[1]
      /\ DOMAIN r = 1 .. Len(q) - 1
      /\ \A i \in 1 .. Len(q) - 1 : r[i] = q[i + 1]
  BY Shortened
<1> HIDE DEF r
<1>2. /\ \A i \in Of(r, D) : i + 1 \in Of(q, D) /\ i \in 1 .. Len(q) - 1
      /\ \A i \in Of(r, E) : i + 1 \in Of(q, E) /\ i \in 1 .. Len(q) - 1
      /\ Of(q, D) \subseteq 1 .. Len(q)
      /\ Head(q) \in E => 1 \in Of(q, E)
  BY <1>1 DEF Of
<1>3. Before(r, D, E)
  <2> SUFFICES ASSUME NEW i \in Of(r, D), NEW j \in Of(r, E) PROVE i < j
    BY DEF Before
  <2>1. i + 1 < j + 1 /\ i \in Int /\ j \in Int
    BY <1>2 DEF Before
  <2> QED
    BY <2>1
<1>4. ASSUME Head(q) \in E, NEW i \in Of(q, D) PROVE FALSE
  <2>1. i < 1 /\ i \in 1 .. Len(q)
    BY <1>2, <1>4 DEF Before
  <2> QED
    BY <1>1, <2>1
<1> QED
  BY <1>3, <1>4 DEF r

-----------------------------------------------------------------------------
(* The invariant: what is on its way for an address, and whom it belongs to   *)

Commands(a) == {c \in Cmd : c.addr = a}
Reads(a) == {c \in Commands(a) : c.read}
Writes(a) == {c \in Commands(a) : ~ c.read}
Answers(a) == {r \in Reply : r.addr = a /\ r.data # Null}

NoReads(a) == Of(cmdq, Reads(a)) = {} /\ Of(replyq, Answers(a)) = {}

\* A running call that is to write an address was made with no read of it pending,
\* and sends what is then in the mirror.
CallHolds ==
  /\ buf = Null
  /\ after \in {"grab", "tx"} /\ ~ reading => NoReads(arg)

\* No write of an address was submitted behind a read that is still on the link.
Ordered(a) ==
  /\ Before(cmdq, Writes(a), Reads(a))
  /\ Of(replyq, Answers(a)) # {} => Of(cmdq, Writes(a)) = {}

\* The last transaction of an address that is on its way makes both sides equal:
\* a write carries what is in the mirror, an answer to a read what the RDCU has.
Settled(a) ==
  /\ NewestIn(cmdq, Commands(a), {mirror[a], Null})
  /\ Of(cmdq, Commands(a)) = {} =>
       /\ NewestIn(replyq, Answers(a), {remote[a]})
       /\ Of(replyq, Answers(a)) = {} => mirror[a] = remote[a]

OnTheWay ==
  /\ CallHolds
  /\ \A a \in Addr : Ordered(a)
  /\ \A a \in Addr \ dirty : Settled(a)

\* The link, the library and the caller the promise holds for: only calls fail.
Careful ==
  /\ ResetBacklog = 0 /\ CallerWaits /\ ~ LittleEndian
  /\ Faults \subseteq {"no_memory", "no_command", "tx_error"}

\* A step that leaves the link alone and changes an address only when it notes that.
Quiet ==
  /\ UNCHANGED <<cmdq, replyq>>
  /\ dirty \subseteq dirty'
  /\ \A a \in Addr \ dirty' : mirror'[a] = mirror[a] /\ remote'[a] = remote[a]

\* The caller has made sure that no read of an address it writes is pending.
LEMMA WaitedFor ==
  ASSUME TypeOK, CallerWaits, NEW a \in Addr, MayWrite(a)
  PROVE  NoReads(a)
<1>1. \A i \in DOMAIN cmdq : cmdq[i] \in Cmd
  BY ElementOfSeq, LenProperties DEF TypeOK, LinkType
<1>2. ~ ReadOutstanding(a)
  BY DEF MayWrite
<1> QED
  BY <1>2, Zenon DEF ReadOutstanding, NoReads, Of, Reads, Commands, Answers

\* The faults excluded do not occur, and a response is never one that nobody waits for.
LEMMA ExcludedSteps ==
  ASSUME Careful, TypeOK, Owners
  PROVE  /\ ~ RxUnknown /\ ~ RxGarbled /\ ~ RxBadLength
         /\ ~ RdcuReject /\ ~ LoseCommand /\ ~ LoseReply /\ ~ DamageHeader
<1>1. \A f \in {"lost_command", "rejected", "lost_reply", "garbled", "bad_length",
               "damaged_header"} : f \notin Faults
  BY DEF Careful
<1>2. ~ RxUnknown
  <2> SUFFICES ASSUME RxUnknown PROVE FALSE
    OBVIOUS
  <2>1. replyq # <<>> /\ replyq \in Seq(Reply)
    BY DEF RxUnknown, Receive, TypeOK, LinkType
  <2>2. Head(replyq).tr \in InUse
    BY <2>1, TailItem, OwnersDef
  <2> QED
    BY <2>2 DEF RxUnknown, InUse
<1>3. /\ ~ RxGarbled /\ ~ RxBadLength /\ ~ RdcuReject /\ ~ LoseCommand /\ ~ LoseReply
      /\ ~ DamageHeader
  BY <1>1 DEF RxGarbled, RxBadLength, RdcuReject, LoseCommand, LoseReply, DamageHeader
<1> QED
  BY <1>2, <1>3

\* What the other steps do to the link, and to addresses whose sync is submitted.
LEMMA Steps ==
  ASSUME Careful, TypeOK, Owners, [Next]_vars
  PROVE  \/ Quiet
         \/ Tx /\ cmdq' = Append(cmdq, [tr |-> slot, read |-> reading, addr |-> arg,
                                        data |-> Payload])
               /\ dirty' = dirty \ {arg}
         \/ RxNoData
         \/ \E w \in Word, crc \in Checksum : RxData(w, crc)
         \/ RdcuExecute
<1>1. mirror \in [Addr -> Word] /\ remote \in [Addr -> Word]
  BY DEF TypeOK, MemType
<1>2. CASE \E a \in Writable, w \in Word : WriteMirror(a, w)
  BY <1>1, <1>2 DEF WriteMirror, Quiet, link
<1>3. CASE \/ \E a \in Addr, read \in BOOLEAN : Sync(a, read)
           \/ \E a \in Sram, read \in BOOLEAN : SyncData(a, read)
           \/ Grab \/ SyncStatus \/ ResetLog \/ RxEmpty \/ RxNoMemory \/ UNCHANGED vars
  BY <1>3 DEF Sync, SyncData, Grab, SyncStatus, ResetLog, RxEmpty, RxNoMemory, Quiet,
              vars, link
<1>4. CASE \E a \in Readable, w \in Word : RdcuUpdate(a, w)
  BY <1>1, <1>4 DEF RdcuUpdate, Quiet, link
<1>5. CASE Tx
  <2>1. CASE UNCHANGED <<cmdq, dirty>>
    BY <1>5, <2>1 DEF Tx, Quiet
  <2> QED
    BY <1>5, <2>1 DEF Tx
<1>6. /\ ~ RxUnknown /\ ~ RxGarbled /\ ~ RxBadLength
      /\ ~ RdcuReject /\ ~ LoseCommand /\ ~ LoseReply /\ ~ DamageHeader
  BY ExcludedSteps
<1> QED
  BY <1>2, <1>3, <1>4, <1>5, <1>6 DEF Next, Library, Rx, Caller, Rdcu, Addr

\* A command that is executed, and its answer.
LEMMA Answering ==
  ASSUME TypeOK, RdcuExecute, NEW a \in Addr
  PROVE  /\ Head(cmdq) \in Cmd /\ Executed(Head(cmdq)) \in Reply
         /\ Executed(Head(cmdq)) \in Answers(a) <=> Head(cmdq) \in Reads(a)
         /\ Head(cmdq) \in Reads(a) => Executed(Head(cmdq)).data = remote[a]
<1>1. cmdq \in Seq(Cmd) /\ cmdq # <<>> /\ remote \in [Addr -> Word]
  BY DEF TypeOK, LinkType, MemType, RdcuExecute
<1>2. Head(cmdq) \in Cmd
  BY <1>1, QueueHead
<1> DEFINE c == Head(cmdq)
<1>3. c.addr \in Addr /\ c.read \in BOOLEAN /\ c.tr \in Slot
  BY <1>2 DEF Cmd
<1> HIDE DEF c
<1>4. remote[c.addr] \in Word /\ remote[c.addr] # Null
  BY <1>1, <1>3, AddrAssumption
<1> QED
  BY <1>2, <1>3, <1>4 DEF c, Executed, Reply, Answers, Reads, Commands

\* A response that is taken off the link.
LEMMA Receiving ==
  ASSUME TypeOK, Receive
  PROVE  replyq \in Seq(Reply) /\ replyq # <<>> /\ Head(replyq) \in Reply
BY QueueHead DEF TypeOK, LinkType, Receive

\* A running call keeps what it was made with.
LEMMA NextCallHolds ==
  ASSUME Careful, TypeOK, Owners, CallHolds, [Next]_vars
  PROVE  CallHolds'
<1>1. CallType /\ LinkType
  BY DEF TypeOK
<1>2. ASSUME buf' = buf, after' = after, reading' = reading, arg' = arg,
             UNCHANGED <<cmdq, replyq>>
      PROVE  CallHolds'
  BY <1>2 DEF CallHolds, NoReads, Of
<1>3. ASSUME Return PROVE CallHolds'
  BY <1>3 DEF Return, CallHolds
<1>4. ASSUME NEW a \in Addr, NEW read \in BOOLEAN, Sync(a, read) PROVE CallHolds'
  <2>1. CASE ProcessRxThen("tx", slot', a, read, CopiedBeforeTx(a, read)) /\ UNCHANGED link
    <3>1. buf' = Null
      BY <2>1 DEF ProcessRxThen, CopiedBeforeTx, Careful
    <3>2. ~ read => NoReads(a)
      BY <1>4, WaitedFor DEF Sync, Careful
    <3>3. NoReads(a)' <=> NoReads(a)
      BY <2>1 DEF NoReads, Of, link
    <3> QED
      BY <2>1, <3>1, <3>2, <3>3 DEF ProcessRxThen, CallHolds, NoReads
  <2> QED
    BY <1>3, <1>4, <2>1 DEF Sync, NoCommand, ProcessRxThen
<1>5. ASSUME NEW a \in Sram, NEW read \in BOOLEAN, SyncData(a, read) PROVE CallHolds'
  <2>1. ~ read => NoReads(a)
    BY <1>5, WaitedFor DEF SyncData, Careful, Addr
  <2>2. NoReads(a)' <=> NoReads(a)
    BY <1>5 DEF SyncData, NoReads, Of, link
  <2> QED
    BY <1>5, <2>1, <2>2 DEF SyncData, ProcessRxThen, CallHolds, NoReads
<1>6. CASE Grab
  <2>1. after = "grab" /\ UNCHANGED link
    BY <1>1, <1>6 DEF Grab, CallType
  <2>2. CASE buf' = Null /\ reading' = reading /\ arg' = arg
    BY <2>1, <2>2 DEF CallHolds, NoReads, Of, link
  <2> QED
    BY <1>3, <1>6, <2>2 DEF Grab, NoCommand, ProcessRxThen
<1>7. CASE SyncStatus
  BY <1>7 DEF SyncStatus, ProcessRxThen, CallHolds
<1>8. CASE Tx
  BY <1>3, <1>8 DEF Tx
<1>9. CASE RxNoData \/ \E w \in Word, crc \in Checksum : RxData(w, crc)
  <2>1. /\ Receive /\ cmdq' = cmdq /\ replyq' = Tail(replyq)
        /\ UNCHANGED <<after, reading, arg, buf>>
    BY <1>9 DEF RxNoData, RxData, Receive, LeaveRx, call
  <2>2. \A a : Of(replyq, Answers(a)) = {} => Of(Tail(replyq), Answers(a)) = {}
    BY <2>1, Receiving, TailOf
  <2> QED
    BY <2>1, <2>2 DEF CallHolds, NoReads, Of
<1>10. CASE RdcuExecute
  <2>1. UNCHANGED <<after, reading, arg, buf>>
    BY <1>10 DEF RdcuExecute, call
  <2>2. ASSUME NoReads(arg), arg \in Addr PROVE NoReads(arg)'
    <3> DEFINE e == Executed(Head(cmdq))
    <3>1. cmdq \in Seq(Cmd) /\ replyq \in Seq(Reply) /\ cmdq # <<>>
      BY <1>1, <1>10 DEF LinkType, RdcuExecute
    <3>2. Head(cmdq) \notin Reads(arg) /\ Of(Tail(cmdq), Reads(arg)) = {}
      BY <2>2, <3>1, TailOf DEF NoReads
    <3>3. e \in Reply /\ e \notin Answers(arg)
      BY <1>10, <2>2, <3>2, Answering
    <3> HIDE DEF e
    <3>4. Of(Append(replyq, e), Answers(arg)) = {}
      BY <2>2, <3>1, <3>3, AppendOf DEF NoReads
    <3>5. cmdq' = Tail(cmdq) /\ replyq' = Append(replyq, e)
      BY <1>10 DEF RdcuExecute, e
    <3> QED
      BY <2>1, <3>2, <3>4, <3>5 DEF NoReads, Of
  <2>3. after \in {"grab", "tx"} => arg \in Addr
    BY <1>1 DEF CallType
  <2> QED
    BY <2>1, <2>2, <2>3 DEF CallHolds, NoReads
<1>11. CASE \/ \E a \in Writable, w \in Word : WriteMirror(a, w)
            \/ ResetLog \/ RxEmpty \/ RxNoMemory
            \/ \E a \in Readable, w \in Word : RdcuUpdate(a, w)
            \/ UNCHANGED vars
  BY <1>2, <1>11 DEF WriteMirror, ResetLog, RxEmpty, RxNoMemory, LeaveRx, RdcuUpdate,
                     vars, call, link
<1>12. /\ ~ RxUnknown /\ ~ RxGarbled /\ ~ RxBadLength
       /\ ~ RdcuReject /\ ~ LoseCommand /\ ~ LoseReply /\ ~ DamageHeader
  BY ExcludedSteps
<1> QED
  BY <1>4, <1>5, <1>6, <1>7, <1>8, <1>9, <1>10, <1>11, <1>12
  DEF Next, Library, Rx, Caller, Rdcu, Addr

\* A call that writes an address sends the contents of the mirror, behind no read;
\* one that reads it sends none.
LEMMA Sending ==
  ASSUME TypeOK, CallHolds, Tx
  PROVE  LET e == [tr |-> slot, read |-> reading, addr |-> arg, data |-> Payload]
         IN /\ arg \in Addr /\ e \in Commands(arg)
            /\ e.data \in {mirror[arg], Null}
            /\ e \in Writes(arg) => NoReads(arg) /\ e \notin Reads(arg)
            /\ \A a \in Addr : e \in Commands(a) => a = arg
<1>1. /\ slot \in Slot /\ arg \in Addr /\ reading \in BOOLEAN /\ buf = Null /\ after = "tx"
      /\ mirror[arg] \in Word
  BY DEF TypeOK, CallType, MemType, CallHolds, Tx
<1> QED
  BY <1>1 DEF Payload, Cmd, Commands, Reads, Writes, CallHolds

\* Every step keeps the order of writes and reads of an address.
LEMMA NextOrdered ==
  ASSUME Careful, TypeOK, Owners, CallHolds, [Next]_vars, NEW a \in Addr, Ordered(a)
  PROVE  Ordered(a)'
<1>1. cmdq \in Seq(Cmd) /\ replyq \in Seq(Reply)
  BY DEF TypeOK, LinkType
<1>2. CASE Quiet
  BY <1>2 DEF Quiet, Ordered, Before, Of
<1> DEFINE c == [tr |-> slot, read |-> reading, addr |-> arg, data |-> Payload]
<1>3. CASE Tx /\ cmdq' = Append(cmdq, c)
  <2>1. /\ c \in Cmd
        /\ c \in Writes(a) => NoReads(a) /\ c \notin Reads(a)
    BY <1>3, Sending DEF Writes, Commands
  <2> HIDE DEF c
  <2>2. Before(Append(cmdq, c), Writes(a), Reads(a))
    BY <1>1, <2>1, AppendBefore DEF Ordered, NoReads
  <2>3. Of(replyq, Answers(a)) # {} => Of(Append(cmdq, c), Writes(a)) = {}
    <3>1. ASSUME c \notin Writes(a) PROVE Of(Append(cmdq, c), Writes(a)) = Of(cmdq, Writes(a))
      BY <1>1, <2>1, <3>1, AppendOther
    <3> QED
      BY <2>1, <3>1 DEF Ordered, NoReads
  <2> QED
    BY <1>3, <2>2, <2>3 DEF Tx, Ordered, Before, Of
<1>4. CASE RxNoData \/ \E w \in Word, crc \in Checksum : RxData(w, crc)
  <2>1. Receive
    BY <1>4 DEF RxNoData, RxData
  <2>2. Of(replyq, Answers(a)) = {} => Of(Tail(replyq), Answers(a)) = {}
    BY <2>1, Receiving, TailOf
  <2> QED
    BY <2>1, <2>2 DEF Receive, Ordered, Before, Of
<1>5. CASE RdcuExecute
  <2> DEFINE e == Executed(Head(cmdq))
  <2>1. cmdq # <<>> /\ cmdq' = Tail(cmdq) /\ replyq' = Append(replyq, e)
    BY <1>5 DEF RdcuExecute
  <2>2. e \in Reply /\ (e \in Answers(a) <=> Head(cmdq) \in Reads(a))
    BY <1>5, Answering
  <2> HIDE DEF e
  <2>3. /\ Before(Tail(cmdq), Writes(a), Reads(a))
        /\ Head(cmdq) \in Reads(a) => Of(cmdq, Writes(a)) = {}
    BY <1>1, <2>1, TailBefore DEF Ordered
  <2>4. Of(cmdq, Writes(a)) = {} => Of(Tail(cmdq), Writes(a)) = {}
    BY <1>1, <2>1, TailOf
  <2>5. Of(Append(replyq, e), Answers(a)) # {} => Of(Tail(cmdq), Writes(a)) = {}
    <3>1. ASSUME e \notin Answers(a)
          PROVE  Of(Append(replyq, e), Answers(a)) = Of(replyq, Answers(a))
      BY <1>1, <2>2, <3>1, AppendOther
    <3> QED
      BY <2>2, <2>3, <2>4, <3>1 DEF Ordered
  <2> QED
    BY <2>1, <2>3, <2>5 DEF Ordered, Before, Of
<1> QED
  BY <1>2, <1>3, <1>4, <1>5, Steps

\* A sync that is sent settles its address and no other.
LEMMA SendSettles ==
  ASSUME TypeOK, CallHolds, Tx, NEW a \in Addr, a # arg => Settled(a),
         cmdq' = Append(cmdq, [tr |-> slot, read |-> reading, addr |-> arg, data |-> Payload])
  PROVE  Settled(a)'
<1> DEFINE c == [tr |-> slot, read |-> reading, addr |-> arg, data |-> Payload]
<1>1. cmdq \in Seq(Cmd)
  BY DEF TypeOK, LinkType
<1>2. /\ c \in Cmd /\ c \in Commands(arg)
      /\ c.data \in {mirror[arg], Null}
      /\ c \in Commands(a) => a = arg
  BY Sending DEF Commands
<1>3. cmdq' = Append(cmdq, c) /\ UNCHANGED <<mirror, replyq, remote>>
  BY DEF Tx
<1> HIDE DEF c
<1>4. CASE a = arg
  <2>1. Of(Append(cmdq, c), Commands(a)) = Of(cmdq, Commands(a)) \cup {Len(cmdq) + 1}
    BY <1>1, <1>2, <1>4, AppendOf
  <2>2. NewestIn(Append(cmdq, c), Commands(a), {mirror[a], Null})
    BY <1>1, <1>2, <1>4, AppendOf
  <2> QED
    BY <1>3, <2>1, <2>2 DEF Settled, NewestIn, Newest, Of
<1>5. CASE a # arg
  <2>1. Of(Append(cmdq, c), Commands(a)) = Of(cmdq, Commands(a))
    BY <1>1, <1>2, <1>5, AppendOther
  <2>2. NewestIn(Append(cmdq, c), Commands(a), {mirror[a], Null})
    <3>1. c \notin Commands(a) /\ NewestIn(cmdq, Commands(a), {mirror[a], Null})
      BY <1>2, <1>5 DEF Settled
    <3> QED
      BY <1>1, <1>2, <3>1, AppendOf
  <2> QED
    BY <1>3, <1>5, <2>1, <2>2 DEF Settled, NewestIn, Newest, Of
<1> QED
  BY <1>4, <1>5

\* A response that is stored, or acknowledges a write, leaves its address settled.
LEMMA ReceiveSettles ==
  ASSUME Careful, TypeOK, Owners, NEW a \in Addr, Ordered(a), Settled(a),
         RxNoData \/ \E w \in Word, crc \in Checksum : RxData(w, crc)
  PROVE  Settled(a)'
<1> DEFINE r == Head(replyq)
<1>1. /\ replyq \in Seq(Reply) /\ replyq # <<>> /\ r \in Reply
      /\ replyq' = Tail(replyq) /\ UNCHANGED <<cmdq, remote>>
  BY Receiving DEF RxNoData, RxData, Receive
<1>2. /\ \A V : NewestIn(replyq, Answers(a), V) =>
           /\ NewestIn(Tail(replyq), Answers(a), V)
           /\ r \in Answers(a) /\ Of(Tail(replyq), Answers(a)) = {} => r.data \in V
      /\ r \notin Answers(a) => (Of(Tail(replyq), Answers(a)) = {} => Of(replyq, Answers(a)) = {})
      /\ r \in Answers(a) => Of(replyq, Answers(a)) # {}
  BY <1>1, TailOf
<1>3. mirror' = IF r.data # Null THEN [mirror EXCEPT ![r.addr] = r.data] ELSE mirror
  <2>1. CASE RxNoData
    BY <2>1 DEF RxNoData
  <2>2. ASSUME NEW w \in Word, NEW crc \in Checksum, RxData(w, crc)
        PROVE  r.data # Null /\ mirror' = [mirror EXCEPT ![r.addr] = r.data]
    <3>1. w = r.data /\ crc = Crc8[r.data] /\ ToHost(w) = w
      BY <2>2 DEF RxData, Arriving, ToHost, Careful
    <3>2. local_addr[r.tr] = r.addr
      BY <1>1, TailItem, OwnersDef
    <3> QED
      BY <2>2, <3>1, <3>2 DEF RxData, CrcMatches, Copied
  <2> QED
    BY <2>1, <2>2 DEF RxNoData
<1>4. r \in Answers(a) <=> r.data # Null /\ r.addr = a
  BY <1>1 DEF Answers
<1>5. mirror \in [Addr -> Word]
  BY DEF TypeOK, MemType
<1> HIDE DEF r
<1>6. CASE r \in Answers(a)
  <2>1. mirror'[a] = r.data
    BY <1>3, <1>4, <1>5, <1>6
  <2>2. Of(cmdq, Writes(a)) = {}
    BY <1>2, <1>6 DEF Ordered
  <2>3. NewestIn(cmdq, Commands(a), {mirror'[a], Null})
    <3> SUFFICES ASSUME NEW i \in DOMAIN cmdq, cmdq[i] \in Commands(a) PROVE cmdq[i].data = Null
      BY DEF NewestIn, Newest, Of
    <3>1. cmdq[i].read
      BY <2>2 DEF Of, Writes
    <3> QED
      BY <3>1 DEF Commands, Cmd
  <2>4. ASSUME Of(cmdq, Commands(a)) = {}
        PROVE  /\ NewestIn(Tail(replyq), Answers(a), {remote[a]})
               /\ Of(Tail(replyq), Answers(a)) = {} => mirror'[a] = remote[a]
    <3>1. NewestIn(replyq, Answers(a), {remote[a]})
      BY <2>4 DEF Settled
    <3>2. /\ NewestIn(Tail(replyq), Answers(a), {remote[a]})
          /\ Of(Tail(replyq), Answers(a)) = {} => r.data \in {remote[a]}
      BY <1>2, <1>6, <3>1
    <3> QED
      BY <2>1, <3>2
  <2> QED
    BY <1>1, <2>3, <2>4 DEF Settled, NewestIn, Newest, Of
<1>7. CASE r \notin Answers(a)
  <2>1. mirror'[a] = mirror[a]
    BY <1>3, <1>4, <1>5, <1>7
  <2>2. Of(cmdq, Commands(a)) = {} =>
          /\ NewestIn(Tail(replyq), Answers(a), {remote[a]})
          /\ Of(Tail(replyq), Answers(a)) = {} => mirror[a] = remote[a]
    BY <1>2, <1>7 DEF Settled
  <2>3. NewestIn(cmdq, Commands(a), {mirror[a], Null})
    BY DEF Settled
  <2> QED
    BY <1>1, <2>1, <2>2, <2>3 DEF Settled, NewestIn, Newest, Of
<1> QED
  BY <1>6, <1>7

\* A command that is executed leaves its address settled: the RDCU then has what the
\* mirror has, or answers with what it has.
LEMMA ExecuteSettles ==
  ASSUME TypeOK, NEW a \in Addr, Ordered(a), Settled(a), RdcuExecute
  PROVE  Settled(a)'
<1> DEFINE c == Head(cmdq)
           e == Executed(Head(cmdq))
<1>1. /\ cmdq \in Seq(Cmd) /\ replyq \in Seq(Reply) /\ cmdq # <<>>
      /\ remote \in [Addr -> Word] /\ mirror \in [Addr -> Word]
  BY DEF TypeOK, LinkType, MemType, RdcuExecute
<1>2. /\ cmdq' = Tail(cmdq) /\ replyq' = Append(replyq, e) /\ mirror' = mirror
      /\ remote' = IF c.read THEN remote ELSE [remote EXCEPT ![c.addr] = c.data]
  BY DEF RdcuExecute
<1>3. /\ c \in Cmd /\ e \in Reply
      /\ e \in Answers(a) <=> c \in Reads(a)
      /\ c \in Reads(a) => e.data = remote[a]
  BY Answering
<1>4. /\ c \in Reads(a) <=> c \in Commands(a) /\ c.read
      /\ c \in Writes(a) <=> c \in Commands(a) /\ ~ c.read
      /\ c \in Commands(a) <=> c.addr = a
      /\ ~ c.read => c.data \in Word /\ c.data # Null
  BY <1>3, AddrAssumption DEF Reads, Writes, Commands, Cmd
<1> HIDE DEF c, e
<1>5. /\ \A V : NewestIn(cmdq, Commands(a), V) =>
           /\ NewestIn(Tail(cmdq), Commands(a), V)
           /\ c \in Commands(a) /\ Of(Tail(cmdq), Commands(a)) = {} => c.data \in V
      /\ c \notin Commands(a) =>
           (Of(Tail(cmdq), Commands(a)) = {} => Of(cmdq, Commands(a)) = {})
      /\ c \in Writes(a) => Of(cmdq, Writes(a)) # {}
  BY <1>1, TailOf DEF c
<1>6. NewestIn(Tail(cmdq), Commands(a), {mirror[a], Null})
  BY <1>5 DEF Settled
<1>7. ASSUME Of(Tail(cmdq), Commands(a)) = {}
      PROVE  /\ NewestIn(Append(replyq, e), Answers(a), {remote'[a]})
             /\ Of(Append(replyq, e), Answers(a)) = {} => mirror[a] = remote'[a]
  <2>1. CASE c \in Reads(a)
    <3>1. e \in Answers(a) /\ e.data \in {remote'[a]}
      BY <1>2, <1>3, <1>4, <2>1
    <3>2. /\ NewestIn(Append(replyq, e), Answers(a), {remote'[a]})
          /\ Of(Append(replyq, e), Answers(a)) = Of(replyq, Answers(a)) \cup {Len(replyq) + 1}
      BY <1>1, <1>3, <3>1, AppendOf
    <3> QED
      BY <3>2
  <2>2. CASE c \in Writes(a)
    <3>1. e \notin Answers(a) /\ c \in Commands(a) /\ c.addr = a
      BY <1>3, <1>4, <2>2
    <3>2. Of(replyq, Answers(a)) = {}
      BY <1>5, <2>2 DEF Ordered
    <3>3. Of(Append(replyq, e), Answers(a)) = {}
      BY <1>1, <1>3, <3>1, <3>2, AppendOther
    <3>4. c.data = mirror[a]
      BY <1>4, <1>5, <1>7, <2>2, <3>1 DEF Settled
    <3>5. remote'[a] = mirror[a]
      BY <1>1, <1>2, <1>4, <2>2, <3>1, <3>4
    <3> QED
      BY <3>3, <3>5 DEF NewestIn, Newest
  <2>3. CASE c \notin Commands(a)
    <3>1. e \notin Answers(a) /\ remote'[a] = remote[a]
      BY <1>1, <1>2, <1>3, <1>4, <2>3
    <3>2. /\ NewestIn(replyq, Answers(a), {remote[a]})
          /\ Of(replyq, Answers(a)) = {} => mirror[a] = remote[a]
      BY <1>5, <1>7, <2>3 DEF Settled
    <3>3. Of(Append(replyq, e), Answers(a)) = Of(replyq, Answers(a))
      BY <1>1, <1>3, <3>1, AppendOther
    <3>4. NewestIn(Append(replyq, e), Answers(a), {remote[a]})
      BY <1>1, <1>3, <3>1, <3>2, AppendOf
    <3> QED
      BY <3>1, <3>2, <3>3, <3>4
  <2> QED
    BY <1>4, <2>1, <2>2, <2>3
<1> QED
  BY <1>2, <1>6, <1>7 DEF Settled, NewestIn, Newest, Of

\* Every step keeps the addresses settled that no side has changed.
LEMMA NextSettled ==
  ASSUME Careful, TypeOK, Owners, CallHolds, [Next]_vars, NEW a \in Addr, a \notin dirty',
         Ordered(a), a \notin dirty => Settled(a)
  PROVE  Settled(a)'
<1>1. CASE Quiet
  BY <1>1 DEF Quiet, Settled, NewestIn, Newest, Of
<1>2. CASE Tx /\ cmdq' = Append(cmdq, [tr |-> slot, read |-> reading, addr |-> arg,
                                       data |-> Payload])
              /\ dirty' = dirty \ {arg}
  BY <1>2, SendSettles
<1>3. CASE RxNoData \/ \E w \in Word, crc \in Checksum : RxData(w, crc)
  BY <1>3, ReceiveSettles DEF RxNoData, RxData, Receive
<1>4. CASE RdcuExecute
  BY <1>4, ExecuteSettles DEF RdcuExecute
<1> QED
  BY <1>1, <1>2, <1>3, <1>4, Steps

\* "If pending is not set, the synchronisation procedure is complete": for a caller
\* that waits, a big endian build and a link that delivers, whatever calls fail for
\* want of memory, of a command or of the driver, and however many are under way.
THEOREM SyncCorrect ==
  ASSUME Careful
  PROVE  Spec => []SyncComplete
<1>1. Init => OnTheWay
  <2> SUFFICES ASSUME Init PROVE OnTheWay
    OBVIOUS
  <2>1. /\ cmdq = <<>> /\ replyq = <<>> /\ dirty = Addr /\ buf = Null /\ after = "idle"
    BY DEF Init
  <2>2. \A a : Ordered(a)
    BY <2>1 DEF Ordered, Before, Of
  <2> QED
    BY <2>1, <2>2 DEF OnTheWay, CallHolds
<1>2. TypeOK /\ Owners /\ OnTheWay /\ [Next]_vars => OnTheWay'
  <2> SUFFICES ASSUME TypeOK, Owners, OnTheWay, [Next]_vars PROVE OnTheWay'
    OBVIOUS
  <2>1. CallHolds'
    BY NextCallHolds DEF OnTheWay
  <2>2. ASSUME NEW a \in Addr PROVE Ordered(a)'
    BY NextOrdered DEF OnTheWay
  <2>3. ASSUME NEW a \in Addr, a \notin dirty' PROVE Settled(a)'
    BY <2>3, NextSettled DEF OnTheWay
  <2> QED
    BY <2>1, <2>2, <2>3 DEF OnTheWay
<1>3. TypeOK /\ PendingCount /\ Owners /\ OnTheWay => SyncComplete
  <2> SUFFICES ASSUME TypeOK, PendingCount, Owners, OnTheWay, pending = 0,
                      NEW a \in Addr \ dirty
               PROVE  InSync(a)
    BY DEF SyncComplete
  <2>1. InUse = {}
    BY InUseFinite, FS_EmptySet DEF PendingCount
  <2>2. Packets(cmdq) = {} /\ Packets(replyq) = {}
    BY <2>1, OwnersDef
  <2>3. Of(cmdq, Commands(a)) = {} /\ Of(replyq, Answers(a)) = {}
    BY <2>2 DEF Packets, Of
  <2>4. mirror[a] = remote[a]
    BY <2>3 DEF OnTheWay, Settled
  <2> QED
    BY <2>4 DEF InSync, ToHost, Careful
<1>4. Spec => [](Named /\ Owners)
  BY NamedCorrect DEF Careful
<1> QED
  BY <1>1, <1>2, <1>3, <1>4, TypeCorrect, PendingCorrect, PTL DEF Spec
=============================================================================
