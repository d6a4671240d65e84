----------------------------- MODULE RmapPacket -----------------------------
(***************************************************************************)
(* The packets of lib/rdcu_compress/rmap.c: the headers rmap_build_hdr     *)
(* writes, the packet rdcu_package makes of them, and what                 *)
(* rmap_pkt_from_buffer reads from a reply.  A packet on the link is a     *)
(* sequence of bytes, an RMAP packet a record with the fields of struct    *)
(* rmap_pkt that a command or a reply uses.                                *)
(***************************************************************************)
EXTENDS Integers, Sequences
LOCAL INSTANCE SequencesExt

RMAP_PROTOCOL_ID == 1
RMAP_READ_ADDR_INC == 3
RMAP_WRITE_ADDR_INC_REPLY == 11
RMAP_WRITE_ADDR_INC_VERIFY_REPLY == 15
RMAP_MAX_PATH_LEN == 15
RMAP_MAX_REPLY_PATH_LEN == 12

\* RMAP_HDR_MIN_SIZE_*, the offsets of the reply
SIZE_CMD == 15
SIZE_WRITE_REP == 7
SIZE_READ_REP == 11
DATALEN == 8
DATA_START == 12

\* rmap_validate_cmd_code
ReadCommands == {2, RMAP_READ_ADDR_INC, 7}
WriteCommands == {8, 9, 10, RMAP_WRITE_ADDR_INC_REPLY, 12, 13, 14,
                  RMAP_WRITE_ADDR_INC_VERIFY_REPLY}

BigEndian(x, n) == [i \in 1 .. n |-> (x \div 256 ^ (n - i)) % 256]
FromBytes(s) == FoldLeft(LAMBDA x, b : 256 * x + b, 0, s)

\* Byte i of a buffer, from 0 as in the code
At(buf, i) == buf[i + 1]
Slice(buf, i, n) == SubSeq(buf, i + 1, i + n)

Xor4 ==
  LET Bit(x, i) == (x \div 2 ^ i) % 2
      Differ(a, b, i) == IF Bit(a, i) = Bit(b, i) THEN 0 ELSE 2 ^ i
  IN  [a, b \in 0 .. 15 |-> Differ(a, b, 0) + Differ(a, b, 1) + Differ(a, b, 2) + Differ(a, b, 3)]

Xor(a, b) == 16 * Xor4[a \div 16, b \div 16] + Xor4[a % 16, b % 16]

\* The lookup table of rmap_crc8: eight shifts of a register with feedback.
crc8_lt ==
  [b \in 0 .. 255 |->
     LET c[i \in 0 .. 8] == IF i = 0 THEN b
                           ELSE IF c[i - 1] % 2 = 1 THEN Xor(c[i - 1] \div 2, 224)
                           ELSE c[i - 1] \div 2
     IN  c[8]]

rmap_crc8(buf) ==
  LET crc8[i \in 0 .. Len(buf)] ==
        IF i = 0 THEN 0 ELSE crc8_lt[Xor(crc8[i - 1], buf[i])]
  IN  crc8[Len(buf)]

\* The byte of struct rmap_instruction
Instruction(cmd_resp, cmd, reply_words) == cmd_resp * 64 + cmd * 4 + reply_words

\* rmap_set_reply_path, rmap_set_dest_path and the setters of the path in
\* rdcu_rmap.c, which check the same
PathAccepted(path) == Len(path) <= RMAP_MAX_PATH_LEN
ReplyPathAccepted(path) == Len(path) <= RMAP_MAX_REPLY_PATH_LEN /\ Len(path) % 4 = 0

-----------------------------------------------------------------------------
(* Commands *)

\* rmap_get_min_hdr_size and rmap_build_hdr with no buffer, for a command
HdrSize(pkt) == SIZE_CMD + Len(pkt.path) + Len(pkt.rpath)

\* rmap_build_hdr, for a command.  Data addresses have 32 bits, the integers of
\* the model less: the highest byte comes apart from the others.
rmap_build_hdr(pkt) ==
  pkt.path
  \o <<pkt.dst, RMAP_PROTOCOL_ID, Instruction(1, pkt.cmd, Len(pkt.rpath) \div 4), pkt.key>>
  \o pkt.rpath \o <<pkt.src>> \o BigEndian(pkt.tr_id, 2)
  \o <<0, pkt.addr[1]>> \o BigEndian(pkt.addr[2], 3) \o BigEndian(pkt.data_len, 3)

\* Mutant of rdcu_package: the path is part of the header's CRC.
rdcu_package_path(cmd, non_crc_bytes, data) ==
  cmd \o <<rmap_crc8(cmd)>>
  \o IF data = <<>> THEN <<>> ELSE data \o <<rmap_crc8(data)>>

\* rdcu_package.  The path is not part of the header's CRC: the routers on the way
\* take it off.
rdcu_package(cmd, non_crc_bytes, data) ==
  cmd \o <<rmap_crc8(SubSeq(cmd, non_crc_bytes + 1, Len(cmd)))>>
  \o IF data # <<>> THEN data \o <<rmap_crc8(data)>>
     ELSE IF (At(cmd, non_crc_bytes + 2) \div 4) % 16
               \in {7, 8, 9, RMAP_WRITE_ADDR_INC_REPLY, 12, 13, 14,
                    RMAP_WRITE_ADDR_INC_VERIFY_REPLY}
          THEN <<0>> ELSE <<>>

-----------------------------------------------------------------------------
(* Replies *)

NoPacket == [tr_id |-> -1, status |-> 0, data |-> <<>>, data_crc |-> 0]

\* rmap_pkt_from_buffer, for a reply: the reply path is taken off on the way.
rmap_pkt_from_buffer(buf) ==
  LET cmd == (At(buf, 2) \div 4) % 16
      read == cmd \in ReadCommands
      size == IF read THEN SIZE_READ_REP ELSE SIZE_WRITE_REP
      data_len == IF read THEN FromBytes(Slice(buf, DATALEN, 3)) ELSE 0
      pkt == [tr_id |-> FromBytes(Slice(buf, 5, 2)), status |-> At(buf, 3),
              data |-> <<>>, data_crc |-> 0]
  IN  IF \/ Len(buf) < SIZE_WRITE_REP
         \/ At(buf, 1) # RMAP_PROTOCOL_ID
         \/ cmd \notin ReadCommands \cup WriteCommands
         \/ Len(buf) < size
      THEN NoPacket
      ELSE IF data_len = 0 THEN pkt
      ELSE IF Len(buf) < DATA_START + data_len + 1 THEN NoPacket
      ELSE [pkt EXCEPT !.data = Slice(buf, DATA_START, data_len),
                       !.data_crc = At(buf, DATA_START + data_len)]
=============================================================================
