------------------------------ MODULE CmpEntity ------------------------------
(***************************************************************************)
(* The header of a compression entity (lib/common/cmp_entity.c, .h), byte  *)
(* by byte: where the setters put the fields, which values they refuse,    *)
(* and where the getters look for them.  The header is big endian on every *)
(* machine.                                                                *)
(*                                                                         *)
(* A header is a function from the offsets of the bytes that were written  *)
(* to these bytes.  What a setter does is a field [at, bytes, fits]: the   *)
(* bytes it puts at an offset, unless the value does not fit.  A number of *)
(* more than 24 bits is a sequence of 16-bit words, the highest first.     *)
(***************************************************************************)
EXTENDS DataProducts

GENERIC_HEADER_SIZE == 32
IMAGETTE_HEADER_SIZE == 36
IMAGETTE_ADAPTIVE_HEADER_SIZE == 44
NON_IMAGETTE_HEADER_SIZE == 64
CMP_ENTITY_MAX_SIZE == 2 ^ 24 - 1
RAW_BIT_DATA_TYPE == 2 ^ 15

Byte == 0 .. 255

-----------------------------------------------------------------------------
(* Bytes *)

\* The n bytes of a number, the highest first.
BigEndian(v, n) == [i \in 1 .. n |-> (v \div 256 ^ (n - i)) % 256]

\* The number n bytes at an offset stand for.
Get(h, at, n) ==
  LET value[i \in 0 .. n] == IF i = 0 THEN 0 ELSE value[i - 1] * 256 + h[at + i - 1]
  IN  value[n]

\* n 16-bit words at an offset.
GetWords(h, at, n) == [i \in 1 .. n |-> Get(h, at + 2 * (i - 1), 2)]

WordBytes(words) ==
  [i \in 1 .. 2 * Len(words) |->
     BigEndian(words[(i + 1) \div 2], 2)[IF i % 2 = 1 THEN 1 ELSE 2]]

\* A number the setter checks against the size of the field, and one it does not.
Field(at, n, v) == [at |-> at, bytes |-> BigEndian(v, n), fits |-> v < 256 ^ n]
Words(at, words) == [at |-> at, bytes |-> WordBytes(words), fits |-> TRUE]

Put(h, f) ==
  IF ~ f.fits THEN h
  ELSE LET there == f.at .. f.at + Len(f.bytes) - 1
       IN  [i \in DOMAIN h \cup there |-> IF i \in there THEN f.bytes[i - f.at + 1] ELSE h[i]]

\* One setter after another; a field that is refused does not stop the others.
PutAll(h, fields) ==
  LET put[i \in 0 .. Len(fields)] == IF i = 0 THEN h ELSE Put(put[i - 1], fields[i])
  IN  put[Len(fields)]

Refused(fields) == \E i \in DOMAIN fields : ~ fields[i].fits

\* memset
Cleared(n) == [i \in 0 .. n - 1 |-> 0]

-----------------------------------------------------------------------------
(* The header's size                                                       *)

\* enum cmp_data_type without DATA_TYPE_UNKNOWN, which is 0.
DataTypes ==
  <<"imagette", "imagette_adaptive", "sat_imagette", "sat_imagette_adaptive",
    "offset", "background", "smearing",
    "s_fx", "s_fx_efx", "s_fx_ncob", "s_fx_efx_ncob_ecob",
    "l_fx", "l_fx_efx", "l_fx_ncob", "l_fx_efx_ncob_ecob",
    "f_fx", "f_fx_efx", "f_fx_ncob", "f_fx_efx_ncob_ecob",
    "f_cam_imagette", "f_cam_imagette_adaptive", "f_cam_offset", "f_cam_background",
    "chunk">>

TypeNumber(data_type) == CHOOSE n \in DOMAIN DataTypes : DataTypes[n] = data_type

cmp_ent_cal_hdr_size(data_type, raw) ==
  IF data_type = "unknown" THEN 0
  ELSE IF raw THEN GENERIC_HEADER_SIZE
  ELSE IF data_type \in ap_imagettes THEN IMAGETTE_ADAPTIVE_HEADER_SIZE
  ELSE IF data_type \in imagettes THEN IMAGETTE_HEADER_SIZE
  ELSE NON_IMAGETTE_HEADER_SIZE

-----------------------------------------------------------------------------
(* Setters *)

cmp_ent_set_version_id(words) == Words(0, words)
cmp_ent_set_size(v) == Field(4, 3, v)
cmp_ent_set_original_size(v) == Field(7, 3, v)

cmp_ent_set_coarse_start_time(words) == Words(10, words)
cmp_ent_set_fine_start_time(word) == Words(14, <<word>>)

\* A timestamp has four words; the highest must be 0.
cmp_ent_set_start_timestamp(ts) ==
  IF ts[1] # 0 THEN <<[at |-> 10, bytes |-> <<>>, fits |-> FALSE]>>
  ELSE <<cmp_ent_set_coarse_start_time(<<ts[2], ts[3]>>), cmp_ent_set_fine_start_time(ts[4])>>

cmp_ent_set_coarse_end_time(words) == Words(16, words)
cmp_ent_set_fine_end_time(word) == Words(20, <<word>>)

cmp_ent_set_end_timestamp(ts) ==
  IF ts[1] # 0 THEN <<[at |-> 16, bytes |-> <<>>, fits |-> FALSE]>>
  ELSE <<cmp_ent_set_coarse_end_time(<<ts[2], ts[3]>>), cmp_ent_set_fine_end_time(ts[4])>>

cmp_ent_set_data_type(data_type, raw) ==
  Field(22, 2, TypeNumber(data_type) + IF raw THEN RAW_BIT_DATA_TYPE ELSE 0)

cmp_ent_set_cmp_mode(v) == Field(24, 1, v)
cmp_ent_set_model_value(v) == Field(25, 1, v)
cmp_ent_set_model_id(v) == Field(26, 2, v)
cmp_ent_set_model_counter(v) == Field(28, 1, v)
cmp_ent_set_reserved(v) == Field(29, 1, v)
cmp_ent_set_lossy_cmp_par(v) == Field(30, 2, v)

cmp_ent_set_ima_spill(v) == Field(32, 2, v)
cmp_ent_set_ima_golomb_par(v) == Field(34, 1, v)
cmp_ent_set_ima_ap1_spill(v) == Field(35, 2, v)
cmp_ent_set_ima_ap1_golomb_par(v) == Field(37, 1, v)
cmp_ent_set_ima_ap2_spill(v) == Field(38, 2, v)
cmp_ent_set_ima_ap2_golomb_par(v) == Field(40, 1, v)

\* Mutant of cmp_ent_set_non_ima_spill: the 24 bits are not shifted into place.
cmp_ent_set_non_ima_spill_unshifted(k, v) == Field(32 + 5 * (k - 1), 3, v \div 256)

\* cmp_ent_set_non_ima_spill1 and its siblings: pairs of five bytes.
cmp_ent_set_non_ima_spill(k, v) == Field(32 + 5 * (k - 1), 3, v)
cmp_ent_set_non_ima_cmp_par(k, v) == Field(35 + 5 * (k - 1), 2, v)

-----------------------------------------------------------------------------
(* Getters *)

cmp_ent_get_version_id(h) == GetWords(h, 0, 2)
cmp_ent_get_size(h) == Get(h, 4, 3)
cmp_ent_get_original_size(h) == Get(h, 7, 3)
cmp_ent_get_coarse_start_time(h) == GetWords(h, 10, 2)
cmp_ent_get_fine_start_time(h) == Get(h, 14, 2)
cmp_ent_get_start_timestamp(h) ==
  <<0>> \o cmp_ent_get_coarse_start_time(h) \o <<cmp_ent_get_fine_start_time(h)>>
cmp_ent_get_coarse_end_time(h) == GetWords(h, 16, 2)
cmp_ent_get_fine_end_time(h) == Get(h, 20, 2)
cmp_ent_get_end_timestamp(h) ==
  <<0>> \o cmp_ent_get_coarse_end_time(h) \o <<cmp_ent_get_fine_end_time(h)>>

cmp_ent_get_data_type_raw_bit(h) == Get(h, 22, 2) >= RAW_BIT_DATA_TYPE

cmp_ent_get_data_type(h) ==
  LET number == Get(h, 22, 2) % RAW_BIT_DATA_TYPE
  IN  IF number \in DOMAIN DataTypes THEN DataTypes[number] ELSE "unknown"

cmp_ent_get_cmp_mode(h) == Get(h, 24, 1)
cmp_ent_get_model_value(h) == Get(h, 25, 1)
cmp_ent_get_model_id(h) == Get(h, 26, 2)
cmp_ent_get_model_counter(h) == Get(h, 28, 1)
cmp_ent_get_reserved(h) == Get(h, 29, 1)
cmp_ent_get_lossy_cmp_par(h) == Get(h, 30, 2)

cmp_ent_get_ima_spill(h) == Get(h, 32, 2)
cmp_ent_get_ima_golomb_par(h) == Get(h, 34, 1)
cmp_ent_get_ima_ap1_spill(h) == Get(h, 35, 2)
cmp_ent_get_ima_ap1_golomb_par(h) == Get(h, 37, 1)
cmp_ent_get_ima_ap2_spill(h) == Get(h, 38, 2)
cmp_ent_get_ima_ap2_golomb_par(h) == Get(h, 40, 1)

cmp_ent_get_non_ima_spill(h, k) == Get(h, 32 + 5 * (k - 1), 3)
cmp_ent_get_non_ima_cmp_par(h, k) == Get(h, 35 + 5 * (k - 1), 2)

cmp_ent_get_hdr_size(h) ==
  cmp_ent_cal_hdr_size(cmp_ent_get_data_type(h), cmp_ent_get_data_type_raw_bit(h))

cmp_ent_get_cmp_data_size(h) ==
  IF cmp_ent_get_hdr_size(h) > cmp_ent_get_size(h) THEN 0
  ELSE cmp_ent_get_size(h) - cmp_ent_get_hdr_size(h)

\* cmp_ent_create: its header, and the size to be allocated, 0 on error.
cmp_ent_create(data_type, raw, cmp_size_byte) ==
  LET hdr_size == cmp_ent_cal_hdr_size(data_type, raw)
      ent_size == hdr_size + cmp_size_byte
  IN  IF hdr_size = 0 \/ ent_size > CMP_ENTITY_MAX_SIZE THEN [size |-> 0, h |-> <<>>]
      ELSE [size |-> IF ent_size < NON_IMAGETTE_HEADER_SIZE THEN NON_IMAGETTE_HEADER_SIZE
                     ELSE ent_size,
            h |-> PutAll(Cleared(hdr_size), <<cmp_ent_set_size(ent_size),
                                              cmp_ent_set_data_type(data_type, raw)>>)]
=============================================================================
