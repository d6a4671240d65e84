--------------------------- MODULE EntityRoundTrip ---------------------------
(***************************************************************************)
(* A chunk or an RDCU input on its way through a compression entity: the   *)
(* instrument (icu) compresses it with compress_chunk() or                 *)
(* compress_like_rdcu() and builds the entity header, the ground           *)
(* decompresses the entity with decompress_cmp_entiy() or                  *)
(* decompress_rdcu_data().  All the ground knows is the entity and its own *)
(* copy of the model; each side updates its model for the next entity.     *)
(*                                                                         *)
(* A value is what the CPU that owns the memory reads there; Swapped(v) is *)
(* what a CPU of the other byte order reads.  A code word is the setup it  *)
(* was coded with and the difference to the model (SampleCodec has the     *)
(* bits); a decoder of another setup gets Garbage.  What fits into dst is  *)
(* ChunkCompress' subject: here the sizes of the compressed data and the   *)
(* collection that finds dst full are choices.  Chunks are well formed.    *)
(***************************************************************************)
EXTENDS CmpEntity, FiniteSets

CONSTANTS Settings,          \* see SettingsAssumption
          Reading(_, _, _, _), \* the value of a field: reading, collection, sample, field
          RdcuConfigs,       \* struct rdcu_cfg, the fields that matter
          Shorter(_),        \* sizes data of that length may be compressed to
          Version, Stamps, Ids,
          MaxEntities,       \* bound: entities of a behaviour
          MaxFailures        \* bound: compressions that fail

COLLECTION_HDR_SIZE == 12
CMP_COLLECTION_FILD_SIZE == 2
MAX_MODEL_VALUE == 16
MAX_ICU_ROUND == 3

CMP_MODE_RAW == 0
CMP_MODE_MODEL_ZERO == 1
CMP_MODE_DIFF_ZERO == 2
CMP_MODE_MODEL_MULTI == 3
CMP_MODE_DIFF_MULTI == 4
CmpMode == CMP_MODE_RAW .. CMP_MODE_DIFF_MULTI
model_mode_is_used(mode) == mode \in {CMP_MODE_MODEL_ZERO, CMP_MODE_MODEL_MULTI}
zero_escape_mech_is_used(mode) == mode \in {CMP_MODE_MODEL_ZERO, CMP_MODE_DIFF_ZERO}

(***************************************************************************)
(* What the callers decide once: the collections of the chunks             *)
(* (subservice and number of samples) or one RDCU input, the compression   *)
(* parameters, the byte orders of the CPUs, where an updated model goes.   *)
(***************************************************************************)
ASSUME SettingsAssumption ==
  \A s \in Settings :
    /\ s.layout \in Seq([sub : Nat, n : Nat]) /\ s.layout # <<>> /\ s.rdcu \in BOOLEAN
    /\ s.rdcu => Len(s.layout) = 1
    /\ \A k \in DOMAIN s.layout : cmp_col_get_chunk_type(s.layout[k].sub) # "unknown"
    /\ \A member \in DOMAIN s.par : s.par[member] \in Nat
    /\ "model_value" \in DOMAIN s.par
    /\ LET pars == ParOf(cmp_col_get_chunk_type(s.layout[1].sub))
       IN  \A j \in DOMAIN pars : pars[j].field \in DOMAIN s.par
    /\ {s.icu, s.ground} \subseteq {"big", "little"}
    /\ s.update \in {"none", "separate", "in_place"}
ASSUME BoundAssumption == MaxEntities \in Nat /\ MaxFailures \in Nat
ASSUME ReadingAssumption ==
  \A s \in Settings, r \in 1 .. MaxEntities + 1 : \A k \in DOMAIN s.layout :
    LET type == IF s.rdcu THEN "imagette"
                ELSE convert_subservice_to_cmp_data_type(s.layout[k].sub)
    IN  \A j \in 1 .. s.layout[k].n, f \in Members(type) : Reading(r, k, j, f) \in Int

Word == 0 .. 65535
ASSUME HeaderAssumption ==
  /\ Version \in [1 .. 2 -> Word] /\ Stamps \subseteq [1 .. 4 -> Word]
  /\ Ids \subseteq Word \X Byte
  /\ RdcuConfigs \subseteq
       [cmp_mode : Nat, model_value : Nat, round : Nat, golomb_par : Nat, spill : Nat,
        ap1_golomb_par : Nat, ap1_spill : Nat, ap2_golomb_par : Nat, ap2_spill : Nat]

VARIABLES setting,
          reading,   \* the number of the chunk
          chunk,     \* the buffer the instrument compresses
          pc,
          icu,       \* [model, updated]: buffers
          ground,    \* [model, updated, data]: buffers
          cfg,       \* struct cmp_cfg of the compressor
          stamp,     \* start and end timestamp, model id and counter
          dst_size, read_bytes, \* locals of compress_chunk()
          info,      \* struct cmp_info
          ent,       \* [h, body]: the header and what is behind it
          dcfg,      \* struct cmp_cfg of the decompressor
          i,         \* the collection it is at
          null_dst,  \* decompressed_data = NULL
          asked,     \* history: it was called with NULL for this entity
          spoiled,   \* history: a failed compression left a model half updated
          failures   \* history: compressions that failed

caller == <<setting, reading, chunk>>
sender == <<icu, cfg, stamp, dst_size, read_bytes, info>>
receiver == <<ground, dcfg, i, null_dst, asked>>
history == <<spoiled, failures>>
vars == <<caller, pc, sender, receiver, ent, history>>

-----------------------------------------------------------------------------
(* Buffers: a function from the offsets of its collections to their header *)
(* and samples.  A buffer that is NULL or unset has none.                  *)

NoBuffer == [o \in {} |-> 0]
NoHeader == [sub |-> 0, len |-> 0, tag |-> 0]
Garbage == 10 ^ 6
Swapped(v) == -1 - v

CollectionType(k) == IF setting.rdcu THEN "imagette"
                     ELSE convert_subservice_to_cmp_data_type(setting.layout[k].sub)

Length(k) == setting.layout[k].n * size_of_a_sample(CollectionType(k))
HeaderBytes == IF setting.rdcu THEN 0 ELSE COLLECTION_HDR_SIZE

\* The offset of a collection, and behind the last the size of the chunk.
Offset(k) ==
  LET at[j \in 1 .. k] == IF j = 1 THEN 0 ELSE at[j - 1] + HeaderBytes + Length(j - 1)
  IN  at[k]

Collections == 1 .. Len(setting.layout)
ChunkSize == Offset(Len(setting.layout) + 1)

\* A chunk as the instrument takes it.
Chunk(r) ==
  [o \in {Offset(k) : k \in Collections} |->
     LET k == CHOOSE k \in Collections : Offset(k) = o
     IN  [hdr |-> IF setting.rdcu THEN NoHeader
                  ELSE [sub |-> setting.layout[k].sub, len |-> Length(k), tag |-> r],
          data |-> [j \in 1 .. setting.layout[k].n |->
                      [f \in Members(CollectionType(k)) |-> Reading(r, k, j, f)]]]]

\* n samples at an offset.
At(buffer, o, data_type, n) ==
  IF o \in DOMAIN buffer /\ Len(buffer[o].data) = n THEN buffer[o].data
  ELSE [j \in 1 .. n |-> [f \in Members(data_type) |-> Garbage]]

\* A buffer into which a collection is copied.
With(buffer, o, col) ==
  [x \in DOMAIN buffer \cup {o} |-> IF x = o THEN col ELSE buffer[x]]

\* Where the updated model of a side goes.
Updated(side, o, col) ==
  CASE setting.update = "none" -> side
    [] setting.update = "separate" -> [side EXCEPT !.updated = With(side.updated, o, col)]
    [] setting.update = "in_place" -> [side EXCEPT !.model = With(side.model, o, col)]

\* The fields of the samples turned around, on a little endian CPU.
Turn(cpu, data, fields) ==
  IF cpu = "big" THEN data
  ELSE [j \in DOMAIN data |->
          [f \in DOMAIN data[j] |->
             IF f \in fields THEN Swapped(data[j][f]) ELSE data[j][f]]]

\* memcpy between the memory of a CPU and the entity, which is big endian, and
\* the conversion in place, cpu_to_be_data_type or be_to_cpu_data_type.
Converted(cpu, data, data_type) ==
  Turn(cpu, Turn(cpu, data, WideMembers(data_type)), Turned(data_type))

-----------------------------------------------------------------------------
(* Configurations *)

ZeroCfg == [cmp_mode |-> 0, model_value |-> 0, round |-> 0,
            par |-> [k \in Pair |-> 0], spill |-> [k \in Pair |-> 0]]

chunk_type == cmp_col_get_chunk_type(setting.layout[1].sub)

\* A pair no parameter of the chunk type goes to stays zero.
init_cmp_cfg_from_cmp_par(cmp_mode) ==
  LET pars == ParOf(chunk_type)
      golomb(k) == LET j == CHOOSE j \in DOMAIN pars : pars[j].pair = k
                   IN  setting.par[pars[j].field]
      bits(k) == pars[CHOOSE j \in DOMAIN pars : pars[j].pair = k].bits
      set == {pars[j].pair : j \in DOMAIN pars}
  IN  [cmp_mode |-> cmp_mode, model_value |-> setting.par["model_value"], round |-> 0,
       par |-> [k \in Pair |-> IF k \in set THEN golomb(k) ELSE 0],
       spill |-> [k \in Pair |->
                    IF k \in set
                    THEN Spill(golomb(k), zero_escape_mech_is_used(cmp_mode), bits(k)) ELSE 0]]

\* cmp_cfg_gen_par_is_invalid does not hold.
GenericValid(c) ==
  /\ c.cmp_mode \in CmpMode
  /\ model_mode_is_used(c.cmp_mode) => c.model_value <= MAX_MODEL_VALUE
  /\ c.round <= MAX_ICU_ROUND

\* Nor does the check of the data type's parameters.
SpecificValid(c, data_type) ==
  c.cmp_mode = CMP_MODE_RAW \/
  \A k \in CheckedPars(data_type) : ParsAreValid(c.par[k], c.spill[k])

\* What model mode needs.
HasModel(c, side) == model_mode_is_used(c.cmp_mode) => side.model # NoBuffer

-----------------------------------------------------------------------------
(* Samples and code words *)

RoundFwd(c, v) == v \div 2 ^ c.round
RoundInv(c, v) == v * 2 ^ c.round

\* The model of sample j: its own, or the sample before it, and 0 for the first.
ModelOf(c, data, model, j, f) ==
  IF model_mode_is_used(c.cmp_mode) THEN model[j][f]
  ELSE IF j = 1 THEN 0 ELSE data[j - 1][f]

\* cmp_up_model
UpModel(c, d, m) ==
  (m * c.model_value + RoundInv(c, RoundFwd(c, d)) * (MAX_MODEL_VALUE - c.model_value))
    \div MAX_MODEL_VALUE

UpSample(c, d, m) == [f \in DOMAIN d |-> UpModel(c, d[f], m[f])]
UpModels(c, data, model) == [j \in DOMAIN data |-> UpSample(c, data[j], model[j])]

\* configure_encoder_setup, configure_decoder_setup
Setup(c, e) == [par |-> c.par[e.pair], spill |-> c.spill[e.pair], bits |-> e.bits,
                zero |-> zero_escape_mech_is_used(c.cmp_mode), round |-> c.round]

\* The code words of the samples, in the order of the encoder.
Encode(c, data_type, data, model) ==
  LET order == Encoder(data_type)
      word(j, e) == [setup |-> Setup(c, e),
                     delta |-> RoundFwd(c, data[j][e.field])
                               - RoundFwd(c, ModelOf(c, data, model, j, e.field))]
  IN  [q \in 1 .. Len(data) * Len(order) |->
         word(((q - 1) \div Len(order)) + 1, order[((q - 1) % Len(order)) + 1])]

\* The first n samples, in the order of the decoder.
Decode(c, data_type, words, model, n) ==
  LET order == Decoder(data_type)
      value(before, j, f) ==
        LET e == CHOOSE e \in DOMAIN order : order[e].field = f
            w == words[(j - 1) * Len(order) + e]
        IN  IF w.setup = Setup(c, order[e])
            THEN RoundInv(c, w.delta + RoundFwd(c, ModelOf(c, before, model, j, f)))
            ELSE Garbage
      decoded[j \in 0 .. n] ==
        IF j = 0 THEN <<>>
        ELSE Append(decoded[j - 1],
                    [f \in Members(data_type) |-> value(decoded[j - 1], j, f)])
  IN  decoded[n]

\* The stream ends before the n-th sample does.
TooShort(data_type, words, n) == Len(words) < n * Len(Decoder(data_type))

-----------------------------------------------------------------------------
(* compress_chunk() *)

NoStamp == [start |-> <<0, 0, 0, 0>>, end |-> <<0, 0, 0, 0>>, id |-> <<0, 0>>]
NoInfo == [cfg |-> ZeroCfg, cmp_err |-> 0, cmp_size |-> 0, samples |-> 0, words |-> <<>>,
           data |-> <<>>, rcfg |-> <<>>]
NoEntity == [h |-> NoBuffer, body |-> NoBuffer]

Init ==
  /\ setting \in Settings
  /\ reading = 1 /\ chunk = Chunk(1) /\ pc = "idle"
  /\ icu = [model |-> NoBuffer, updated |-> NoBuffer]
  /\ ground = [model |-> NoBuffer, updated |-> NoBuffer, data |-> NoBuffer]
  /\ cfg = ZeroCfg /\ stamp = NoStamp /\ dst_size = 0 /\ read_bytes = 0
  /\ info = NoInfo /\ ent = NoEntity
  /\ dcfg = ZeroCfg /\ i = 0 /\ null_dst = FALSE /\ asked = FALSE
  /\ spoiled = FALSE /\ failures = 0

raw_mode == cfg.cmp_mode = CMP_MODE_RAW
HeaderSize == IF raw_mode THEN GENERIC_HEADER_SIZE ELSE NON_IMAGETTE_HEADER_SIZE
SizeField == IF raw_mode THEN 0 ELSE CMP_COLLECTION_FILD_SIZE

compress_chunk(mode, start) ==
  /\ pc = "idle" /\ ~ setting.rdcu /\ reading <= MaxEntities /\ failures <= MaxFailures
  /\ cfg' = init_cmp_cfg_from_cmp_par(mode)
  /\ stamp' = [NoStamp EXCEPT !.start = start]
  /\ dst_size' = IF mode = CMP_MODE_RAW THEN GENERIC_HEADER_SIZE ELSE NON_IMAGETTE_HEADER_SIZE
  /\ read_bytes' = 0 /\ ent' = NoEntity /\ pc' = "collections"
  /\ UNCHANGED <<caller, icu, info, receiver, history>>

\* The compression returns an error.  A model that is its own updated model may
\* have been changed before.
Fails(c, touched) ==
  /\ pc' = "idle" /\ failures' = failures + 1
  /\ spoiled' = (spoiled \/ (touched /\ setting.update = "in_place"
                             /\ model_mode_is_used(c.cmp_mode)))
  /\ UNCHANGED <<caller, receiver>>

AtCollection == pc = "collections" /\ read_bytes < ChunkSize
Col == chunk[read_bytes]
DataType == convert_subservice_to_cmp_data_type(Col.hdr.sub)
Model == At(icu.model, read_bytes, DataType, Len(Col.data))

CollectionRefused ==
  /\ AtCollection
  /\ ~ (GenericValid(cfg) /\ SpecificValid(cfg, DataType) /\ HasModel(cfg, icu))
  /\ Fails(cfg, read_bytes > 0)
  /\ UNCHANGED <<sender, ent>>

Checked == AtCollection /\ GenericValid(cfg) /\ SpecificValid(cfg, DataType)
                        /\ HasModel(cfg, icu)

\* The header of the collection and the samples given are the updated model.
UpdateModel(data) ==
  icu' = IF model_mode_is_used(cfg.cmp_mode)
         THEN Updated(icu, read_bytes, [hdr |-> Col.hdr, data |-> data]) ELSE icu

\* The collection is in dst, and its size in the field before its header.
Finish(words, data, size) ==
  /\ ent' = [ent EXCEPT !.body =
       With(@, dst_size - HeaderSize, [size |-> size, hdr |-> Col.hdr,
                                       words |-> words, data |-> data])]
  /\ dst_size' = dst_size + SizeField + COLLECTION_HDR_SIZE + size
  /\ read_bytes' = read_bytes + COLLECTION_HDR_SIZE + Col.hdr.len
  /\ UNCHANGED <<caller, pc, cfg, stamp, info, receiver, history>>

InEntity == Converted(setting.icu, Col.data, DataType)

RawCollection ==
  /\ Checked /\ raw_mode
  /\ Finish(<<>>, InEntity, Col.hdr.len)
  /\ UNCHANGED icu

Compressed(size) ==
  /\ Checked /\ ~ raw_mode
  /\ Col.hdr.len = 0 \/ (size \in Shorter(Col.hdr.len) /\ size < Col.hdr.len)
  /\ Finish(Encode(cfg, DataType, Col.data, Model), <<>>, size)
  /\ UpdateModel(UpModels(cfg, Col.data, Model))

\* Mutant of StoredRaw: the updated model stays what the encoders made of it.
StoredRawEncoded ==
  /\ Checked /\ ~ raw_mode /\ Col.hdr.len > 0
  /\ Finish(<<>>, InEntity, Col.hdr.len)
  /\ UpdateModel(UpModels(cfg, Col.data, Model))

\* It does not get smaller.
StoredRaw ==
  /\ Checked /\ ~ raw_mode /\ Col.hdr.len > 0
  /\ Finish(<<>>, InEntity, Col.hdr.len)
  /\ UpdateModel(Col.data)

\* What is in the buffer of the updated model.
Outdated == IF setting.update = "in_place" THEN icu.model ELSE icu.updated

\* dst is full: before the header is copied, or behind n samples.
NoRoomForHeader ==
  /\ Checked
  /\ Fails(cfg, read_bytes > 0)
  /\ UNCHANGED <<sender, ent>>

SmallBuffer(n) ==
  /\ Checked /\ n < Len(Col.data)
  /\ UpdateModel([j \in DOMAIN Col.data |->
       IF j <= n THEN UpSample(cfg, Col.data[j], Model[j])
       ELSE At(Outdated, read_bytes, DataType, Len(Col.data))[j]])
  /\ Fails(cfg, TRUE)
  /\ UNCHANGED <<cfg, stamp, dst_size, read_bytes, info, ent>>

\* cmp_ent_build_chunk_header, in the order of its setters.
ChunkHeader ==
  <<cmp_ent_set_version_id(Version), cmp_ent_set_size(dst_size),
    cmp_ent_set_original_size(ChunkSize), cmp_ent_set_data_type("chunk", raw_mode),
    cmp_ent_set_cmp_mode(cfg.cmp_mode), cmp_ent_set_model_value(cfg.model_value),
    cmp_ent_set_model_id(0), cmp_ent_set_model_counter(0), cmp_ent_set_reserved(0),
    cmp_ent_set_lossy_cmp_par(cfg.round)>>
  \o IF raw_mode THEN <<>>
     ELSE [q \in 1 .. 2 * Cardinality(Pair) |->
             LET k == (q + 1) \div 2
             IN  IF q % 2 = 1 THEN cmp_ent_set_non_ima_spill(k, cfg.spill[k])
                 ELSE cmp_ent_set_non_ima_cmp_par(k, cfg.par[k])]

Timestamps(end) == cmp_ent_set_start_timestamp(stamp.start) \o cmp_ent_set_end_timestamp(end)

\* dst is of no use after an error.
HeaderRefused(end) ==
  /\ pc = "collections" /\ read_bytes = ChunkSize
  /\ Refused(ChunkHeader) \/ Refused(Timestamps(end))
  /\ Fails(cfg, TRUE)
  /\ UNCHANGED <<sender, ent>>

cmp_ent_build_chunk_header(end) ==
  /\ pc = "collections" /\ read_bytes = ChunkSize
  /\ ~ Refused(ChunkHeader) /\ ~ Refused(Timestamps(end))
  /\ ent' = [ent EXCEPT !.h = PutAll(ent.h, ChunkHeader \o Timestamps(end))]
  /\ stamp' = [stamp EXCEPT !.end = end]
  /\ pc' = "built"
  /\ UNCHANGED <<caller, icu, cfg, dst_size, read_bytes, info, receiver, history>>

compress_chunk_set_model_id_and_counter(id, counter) ==
  /\ pc = "built" /\ stamp.id = NoStamp.id
  /\ ent' = [ent EXCEPT !.h = PutAll(ent.h, <<cmp_ent_set_model_id(id),
                                             cmp_ent_set_model_counter(counter)>>)]
  /\ stamp' = [stamp EXCEPT !.id = <<id, counter>>]
  /\ UNCHANGED <<caller, pc, icu, cfg, dst_size, read_bytes, info, receiver, history>>

-----------------------------------------------------------------------------
(* compress_like_rdcu(), and the entity of its bitstream *)

RdcuCfg(r) ==
  [cmp_mode |-> r.cmp_mode, model_value |-> r.model_value, round |-> r.round,
   par |-> [ZeroCfg.par EXCEPT ![IMAGETTE] = r.golomb_par],
   spill |-> [ZeroCfg.spill EXCEPT ![IMAGETTE] = r.spill]]

RdcuValid(c) == GenericValid(c) /\ SpecificValid(c, "imagette") /\ HasModel(c, icu)

Input == chunk[0].data
RdcuModel == At(icu.model, 0, "imagette", Len(Input))

\* model_value_used and round_used are bytes.
Info(r, bits, words, data) ==
  [cfg |-> [RdcuCfg(r) EXCEPT !.model_value = r.model_value % 256, !.round = r.round % 256],
   cmp_err |-> 0, cmp_size |-> bits, samples |-> Len(Input),
   words |-> words, data |-> data, rcfg |-> r]

AtInput == pc = "idle" /\ setting.rdcu /\ reading <= MaxEntities /\ failures <= MaxFailures

compress_like_rdcu(r, bits) ==
  LET c == RdcuCfg(r)
      up == [hdr |-> NoHeader, data |-> UpModels(c, Input, RdcuModel)]
  IN  /\ AtInput /\ RdcuValid(c)
      /\ IF c.cmp_mode = CMP_MODE_RAW
         THEN /\ bits = 8 * ChunkSize
              /\ info' = Info(r, bits, <<>>, Converted(setting.icu, Input, "imagette"))
         ELSE info' = Info(r, bits, Encode(c, "imagette", Input, RdcuModel), <<>>)
      /\ icu' = IF model_mode_is_used(c.cmp_mode) THEN Updated(icu, 0, up) ELSE icu
      /\ cfg' = c /\ stamp' = NoStamp /\ ent' = NoEntity /\ pc' = "compressed"
      /\ UNCHANGED <<caller, dst_size, read_bytes, receiver, history>>

compress_like_rdcu_refuses(r) ==
  /\ AtInput /\ ~ RdcuValid(RdcuCfg(r))
  /\ cfg' = RdcuCfg(r)
  /\ info' = Info(r, 0, <<>>, <<>>)
  /\ Fails(RdcuCfg(r), FALSE)
  /\ UNCHANGED <<icu, stamp, dst_size, read_bytes, ent>>

\* The buffer is full behind n samples.
compress_like_rdcu_small_buffer(r, n) ==
  LET c == RdcuCfg(r)
      up == [j \in DOMAIN Input |->
               IF j <= n THEN UpSample(c, Input[j], RdcuModel[j])
               ELSE At(Outdated, 0, "imagette", Len(Input))[j]]
  IN  /\ AtInput /\ RdcuValid(c) /\ n < Len(Input)
      /\ icu' = IF model_mode_is_used(c.cmp_mode)
                THEN Updated(icu, 0, [hdr |-> NoHeader, data |-> up]) ELSE icu
      /\ cfg' = c
      /\ info' = [Info(r, 0, <<>>, <<>>) EXCEPT !.cmp_err = 1]
      /\ Fails(c, TRUE)
      /\ UNCHANGED <<stamp, dst_size, read_bytes, ent>>

BitToByte(bits) == (bits + 7) \div 8

\* cmp_ent_write_rdcu_cmp_pars, in the order of its setters.
RdcuHeader(data_type) ==
  LET r == info.rcfg
  IN  <<cmp_ent_set_original_size(2 * info.samples), cmp_ent_set_cmp_mode(info.cfg.cmp_mode),
        cmp_ent_set_model_value(info.cfg.model_value), cmp_ent_set_reserved(0),
        cmp_ent_set_lossy_cmp_par(info.cfg.round)>>
      \o (IF info.cfg.cmp_mode = CMP_MODE_RAW THEN <<>>
          ELSE <<cmp_ent_set_ima_spill(info.cfg.spill[IMAGETTE]),
                 cmp_ent_set_ima_golomb_par(info.cfg.par[IMAGETTE])>>)
      \o (IF info.cfg.cmp_mode = CMP_MODE_RAW \/ data_type \notin ap_imagettes THEN <<>>
          ELSE <<cmp_ent_set_ima_ap1_spill(r.ap1_spill),
                 cmp_ent_set_ima_ap1_golomb_par(r.ap1_golomb_par),
                 cmp_ent_set_ima_ap2_spill(r.ap2_spill),
                 cmp_ent_set_ima_ap2_golomb_par(r.ap2_golomb_par)>>)

\* The caller creates an entity and copies the bitstream behind its header.  One
\* that is refused is thrown away.
cmp_ent_write_rdcu_cmp_pars(data_type, raw) ==
  LET bytes == BitToByte(info.cmp_size)
      created == cmp_ent_create(data_type, raw, bytes)
  IN  /\ pc = "compressed" /\ info.cmp_err = 0
      /\ data_type \in imagettes
      /\ created.size > 0
      /\ raw = (info.cfg.cmp_mode = CMP_MODE_RAW)
      /\ cmp_ent_get_cmp_data_size(created.h) >= bytes
      /\ ~ Refused(RdcuHeader(data_type))
      /\ ent' = [h |-> PutAll(created.h, RdcuHeader(data_type)),
                 body |-> With(NoBuffer, 0, [size |-> bytes, hdr |-> NoHeader,
                                             words |-> info.words, data |-> info.data])]
      /\ pc' = "built"
      /\ UNCHANGED <<caller, sender, receiver, history>>

-----------------------------------------------------------------------------
(* decompress_cmp_entiy(), decompress_rdcu_data() *)

\* cmp_ent_read_header; pair k of the header is pair k of the configuration.
EntityCfg(h) ==
  LET c == [ZeroCfg EXCEPT !.cmp_mode = cmp_ent_get_cmp_mode(h),
                           !.model_value = cmp_ent_get_model_value(h),
                           !.round = cmp_ent_get_lossy_cmp_par(h)]
  IN  IF c.cmp_mode = CMP_MODE_RAW THEN c
      ELSE IF cmp_ent_get_data_type(h) = "chunk"
      THEN [c EXCEPT !.par = [k \in Pair |-> cmp_ent_get_non_ima_cmp_par(h, k)],
                     !.spill = [k \in Pair |-> cmp_ent_get_non_ima_spill(h, k)]]
      ELSE [c EXCEPT !.par[IMAGETTE] = cmp_ent_get_ima_golomb_par(h),
                     !.spill[IMAGETTE] = cmp_ent_get_ima_spill(h)]

HeaderValid(h) ==
  LET type == cmp_ent_get_data_type(h)
      raw == cmp_ent_get_cmp_mode(h) = CMP_MODE_RAW
      stream_size == cmp_ent_get_cmp_data_size(h)
      org_size == cmp_ent_get_original_size(h)
  IN  /\ type \in imagettes \cup {"chunk"}
      /\ cmp_ent_get_data_type_raw_bit(h) = raw
      /\ GenericValid(EntityCfg(h))
      /\ IF type = "chunk"
         THEN /\ org_size >= COLLECTION_HDR_SIZE
              /\ stream_size >= COLLECTION_HDR_SIZE + IF raw THEN 0 ELSE CMP_COLLECTION_FILD_SIZE
         ELSE org_size % 2 = 0
      /\ IF raw THEN org_size = stream_size
         ELSE cmp_ent_cal_hdr_size(type, raw) <= cmp_ent_get_size(h)

\* Mutant of get_cmp_collection_size: the size field is not counted.
get_cmp_collection_size_fieldless(c) == COLLECTION_HDR_SIZE + c.size

get_cmp_collection_size(c) == CMP_COLLECTION_FILD_SIZE + COLLECTION_HDR_SIZE + c.size

\* The places of the n-th collection, from 0, in the compressed data and in the
\* decompressed, found by walking over those before it.
Place(n) ==
  LET body == ent.body
      at[m \in 0 .. n] ==
        IF m = 0 THEN [p |-> 0, o |-> 0]
        ELSE LET before == at[m - 1]
             IN  IF before.p \notin DOMAIN body THEN before
                 ELSE [p |-> before.p + get_cmp_collection_size(body[before.p]),
                       o |-> before.o + COLLECTION_HDR_SIZE + body[before.p].hdr.len]
  IN  at[n]

\* get_num_of_chunks, 0 if the sizes do not add up.
get_num_of_chunks ==
  LET size == cmp_ent_get_cmp_data_size(ent.h)
      over(n) == Place(n).p >= size - COLLECTION_HDR_SIZE
      most == Cardinality(DOMAIN ent.body)
  IN  IF ~ over(most) \/ Place(most).p # size THEN 0
      ELSE CHOOSE n \in 0 .. most : over(n) /\ \A m \in 0 .. n - 1 : ~ over(m)

decompress_cmp_entiy(null) ==
  /\ pc = "received" /\ ent # NoEntity /\ ~ (null /\ asked)
  /\ null_dst' = null /\ i' = 0
  /\ dcfg' = EntityCfg(ent.h)
  /\ pc' = IF ~ HeaderValid(ent.h) THEN "rejected"
           ELSE IF cmp_ent_get_data_type(ent.h) # "chunk" THEN "rdcu"
           ELSE IF dcfg'.cmp_mode = CMP_MODE_RAW THEN "raw chunk"
           ELSE IF get_num_of_chunks = 0 THEN "rejected" ELSE "chunk"
  /\ UNCHANGED <<caller, sender, ent, ground, asked, history>>

\* A NULL pointer for the data asks for their size.
Return == /\ pc' = IF null_dst THEN "received" ELSE "decompressed"
          /\ asked' = (asked \/ null_dst)

Decompressed(o, col) ==
  IF null_dst THEN ground.data ELSE With(ground.data, o, col)

RawChunk ==
  /\ pc = "raw chunk"
  /\ ground' = [ground EXCEPT !.data =
       IF null_dst THEN ground.data
       ELSE [o \in DOMAIN ent.body |->
               LET c == ent.body[o]
               IN  [hdr |-> c.hdr,
                    data |-> Converted(setting.ground, c.data,
                                       convert_subservice_to_cmp_data_type(c.hdr.sub))]]]
  /\ Return
  /\ UNCHANGED <<caller, sender, ent, dcfg, i, null_dst, history>>

\* parse_cmp_collection returns -1.
Malformed(c, o, data_type) ==
  \/ c.size > c.hdr.len
  \/ size_of_a_sample(data_type) = 0
  \/ c.hdr.len % size_of_a_sample(data_type) # 0
  \/ o + c.hdr.len + COLLECTION_HDR_SIZE > cmp_ent_get_original_size(ent.h)

\* What decompressed_data_internal makes of n samples at an offset.
Decoded(data_type, c, o, n) ==
  Decode(dcfg, data_type, c.words, At(ground.model, o, data_type, n), n)

\* It refuses the configuration, or the stream ends too early.
Undecodable(data_type, c, n) ==
  \/ ~ (GenericValid(dcfg) /\ SpecificValid(dcfg, data_type) /\ HasModel(dcfg, ground))
  \/ ~ null_dst /\ TooShort(data_type, c.words, n)

\* The next collection: copied if it was stored raw, decoded otherwise.  If the
\* data are not asked for, only the copies find their way into a model.
DecompressCollection ==
  LET o == Place(i).o
      c == ent.body[Place(i).p]
      type == convert_subservice_to_cmp_data_type(c.hdr.sub)
      n == c.hdr.len \div size_of_a_sample(type)
      stored == [hdr |-> c.hdr, data |-> Converted(setting.ground, c.data, type)]
      m == At(ground.model, o, type, n)
      decoded == [hdr |-> c.hdr, data |-> Decoded(type, c, o, n)]
      up == [hdr |-> c.hdr, data |-> UpModels(dcfg, decoded.data, m)]
      with(col) == IF model_mode_is_used(dcfg.cmp_mode) THEN Updated(ground, o, col) ELSE ground
  IN  /\ pc = "chunk" /\ i < get_num_of_chunks
      /\ IF Malformed(c, o, type) \/ (c.size < c.hdr.len /\ Undecodable(type, c, n))
         THEN pc' = "rejected" /\ UNCHANGED <<i, ground>>
         ELSE /\ i' = i + 1 /\ UNCHANGED pc
              /\ IF c.size = c.hdr.len
                 THEN ground' = [with(stored) EXCEPT !.data = Decompressed(o, stored)]
                 ELSE IF null_dst THEN UNCHANGED ground
                 ELSE ground' = [with(up) EXCEPT !.data = Decompressed(o, decoded)]
      /\ UNCHANGED <<caller, sender, ent, dcfg, null_dst, asked, history>>

ChunkDecompressed ==
  /\ pc = "chunk" /\ i = get_num_of_chunks
  /\ Return
  /\ UNCHANGED <<caller, sender, ent, ground, dcfg, i, null_dst, history>>

\* A bitstream of the RDCU: words or data in c, n samples.
FromRdcu(c, n) ==
  LET decoded == [hdr |-> NoHeader, data |-> Decoded("imagette", c, 0, n)]
      m == At(ground.model, 0, "imagette", n)
      up == [hdr |-> NoHeader, data |-> UpModels(dcfg, decoded.data, m)]
      stored == [hdr |-> NoHeader, data |-> Converted(setting.ground, c.data, "imagette")]
      with == IF model_mode_is_used(dcfg.cmp_mode) THEN Updated(ground, 0, up) ELSE ground
  IN  IF dcfg.cmp_mode = CMP_MODE_RAW
      THEN Return /\ ground' = [ground EXCEPT !.data = Decompressed(0, stored)]
      ELSE IF Undecodable("imagette", c, n) THEN pc' = "rejected" /\ UNCHANGED <<ground, asked>>
      ELSE /\ Return
           /\ IF null_dst THEN UNCHANGED ground
              ELSE ground' = [with EXCEPT !.data = Decompressed(0, decoded)]

DecompressRdcuEntity ==
  /\ pc = "rdcu"
  /\ FromRdcu(ent.body[0], cmp_ent_get_original_size(ent.h) \div 2)
  /\ UNCHANGED <<caller, sender, ent, dcfg, i, null_dst, history>>

\* decompress_rdcu_data takes the configuration from the info.
decompress_rdcu_data(null) ==
  /\ pc = "received" /\ ent = NoEntity /\ ~ (null /\ asked)
  /\ null_dst' = null /\ i' = 0
  /\ dcfg' = info.cfg
  /\ pc' = IF info.cmp_err # 0 THEN "rejected" ELSE "rdcu data"
  /\ UNCHANGED <<caller, sender, ent, ground, asked, history>>

DecompressRdcuData ==
  /\ pc = "rdcu data"
  /\ FromRdcu([words |-> info.words, data |-> info.data], info.samples)
  /\ UNCHANGED <<caller, sender, ent, dcfg, i, null_dst, history>>

-----------------------------------------------------------------------------
(* The callers *)

\* What the ground will have of the data.
Lossy(c, buffer) ==
  IF c.cmp_mode = CMP_MODE_RAW \/ c.round = 0 THEN buffer
  ELSE [o \in DOMAIN buffer |->
          [hdr |-> buffer[o].hdr,
           data |-> [j \in DOMAIN buffer[o].data |->
                       [f \in DOMAIN buffer[o].data[j] |->
                          RoundInv(c, RoundFwd(c, buffer[o].data[j][f]))]]]]

\* The model of the next entity: the updated one, or the data of an entity that
\* needed no model.
NextModel(side, c, data) ==
  IF ~ model_mode_is_used(c.cmp_mode) THEN [side EXCEPT !.model = data]
  ELSE IF setting.update = "separate" THEN [side EXCEPT !.model = side.updated]
  ELSE side

\* The entity goes to the ground, or the bitstream of the RDCU and its info.
Send ==
  /\ pc \in {"built", "compressed"}
  /\ pc' = "received"
  /\ icu' = NextModel(icu, cfg, Lossy(cfg, chunk))
  /\ spoiled' = (spoiled /\ model_mode_is_used(cfg.cmp_mode))
  /\ asked' = FALSE
  /\ UNCHANGED <<caller, cfg, stamp, dst_size, read_bytes, info, ent,
                 ground, dcfg, i, null_dst, failures>>

\* The ground is done with it, and what was local to the calls is gone.
NextChunk ==
  /\ pc = "decompressed"
  /\ pc' = "idle" /\ reading' = reading + 1 /\ chunk' = Chunk(reading + 1)
  /\ ground' = [NextModel(ground, dcfg, ground.data) EXCEPT !.data = NoBuffer]
  /\ cfg' = ZeroCfg /\ stamp' = NoStamp /\ dst_size' = 0 /\ read_bytes' = 0
  /\ info' = NoInfo /\ ent' = NoEntity
  /\ dcfg' = ZeroCfg /\ i' = 0 /\ null_dst' = FALSE /\ asked' = FALSE
  /\ UNCHANGED <<setting, icu, history>>

\* The bounds are reached.
Stop ==
  /\ pc = "idle" /\ (reading > MaxEntities \/ failures > MaxFailures)
  /\ UNCHANGED vars

-----------------------------------------------------------------------------
Compression ==
  \/ \E mode \in CmpMode, start \in Stamps : compress_chunk(mode, start)
  \/ CollectionRefused \/ RawCollection \/ StoredRaw \/ NoRoomForHeader
  \/ AtCollection /\ \E size \in 0 .. Col.hdr.len : Compressed(size)
  \/ AtCollection /\ \E n \in 0 .. Len(Col.data) - 1 : SmallBuffer(n)
  \/ \E end \in Stamps : HeaderRefused(end) \/ cmp_ent_build_chunk_header(end)
  \/ \E id \in Ids : compress_chunk_set_model_id_and_counter(id[1], id[2])

RdcuCompression ==
  \/ \E r \in RdcuConfigs, size \in 0 .. ChunkSize :
       size \in Shorter(ChunkSize) \cup {ChunkSize} /\ compress_like_rdcu(r, 8 * size)
  \/ \E r \in RdcuConfigs : compress_like_rdcu_refuses(r)
  \/ \E r \in RdcuConfigs, n \in 0 .. 1 : compress_like_rdcu_small_buffer(r, n)
  \/ \E type \in imagettes, raw \in BOOLEAN : cmp_ent_write_rdcu_cmp_pars(type, raw)

Decompression ==
  \/ \E null \in BOOLEAN : decompress_cmp_entiy(null) \/ decompress_rdcu_data(null)
  \/ RawChunk \/ DecompressCollection \/ ChunkDecompressed
  \/ DecompressRdcuEntity \/ DecompressRdcuData

Next == Compression \/ RdcuCompression \/ Decompression \/ Send \/ NextChunk \/ Stop

Spec == Init /\ [][Next]_vars
-----------------------------------------------------------------------------
(* Correctness *)

\* The two sides are a DataLink: what the ground decompresses is what was
\* compressed, headers and byte order of the values included, but for the bits
\* the lossy compression gives up; for every mix of collections coded and stored
\* raw, entity after entity, for CPUs of either byte order.
InTransit == pc \in {"received", "chunk", "raw chunk", "rdcu", "rdcu data", "rejected"}
Delivered == pc = "decompressed"
Link == INSTANCE DataLink WITH
  Nothing <- NoBuffer,
  n <- reading,
  place <- IF InTransit THEN "transit" ELSE IF Delivered THEN "ground" ELSE "instrument",
  sent <- IF InTransit \/ Delivered THEN Lossy(cfg, chunk) ELSE NoBuffer,
  got <- IF Delivered THEN ground.data ELSE NoBuffer,
  trusted <- ~ spoiled
Delivers == Link!Spec

\* Every entity the instrument builds is taken by the decompressor.
Accepted == pc # "rejected"

\* When the next entity begins both sides have the same model, also when the
\* ground asked for the size before, and a collection was stored raw on one side.
ModelsAgree == pc = "idle" /\ ~ spoiled => icu.model = ground.model

\* The getters return what the setters were given, no field covers a part of
\* another, the header leaves the data behind it alone, and all of it but the
\* spare bytes of a chunk's is written.
GenericKept ==
  /\ cmp_ent_get_cmp_mode(ent.h) = cfg.cmp_mode
  /\ cmp_ent_get_model_value(ent.h) = cfg.model_value % 256
  /\ cmp_ent_get_lossy_cmp_par(ent.h) = cfg.round
  /\ cmp_ent_get_original_size(ent.h) = ChunkSize
  /\ cmp_ent_get_reserved(ent.h) = 0
  /\ <<cmp_ent_get_model_id(ent.h), cmp_ent_get_model_counter(ent.h)>> = stamp.id
  /\ cmp_ent_get_data_type_raw_bit(ent.h) = raw_mode

ChunkHeaderKept ==
  /\ cmp_ent_get_data_type(ent.h) = "chunk"
  /\ cmp_ent_get_version_id(ent.h) = Version
  /\ cmp_ent_get_size(ent.h) = dst_size
  /\ cmp_ent_get_start_timestamp(ent.h) = stamp.start
  /\ cmp_ent_get_end_timestamp(ent.h) = stamp.end
  /\ ~ raw_mode => \A k \in Pair :
       /\ cmp_ent_get_non_ima_spill(ent.h, k) = cfg.spill[k]
       /\ cmp_ent_get_non_ima_cmp_par(ent.h, k) = cfg.par[k]
  /\ DOMAIN ent.h = IF raw_mode THEN 0 .. 31 ELSE 0 .. 61

RdcuHeaderKept ==
  /\ cmp_ent_get_data_type(ent.h) \in imagettes
  /\ cmp_ent_get_cmp_data_size(ent.h) = BitToByte(info.cmp_size)
  /\ ~ raw_mode =>
       /\ cmp_ent_get_ima_spill(ent.h) = cfg.spill[IMAGETTE]
       /\ cmp_ent_get_ima_golomb_par(ent.h) = cfg.par[IMAGETTE]
  /\ ~ raw_mode /\ cmp_ent_get_data_type(ent.h) \in ap_imagettes =>
       /\ cmp_ent_get_ima_ap1_spill(ent.h) = info.rcfg.ap1_spill
       /\ cmp_ent_get_ima_ap1_golomb_par(ent.h) = info.rcfg.ap1_golomb_par
       /\ cmp_ent_get_ima_ap2_spill(ent.h) = info.rcfg.ap2_spill
       /\ cmp_ent_get_ima_ap2_golomb_par(ent.h) = info.rcfg.ap2_golomb_par
  /\ DOMAIN ent.h = 0 .. cmp_ent_get_hdr_size(ent.h) - 1

HeaderKept ==
  pc = "built" => GenericKept /\ IF setting.rdcu THEN RdcuHeaderKept ELSE ChunkHeaderKept

\* No sample is coded with parameters nobody checked: a code word of a parameter
\* 0 or a spillover threshold beyond the longest code word is undefined in the
\* encoders, and the checks look only at the pairs the data type needs.
ParsChecked ==
  \A o \in DOMAIN ent.body : \A q \in DOMAIN ent.body[o].words :
    LET w == ent.body[o].words[q].setup IN ParsAreValid(w.par, w.spill)
=============================================================================
