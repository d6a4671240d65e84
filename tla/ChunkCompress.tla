--------------------------- MODULE ChunkCompress ---------------------------
(***************************************************************************)
(* compress_chunk() of the software compressor (lib/icu_compress/          *)
(* cmp_icu.c): the collections of a chunk are compressed one after another *)
(* into a buffer of limited capacity; a collection that does not get       *)
(* smaller is stored raw; with dst = NULL only the size is computed.       *)
(*                                                                         *)
(* What the encoders do to a collection is reduced to the number of bits   *)
(* they put into the bitstream: MAX_USED_BITS are the widths of the fields *)
(* themselves and the spillover thresholds keep code words below 33 bits,  *)
(* so they fail only for lack of space.  Pointers are valid; sizes are in  *)
(* bytes.                                                                  *)
(***************************************************************************)
EXTENDS Integers, Sequences

CONSTANTS Chunks,    \* chunks a caller may pass, see ChunkType
          Cost,      \* numbers of bits an encoder may put for a collection
          Capacity,  \* sizes of dst
          Modes,     \* compression modes, a subset of Mode
          Updates,   \* where the updated model goes, a subset of Update
          Unknown,   \* CHUNK_TYPE_UNKNOWN
          BadClock,  \* whether get_timestamp() may exceed 48 bits
          CMP_ENTITY_MAX_SIZE, UINT16_MAX

Mode == {"raw", "diff", "model"}
Update == {"none", "separate", "in_place"}

GENERIC_HEADER_SIZE == 32
NON_IMAGETTE_HEADER_SIZE == 64
COLLECTION_HDR_SIZE == 12
CMP_COLLECTION_FILD_SIZE == 2

\* Error codes are the largest values of a uint32_t, negative numbers here.
NO_ERROR == 0
SMALL_BUFFER == -2
PAR_GENERIC == -20
PAR_SPECIFIC == -21
PAR_BUFFERS == -22
PAR_NO_MODEL == -25
CHUNK_TOO_LARGE == -41
CHUNK_SIZE_INCONSISTENT == -43
CHUNK_SUBSERVICE_INCONSISTENT == -44
COL_SUBSERVICE_UNSUPPORTED == -60
COL_SIZE_INCONSISTENT == -61
ENTITY_HEADER == -82
ENTITY_TIMESTAMP == -83
INT_CMP_COL_TOO_LARGE == -102

IsError(code) == code < 0

\* What the checks of one collection and of its configuration may return.
Check == {NO_ERROR, COL_SIZE_INCONSISTENT, PAR_GENERIC, PAR_SPECIFIC,
          PAR_BUFFERS, PAR_NO_MODEL}

(***************************************************************************)
(* A chunk of size bytes and the collections a walk through its headers    *)
(* meets while it reads no header beyond the end: offset off[k], data      *)
(* length len[k], chunk type and outcome of the checks.                    *)
(***************************************************************************)
ChunkType(c) ==
  /\ c.size \in Nat /\ c.n \in Nat
  /\ c.off \in [1 .. c.n + 1 -> Nat]
  /\ c.len \in [1 .. c.n -> 0 .. UINT16_MAX]
  /\ DOMAIN c.type = 1 .. c.n
  /\ c.check \in [1 .. c.n -> Check]
  /\ c.off[1] = 0
  /\ \A k \in 1 .. c.n :
       /\ c.off[k + 1] = c.off[k] + COLLECTION_HDR_SIZE + c.len[k]
       /\ c.off[k] <= c.size - COLLECTION_HDR_SIZE
  /\ c.off[c.n + 1] > c.size - COLLECTION_HDR_SIZE

ASSUME ChunkAssumption == \A c \in Chunks : ChunkType(c)
ASSUME SizeAssumption ==
  /\ CMP_ENTITY_MAX_SIZE \in Nat /\ UINT16_MAX \in Nat
  /\ Cost \subseteq Nat /\ Capacity \subseteq Nat
ASSUME UseAssumption ==
  Modes \subseteq Mode /\ Updates \subseteq Update /\ BadClock \in BOOLEAN

VARIABLES chunk,     \* the chunk
          mode,      \* par->cmp_mode
          update,    \* updated_chunk_model: NULL, its own buffer, or the model's
          fits,      \* whether the parameters that no check looks at fit the header
          cost,      \* bits the collections take against their present model
          pc,        \* where compress_chunk() is
          query,     \* dst = NULL
          capacity,  \* dst_capacity
          k,         \* the next collection
          dst_size,  \* bytes of dst used
          high,      \* history: end of the part of dst that was written
          out,       \* history: the collections as they lie in dst
          up,        \* history: what the call made of the updated model
          result,    \* returned by the last call, NO_ERROR before the first
          asked      \* history: returned by the last call with dst = NULL

input == <<chunk, mode, update, fits>>
args == <<query, capacity>>
vars == <<input, cost, pc, args, k, dst_size, high, out, up, result, asked>>

Index == 1 .. chunk.n
ModelMode == mode = "model"
InPlace == ModelMode /\ update = "in_place"

Stored == [begin : Nat, field : Nat, raw : BOOLEAN]

InputType ==
  /\ chunk \in Chunks /\ mode \in Modes /\ update \in Updates /\ fits \in BOOLEAN
  /\ cost \in [Index -> Cost]

CallType ==
  /\ pc \in {"idle", "collections", "header"}
  /\ query \in BOOLEAN /\ capacity \in Capacity \cup {0}
  /\ result \in Int /\ asked \in Int

BufferType ==
  /\ k \in 1 .. chunk.n + 1
  /\ dst_size \in Nat /\ high \in Nat
  /\ out \in Seq(Stored)
  /\ up \in [Index -> {"kept", "partial", "encoded", "copied"}]

TypeOK == InputType /\ CallType /\ BufferType

Init ==
  /\ chunk \in Chunks /\ mode \in Modes
  /\ update \in Updates /\ (update # "none" => ModelMode)
  /\ fits \in BOOLEAN
  /\ cost \in [Index -> Cost]
  /\ pc = "idle" /\ query = TRUE /\ capacity = 0 /\ k = 1
  /\ dst_size = 0 /\ high = 0 /\ out = <<>>
  /\ up = [i \in Index |-> "kept"]
  /\ result = NO_ERROR /\ asked = NO_ERROR

-----------------------------------------------------------------------------
(* Sizes *)

RoundUp4(x) == ((x + 3) \div 4) * 4

MaxOf(x, y) == IF x >= y THEN x ELSE y

\* cmp_stream_size_to_bits: only whole 32-bit words of the buffer are used.
StreamBits(stream_size) == (stream_size \div 4) * 32

BitToByte(bits) == (bits + 7) \div 8

\* cmp_ent_build_chunk_header with entity = NULL
HeaderSize == IF mode = "raw" THEN GENERIC_HEADER_SIZE ELSE NON_IMAGETTE_HEADER_SIZE

\* Mutant of Bound: the size fields are forgotten.
BoundNoFields(c) ==
  IF c.size < COLLECTION_HDR_SIZE \/ c.off[c.n + 1] # c.size THEN CHUNK_SIZE_INCONSISTENT
  ELSE RoundUp4(NON_IMAGETTE_HEADER_SIZE + c.size)

\* compress_chunk_cmp_size_bound
Bound(c) ==
  LET bound == RoundUp4(NON_IMAGETTE_HEADER_SIZE + c.n * CMP_COLLECTION_FILD_SIZE + c.size)
  IN  IF c.size < COLLECTION_HDR_SIZE THEN CHUNK_SIZE_INCONSISTENT
      ELSE IF c.size > CMP_ENTITY_MAX_SIZE - NON_IMAGETTE_HEADER_SIZE
                       - CMP_COLLECTION_FILD_SIZE THEN CHUNK_TOO_LARGE
      ELSE IF c.off[c.n + 1] # c.size THEN CHUNK_SIZE_INCONSISTENT
      ELSE IF bound > CMP_ENTITY_MAX_SIZE THEN CHUNK_TOO_LARGE
      ELSE bound

-----------------------------------------------------------------------------
(* compress_data_internal for collection k: it returns the length of the   *)
(* bitstream in bits, or an error.  put_n_bits32 does not look at the      *)
(* length of the buffer when there is none.                                *)

Encode(start, stream_size) ==
  LET end == 8 * start + cost[k]
  IN  IF chunk.len[k] = 0 THEN 8 * start
      ELSE IF ~ query /\ end > StreamBits(stream_size) THEN SMALL_BUFFER
      ELSE end

\* Mutant of Copy: a length in bytes where one in bits is due.
CopyBytes(start, stream_size) ==
  IF chunk.len[k] > 0 /\ ~ query /\ start + chunk.len[k] > stream_size
  THEN SMALL_BUFFER
  ELSE start + chunk.len[k]

Copy(start, stream_size) ==
  IF chunk.len[k] > 0 /\ ~ query /\ start + chunk.len[k] > stream_size
  THEN SMALL_BUFFER
  ELSE 8 * (start + chunk.len[k])

\* How far the encoders write: whole words, the last one padded, and no word
\* beyond the end of the stream when they run out of space.
EncodedHigh(start, stream_size) ==
  IF chunk.len[k] = 0 THEN start
  ELSE LET end == RoundUp4(BitToByte(8 * start + cost[k]))
           limit == StreamBits(stream_size) \div 8
       IN  IF end <= limit THEN end ELSE limit

\* Mutant of Incompressible: a query does not compare the length.
IncompressibleByError(bits, stream_size) == bits = SMALL_BUFFER

\* The encoders ran out of space, or would have, had there been a buffer.
Incompressible(bits, stream_size) ==
  \/ bits = SMALL_BUFFER
  \/ query /\ bits > StreamBits(stream_size)

-----------------------------------------------------------------------------
(* The calls *)

Return(r, q) ==
  /\ pc' = "idle"
  /\ result' = r
  /\ asked' = IF q THEN r ELSE asked

\* The checks before the first collection.
EntryError(q, cap) ==
  IF chunk.size < COLLECTION_HDR_SIZE THEN CHUNK_SIZE_INCONSISTENT
  ELSE IF chunk.size > CMP_ENTITY_MAX_SIZE THEN CHUNK_TOO_LARGE
  ELSE IF chunk.type[1] = Unknown THEN COL_SUBSERVICE_UNSUPPORTED
  ELSE IF ~ q /\ cap < HeaderSize THEN SMALL_BUFFER
  ELSE NO_ERROR

CompressChunk(q, cap) ==
  /\ pc = "idle"
  /\ query' = q /\ capacity' = cap
  /\ k' = 1 /\ dst_size' = HeaderSize /\ high' = 0 /\ out' = <<>>
  /\ up' = [i \in Index |-> "kept"]
  /\ IF EntryError(q, cap) = NO_ERROR
     THEN pc' = "collections" /\ UNCHANGED <<result, asked>>
     ELSE Return(EntryError(q, cap), q)
  /\ UNCHANGED <<input, cost>>

\* Mutant of ModelUpdate: the data of a collection stored raw are not copied.
ModelUpdateNoCopy(how) ==
  /\ up' = IF ModelMode /\ update # "none" /\ chunk.len[k] > 0
           THEN [up EXCEPT ![k] = IF how = "copied" THEN "partial" ELSE how] ELSE up
  /\ UNCHANGED cost

\* The model of collection k is about to be read: what is encoded against an
\* updated model is not known.
ModelUpdate(how) ==
  /\ up' = IF ModelMode /\ update # "none" /\ chunk.len[k] > 0
           THEN [up EXCEPT ![k] = how] ELSE up
  /\ IF InPlace /\ chunk.len[k] > 0
     THEN \E c \in Cost : cost' = [cost EXCEPT ![k] = c]
     ELSE UNCHANGED cost

Fails(code) ==
  /\ Return(code, query)
  /\ UNCHANGED <<input, args, k, dst_size, out>>

Refuses(code) == Fails(code) /\ UNCHANGED <<cost, high, up>>

AtCollection == pc = "collections" /\ k \in Index

OtherType ==
  /\ AtCollection
  /\ chunk.type[k] # chunk.type[1]
  /\ Refuses(CHUNK_SUBSERVICE_INCONSISTENT)

\* The collection ends behind the chunk, or there are too few bytes left for
\* another one.
LastCollection ==
  /\ pc = "collections"
  /\ k \in Index => /\ chunk.type[k] = chunk.type[1]
                    /\ chunk.off[k + 1] > chunk.size
  /\ pc' = "header"
  /\ UNCHANGED <<input, cost, args, k, dst_size, high, out, up, result, asked>>

Whole == /\ AtCollection
         /\ chunk.type[k] = chunk.type[1]
         /\ chunk.off[k + 1] <= chunk.size

FailsCheck ==
  /\ Whole
  /\ chunk.check[k] # NO_ERROR
  /\ Refuses(chunk.check[k])

\* Begin of the data: behind the size field, if there is one, and the header.
Start == dst_size + COLLECTION_HDR_SIZE + IF mode = "raw" THEN 0 ELSE CMP_COLLECTION_FILD_SIZE

NoRoomForHeader ==
  /\ Whole
  /\ chunk.check[k] = NO_ERROR
  /\ ~ query /\ Start > capacity
  /\ Refuses(SMALL_BUFFER)

\* Mutant of HeaderCopied: the capacity is not checked.
HeaderCopiedBlindly ==
  /\ Whole
  /\ chunk.check[k] = NO_ERROR

HeaderCopied ==
  /\ Whole
  /\ chunk.check[k] = NO_ERROR
  /\ query \/ Start <= capacity

Wrote(end) == high' = IF query THEN 0 ELSE MaxOf(MaxOf(high, Start), end)

\* cmp_collection ends: the size of the data goes into the field before the
\* header.  A field that cannot hold it is an error.
Finish(bits, raw) ==
  LET field == BitToByte(bits) - Start
  IN  IF mode # "raw" /\ ~ query /\ field > UINT16_MAX
      THEN Fails(INT_CMP_COL_TOO_LARGE)
      ELSE /\ dst_size' = BitToByte(bits)
           /\ out' = Append(out, [begin |-> dst_size, field |-> field, raw |-> raw])
           /\ k' = k + 1
           /\ UNCHANGED <<input, args, pc, result, asked>>

\* Raw mode.
RawCollection ==
  /\ HeaderCopied /\ mode = "raw"
  /\ LET bits == Copy(Start, capacity)
     IN  IF IsError(bits)
         THEN Fails(bits) /\ Wrote(Start)
         ELSE Finish(bits, TRUE) /\ Wrote(Start + chunk.len[k])
  /\ UNCHANGED <<cost, up>>

\* Mutant of Less: the encoders get as many bytes as the raw data take.
LessOrEqual == Start + chunk.len[k]

\* dst can hold the raw data: the encoders get one byte less than that.
Roomy == mode # "raw" /\ (query \/ capacity >= Start + chunk.len[k])
Less == Start + chunk.len[k] - 1

Compressed ==
  /\ HeaderCopied /\ Roomy
  /\ LET bits == Encode(Start, Less)
     IN  /\ ~ Incompressible(bits, Less)
         /\ Wrote(EncodedHigh(Start, Less))
         /\ IF IsError(bits)
            THEN Fails(bits) /\ ModelUpdate("partial")
            ELSE Finish(bits, FALSE) /\ ModelUpdate("encoded")

\* It does not get smaller: stored raw, and the data become the new model.
StoredRaw ==
  /\ HeaderCopied /\ Roomy
  /\ Incompressible(Encode(Start, Less), Less)
  /\ LET bits == Copy(Start, Start + chunk.len[k])
     IN  IF IsError(bits)
         THEN Fails(bits) /\ Wrote(EncodedHigh(Start, Less)) /\ ModelUpdate("partial")
         ELSE /\ Finish(bits, TRUE)
              /\ Wrote(Start + chunk.len[k])
              /\ ModelUpdate("copied")

\* dst cannot hold the raw data: the encoders get what is left.
Tight ==
  /\ HeaderCopied /\ mode # "raw" /\ ~ Roomy
  /\ LET bits == Encode(Start, capacity)
     IN  /\ Wrote(EncodedHigh(Start, capacity))
         /\ IF IsError(bits)
            THEN Fails(bits) /\ ModelUpdate("partial")
            ELSE Finish(bits, FALSE) /\ ModelUpdate("encoded")

\* cmp_ent_build_chunk_header with a buffer: a setter refuses what does not fit its
\* field.  That is the size of the entity, a model value above 255 (checked in model
\* mode only) or a parameter above 65535 of a pair no data type of the chunk uses.
HeaderRefused == dst_size > CMP_ENTITY_MAX_SIZE \/ ~ fits

\* The walk did not end at the end of the chunk, or the entity header is built.
BuildHeader ==
  /\ pc = "header"
  /\ \/ /\ chunk.off[k] # chunk.size
        /\ Return(CHUNK_SIZE_INCONSISTENT, query)
        /\ UNCHANGED high
     \/ /\ chunk.off[k] = chunk.size
        /\ query
        /\ Return(dst_size, query)
        /\ UNCHANGED high
     \/ /\ chunk.off[k] = chunk.size
        /\ ~ query
        /\ \/ HeaderRefused /\ Return(ENTITY_HEADER, query)
           \/ ~ HeaderRefused /\ BadClock /\ Return(ENTITY_TIMESTAMP, query)
           \/ ~ HeaderRefused /\ Return(dst_size, query)
        /\ high' = MaxOf(high, HeaderSize)
  /\ UNCHANGED <<input, cost, args, k, dst_size, out, up>>

Collection == OtherType \/ FailsCheck \/ NoRoomForHeader \/ RawCollection
              \/ Compressed \/ StoredRaw \/ Tight

Next ==
  \/ CompressChunk(TRUE, 0)
  \/ \E cap \in Capacity : CompressChunk(FALSE, cap)
  \/ Collection \/ LastCollection \/ BuildHeader

Spec == Init /\ [][Next]_vars
-----------------------------------------------------------------------------
(* Correctness *)

Done == pc = "idle" /\ result # NO_ERROR
Success == Done /\ ~ query /\ result > 0

\* A buffer of compress_chunk_cmp_size_bound() bytes is never too small ("it
\* eliminates one potential failure scenario"), no collection outgrows its size
\* field, and the entity outgrows its header only by a parameter that no check has
\* looked at, never by its size.
BoundSuffices ==
  Done /\ ~ query /\ Bound(chunk) > 0 /\ capacity >= Bound(chunk) =>
    /\ result \notin {SMALL_BUFFER, INT_CMP_COL_TOO_LARGE}
    /\ fits => result # ENTITY_HEADER
    /\ result <= Bound(chunk)

\* No call writes behind the dst_capacity bytes of dst, padding included, and
\* the bytes of the entity returned were all inside what it wrote.
NoOverrun == high <= capacity /\ (Success => result <= high)

\* What only a call with a buffer can return: too little space, a value that does not
\* fit the header, a bad time.
OfTheBuffer == {SMALL_BUFFER, ENTITY_HEADER, ENTITY_TIMESTAMP}

\* What is returned for dst = NULL is what the compression of the same chunk returns:
\* the same error, unless dst is too small for as much as that; the same size, unless
\* the call fails by its buffer, and with that size (in whole words) it does not
\* lack space.  With an in-place model the query has changed what is encoded, and
\* only that the call is accepted is the same.
QueryExact ==
  Done /\ ~ query =>
    /\ asked < 0 => result \in {asked, SMALL_BUFFER}
    /\ asked > 0 => result > 0 \/ result \in OfTheBuffer
    /\ asked > 0 /\ ~ InPlace =>
         /\ result \in {asked} \cup OfTheBuffer
         /\ capacity >= RoundUp4(asked) => result # SMALL_BUFFER
         /\ result = ENTITY_HEADER => ~ fits \/ asked > CMP_ENTITY_MAX_SIZE

\* The decompressor finds every collection from the size fields alone, and it
\* takes a collection for raw exactly when its field is the original length.
EndOf(i) == out[i].begin + COLLECTION_HDR_SIZE + out[i].field
            + IF mode = "raw" THEN 0 ELSE CMP_COLLECTION_FILD_SIZE
Parseable ==
  Success =>
    /\ Len(out) = chunk.n
    /\ \A i \in Index :
         /\ out[i].begin = IF i = 1 THEN HeaderSize ELSE EndOf(i - 1)
         /\ out[i].field <= chunk.len[i]
         /\ chunk.len[i] > 0 => (out[i].raw <=> out[i].field = chunk.len[i])
    /\ result = EndOf(chunk.n)

\* After a success the updated model is what the decompressor will make of the
\* entity: the data of a collection stored raw, the updated model of the others.
ModelTracks ==
  Success /\ ModelMode /\ update # "none" =>
    \A i \in Index : chunk.len[i] > 0 =>
      up[i] = IF out[i].field = chunk.len[i] THEN "copied" ELSE "encoded"

\* "can be NULL to only get the compressed data size": such a call leaves the
\* model as it is.
QueryReadsOnly == [][pc = "collections" /\ query => cost' = cost]_vars
=============================================================================
