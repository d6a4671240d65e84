------------------------ MODULE ChunkCompressProofs ------------------------
(***************************************************************************)
(* Proofs about ChunkCompress for chunks of any number of collections of   *)
(* any length, any capacity and any encoding costs.                        *)
(***************************************************************************)
EXTENDS ChunkCompress, TLAPS

\* The outcome of every check is NO_ERROR or an error that has nothing to do
\* with the size of dst.
LEMMA CheckCodes ==
  ASSUME NEW c \in Check
  PROVE  /\ c \in Int /\ c <= 0
         /\ c \notin {SMALL_BUFFER, ENTITY_HEADER, INT_CMP_COL_TOO_LARGE}
  BY DEF Check, NO_ERROR, SMALL_BUFFER, ENTITY_HEADER, INT_CMP_COL_TOO_LARGE,
         COL_SIZE_INCONSISTENT, PAR_GENERIC, PAR_SPECIFIC, PAR_BUFFERS, PAR_NO_MODEL

\* cmp_stream_size_to_bits and cmp_bit_to_byte: a stream that fits into the
\* whole words of a buffer fits into the buffer, with its padding.
LEMMA StreamFits ==
  ASSUME NEW s \in Nat, NEW bits \in Nat
  PROVE  /\ StreamBits(s) \in Nat
         /\ StreamBits(s) \div 8 \in Nat
         /\ StreamBits(s) \div 8 <= s
         /\ bits <= StreamBits(s) => BitToByte(bits) <= s
         /\ bits <= StreamBits(s) => BitToByte(bits) <= StreamBits(s) \div 8
  BY DEF StreamBits, BitToByte

\* Lengths are no errors.
LEMMA NoError == \A bits \in Nat : ~ IsError(bits)
  BY DEF IsError

\* Rounding a number of bits up to bytes.
LEMMA Bytes ==
  ASSUME NEW x \in Nat, NEW y \in Nat
  PROVE  /\ BitToByte(8 * x) = x
         /\ BitToByte(8 * x + y) \in Nat
         /\ BitToByte(8 * x + y) >= x
  BY DEF BitToByte

\* Rounding up to whole words does not make a size smaller.
LEMMA RoundsUp ==
  ASSUME NEW x \in Nat
  PROVE  RoundUp4(x) \in Nat /\ RoundUp4(x) >= x
  BY DEF RoundUp4

-----------------------------------------------------------------------------
(* What a chunk is, and what one collection does to the buffer *)

\* What is known of the chunk and of its collection k.
LEMMA ChunkFacts ==
  ASSUME InputType
  PROVE  /\ chunk.size \in Nat /\ chunk.n \in Nat
         /\ \A i \in 1 .. chunk.n + 1 : chunk.off[i] \in Nat
         /\ \A i \in Index : /\ chunk.len[i] \in Nat /\ chunk.len[i] <= UINT16_MAX
                             /\ chunk.check[i] \in Check
                             /\ chunk.off[i + 1] = chunk.off[i] + COLLECTION_HDR_SIZE + chunk.len[i]
         /\ chunk.off[1] = 0
         /\ UINT16_MAX \in Nat /\ CMP_ENTITY_MAX_SIZE \in Nat
<1>1. ChunkType(chunk)
  BY ChunkAssumption DEF InputType
<1>2. UINT16_MAX \in Nat /\ CMP_ENTITY_MAX_SIZE \in Nat
  BY SizeAssumption
<1>3. /\ chunk.size \in Nat /\ chunk.n \in Nat
      /\ chunk.off \in [1 .. chunk.n + 1 -> Nat]
      /\ chunk.off[1] = 0
  BY <1>1 DEF ChunkType
<1>4. ASSUME NEW i \in Index
      PROVE  chunk.off[i + 1] = chunk.off[i] + COLLECTION_HDR_SIZE + chunk.len[i]
  BY <1>1, <1>4 DEF ChunkType, Index
<1>5. ASSUME NEW i \in Index PROVE chunk.len[i] \in 0 .. UINT16_MAX
  BY <1>1, <1>5 DEF ChunkType, Index
<1>6. ASSUME NEW i \in Index PROVE chunk.check[i] \in Check
  BY <1>1, <1>6 DEF ChunkType, Index
<1>7. ASSUME NEW i \in 1 .. chunk.n + 1 PROVE chunk.off[i] \in Nat
  BY <1>3, <1>7
<1> QED
  BY <1>2, <1>3, <1>4, <1>5, <1>6, <1>7

\* Begin of the data of collection k.
LEMMA StartFacts ==
  ASSUME TypeOK, k \in Index
  PROVE  /\ Start \in Nat /\ Start >= dst_size + COLLECTION_HDR_SIZE
         /\ Start <= dst_size + COLLECTION_HDR_SIZE + CMP_COLLECTION_FILD_SIZE
         /\ mode # "raw" => Start = dst_size + COLLECTION_HDR_SIZE + CMP_COLLECTION_FILD_SIZE
         /\ chunk.len[k] \in Nat /\ cost[k] \in Nat /\ capacity \in Nat
<1>1. chunk.len[k] \in Nat /\ capacity \in Nat /\ cost[k] \in Nat
  <2>1. chunk.len[k] \in Nat
    BY ChunkFacts DEF TypeOK
  <2>2. capacity \in Nat
    BY SizeAssumption DEF TypeOK, CallType
  <2>3. cost[k] \in Nat
    BY SizeAssumption DEF TypeOK, InputType
  <2> QED
    BY <2>1, <2>2, <2>3
<1>2. dst_size \in Nat
  BY DEF TypeOK, BufferType
<1> QED
  BY <1>1, <1>2 DEF Start, COLLECTION_HDR_SIZE, CMP_COLLECTION_FILD_SIZE

\* The call stops for lack of space, and there is not enough for the raw data.
OutOfSpace ==
  /\ Fails(SMALL_BUFFER)
  /\ ~ query /\ capacity < Start + chunk.len[k]

\* Collection k now lies in the buffer, in field bytes, raw or encoded.
NowStored(field, raw) ==
  /\ chunk.len[k] > 0 => (raw <=> field = chunk.len[k])
  /\ dst_size' = Start + field
  /\ out' = Append(out, [begin |-> dst_size, field |-> field, raw |-> raw])
  /\ k' = k + 1
  /\ up' = IF ModelMode /\ update # "none" /\ chunk.len[k] > 0
           THEN [up EXCEPT ![k] = IF raw THEN "copied" ELSE "encoded"] ELSE up
  /\ ~ query => dst_size' <= high'
  /\ UNCHANGED <<input, args, pc, result, asked>>

\* What was written lies inside the buffer.
Inside ==
  /\ high' \in Nat /\ high' <= capacity
  /\ query => high' = 0
  /\ ~ query => high' >= high

\* Writing up to end, at most the whole buffer.
LEMMA WroteInside ==
  ASSUME TypeOK, high <= capacity, k \in Index, NEW end \in Nat,
         query \/ (Start <= capacity /\ end <= capacity), Wrote(end)
  PROVE  Inside /\ (~ query => high' >= end /\ high' >= Start)
<1>1. high \in Nat /\ Start \in Nat /\ capacity \in Nat
  BY StartFacts DEF TypeOK, BufferType
<1>2. CASE query
  BY <1>1, <1>2 DEF Wrote, Inside
<1>3. CASE ~ query
  BY <1>1, <1>3 DEF Wrote, Inside, MaxOf
<1> QED
  BY <1>2, <1>3

\* A field of at most 65535 bytes.
LEMMA FinishStores ==
  ASSUME TypeOK, k \in Index, NEW bits \in Nat, NEW raw \in BOOLEAN,
         BitToByte(bits) \in Start .. Start + chunk.len[k],
         Finish(bits, raw)
  PROVE  /\ dst_size' = Start + (BitToByte(bits) - Start)
         /\ out' = Append(out, [begin |-> dst_size, field |-> BitToByte(bits) - Start, raw |-> raw])
         /\ k' = k + 1
         /\ UNCHANGED <<input, args, pc, result, asked>>
<1>1. Start \in Nat /\ chunk.len[k] \in Nat
  BY StartFacts
<1>2. chunk.len[k] <= UINT16_MAX /\ UINT16_MAX \in Nat
  BY ChunkFacts DEF TypeOK
<1>3. ~ (BitToByte(bits) - Start > UINT16_MAX)
  BY <1>1, <1>2
<1> QED
  BY <1>1, <1>3 DEF Finish

\* What ModelUpdate leaves in up, and that it changes nothing else of the call.
LEMMA ModelUpdateFacts ==
  ASSUME NEW how \in {"partial", "encoded", "copied"}, ModelUpdate(how)
  PROVE  up' = IF ModelMode /\ update # "none" /\ chunk.len[k] > 0
               THEN [up EXCEPT ![k] = how] ELSE up
  BY DEF ModelUpdate

\* What the encoders return and how far they write.
LEMMA EncodeFacts ==
  ASSUME TypeOK, k \in Index, NEW start \in Nat, NEW s \in Nat, start <= s \/ chunk.len[k] = 0
  PROVE  /\ \/ Encode(start, s) = SMALL_BUFFER /\ ~ query /\ chunk.len[k] > 0
            \/ /\ Encode(start, s) \in Nat
               /\ BitToByte(Encode(start, s)) >= start
               /\ chunk.len[k] = 0 => Encode(start, s) = 8 * start
               /\ ~ query /\ chunk.len[k] > 0 => Encode(start, s) <= StreamBits(s)
         /\ EncodedHigh(start, s) \in Nat
         /\ EncodedHigh(start, s) <= IF chunk.len[k] = 0 THEN start ELSE s
         /\ ~ query /\ Encode(start, s) # SMALL_BUFFER
              => EncodedHigh(start, s) >= BitToByte(Encode(start, s))
<1> DEFINE end == 8 * start + cost[k]
<1>1. cost[k] \in Nat /\ chunk.len[k] \in Nat /\ query \in BOOLEAN
  BY StartFacts DEF TypeOK, CallType
<1>2. end \in Nat /\ BitToByte(end) \in Nat /\ BitToByte(end) >= start
  BY <1>1 DEF BitToByte
<1>3. BitToByte(8 * start) = start
  BY Bytes, 0 \in Nat
<1>4. StreamBits(s) \in Nat /\ StreamBits(s) \div 8 \in Nat /\ StreamBits(s) \div 8 <= s
  BY StreamFits
<1>5. end <= StreamBits(s) => BitToByte(end) <= StreamBits(s) \div 8
  BY <1>2, StreamFits
<1>6. RoundUp4(BitToByte(end)) \in Nat /\ RoundUp4(BitToByte(end)) >= BitToByte(end)
  BY <1>2, RoundsUp
<1> HIDE DEF end
<1>7. Encode(start, s) = IF chunk.len[k] = 0 THEN 8 * start
                         ELSE IF ~ query /\ end > StreamBits(s) THEN SMALL_BUFFER ELSE end
  BY DEF Encode, end
<1>8. EncodedHigh(start, s) =
        IF chunk.len[k] = 0 THEN start
        ELSE IF RoundUp4(BitToByte(end)) <= StreamBits(s) \div 8
             THEN RoundUp4(BitToByte(end)) ELSE StreamBits(s) \div 8
  BY DEF EncodedHigh, end
<1>9. CASE chunk.len[k] = 0
  BY <1>1, <1>3, <1>7, <1>8, <1>9
<1>10. CASE chunk.len[k] > 0 /\ ~ query /\ end > StreamBits(s)
  <2>1. Encode(start, s) = SMALL_BUFFER
    BY <1>1, <1>7, <1>10
  <2>2. EncodedHigh(start, s) \in Nat /\ EncodedHigh(start, s) <= s
    BY <1>1, <1>2, <1>4, <1>6, <1>8, <1>10
  <2> QED
    BY <1>1, <1>10, <2>1, <2>2
<1>11. CASE chunk.len[k] > 0 /\ (query \/ end <= StreamBits(s))
  <2>1. Encode(start, s) = end
    BY <1>1, <1>2, <1>4, <1>7, <1>11
  <2>2. EncodedHigh(start, s) \in Nat /\ EncodedHigh(start, s) <= s
    BY <1>1, <1>2, <1>4, <1>6, <1>8, <1>11
  <2>3. ~ query => EncodedHigh(start, s) >= BitToByte(end)
    BY <1>1, <1>2, <1>4, <1>5, <1>6, <1>8, <1>11
  <2> QED
    BY <1>1, <1>2, <1>4, <1>11, <2>1, <2>2, <2>3
<1> QED
  BY <1>1, <1>2, <1>4, <1>9, <1>10, <1>11

-----------------------------------------------------------------------------
(* Each way a collection gets into the buffer *)

\* The outcome of any of them.
Outcome == Inside /\ (OutOfSpace \/ \E field \in 0 .. chunk.len[k], raw \in BOOLEAN :
                                      NowStored(field, raw))

\* In raw mode the collection is stored or does not fit.
LEMMA RawOutcome ==
  ASSUME TypeOK, high <= capacity, RawCollection
  PROVE  Outcome
<1>1. k \in Index /\ (query \/ Start <= capacity) /\ mode = "raw"
  BY DEF RawCollection, HeaderCopied, Whole, AtCollection
<1>2. Start \in Nat /\ chunk.len[k] \in Nat /\ capacity \in Nat /\ query \in BOOLEAN
  BY <1>1, StartFacts DEF TypeOK, CallType
<1> DEFINE bits == Copy(Start, capacity)
<1>3. CASE chunk.len[k] > 0 /\ ~ query /\ Start + chunk.len[k] > capacity
  <2>1. bits = SMALL_BUFFER
    BY <1>3 DEF Copy
  <2>2. Fails(SMALL_BUFFER) /\ Wrote(Start)
    BY <2>1 DEF RawCollection, IsError, SMALL_BUFFER
  <2>3. OutOfSpace
    BY <1>2, <1>3, <2>2 DEF OutOfSpace
  <2>4. Inside
    BY <1>1, <1>2, <2>2, WroteInside
  <2> QED
    BY <2>3, <2>4 DEF Outcome
<1>4. CASE ~ (chunk.len[k] > 0 /\ ~ query /\ Start + chunk.len[k] > capacity)
  <2>1. bits = 8 * (Start + chunk.len[k]) /\ bits \in Nat
    BY <1>2, <1>4 DEF Copy
  <2>2. Finish(bits, TRUE) /\ Wrote(Start + chunk.len[k]) /\ up' = up
    <3>1. ~ IsError(bits)
      BY <2>1 DEF IsError
    <3>2. IF IsError(bits) THEN Fails(bits) /\ Wrote(Start)
          ELSE Finish(bits, TRUE) /\ Wrote(Start + chunk.len[k])
      BY DEF RawCollection
    <3>3. up' = up
      BY DEF RawCollection
    <3> HIDE DEF bits
    <3> QED
      BY <3>1, <3>2, <3>3
  <2>3. BitToByte(bits) = Start + chunk.len[k]
    BY <1>2, <2>1, Bytes, Start + chunk.len[k] \in Nat, 0 \in Nat
  <2>4. Inside /\ (~ query => high' >= Start + chunk.len[k])
    BY <1>1, <1>2, <1>4, <2>2, WroteInside
  <2>5. BitToByte(bits) \in Start .. Start + chunk.len[k]
    BY <1>2, <2>3
  <2>6. NowStored(chunk.len[k], TRUE)
    <3>1. BitToByte(bits) - Start = chunk.len[k]
      BY <1>2, <2>3
    <3>2. ~ ModelMode
      BY <1>1 DEF ModelMode
    <3> HIDE DEF bits
    <3> QED
      BY <1>1, <1>2, <2>1, <2>2, <2>4, <2>5, <3>1, <3>2, FinishStores DEF NowStored
  <2> QED
    <3>1. chunk.len[k] \in 0 .. chunk.len[k]
      BY <1>2
    <3> QED
      BY <2>4, <2>6, <3>1, Zenon DEF Outcome
<1> QED
  BY <1>3, <1>4

\* The facts the other three share.
LEMMA RoomFacts ==
  ASSUME TypeOK, HeaderCopied
  PROVE  /\ k \in Index /\ (query \/ Start <= capacity)
         /\ Start \in Nat /\ chunk.len[k] \in Nat /\ capacity \in Nat /\ query \in BOOLEAN
         /\ Start >= 14 => Less \in Nat
         /\ mode # "raw" => Start >= 14
         /\ chunk.len[k] > 0 => Start <= Less
<1>1. k \in Index /\ (query \/ Start <= capacity)
  BY DEF HeaderCopied, Whole, AtCollection
<1>2. Start \in Nat /\ chunk.len[k] \in Nat /\ capacity \in Nat /\ query \in BOOLEAN
  BY <1>1, StartFacts DEF TypeOK, CallType
<1>3. mode # "raw" => Start >= 14
  BY <1>1, StartFacts DEF TypeOK, BufferType, COLLECTION_HDR_SIZE, CMP_COLLECTION_FILD_SIZE
<1> QED
  BY <1>1, <1>2, <1>3 DEF Less

\* A collection that gets smaller is stored, or the encoders report an error.
LEMMA CompressedOutcome ==
  ASSUME TypeOK, high <= capacity, Compressed
  PROVE  Outcome
<1>1. HeaderCopied /\ Roomy /\ mode # "raw"
  BY DEF Compressed, Roomy
<1>2. /\ k \in Index /\ (query \/ Start <= capacity)
      /\ Start \in Nat /\ chunk.len[k] \in Nat /\ capacity \in Nat /\ query \in BOOLEAN
      /\ Less \in Nat /\ (Start <= Less \/ chunk.len[k] = 0)
  BY <1>1, RoomFacts
<1> DEFINE bits == Encode(Start, Less)
           end == EncodedHigh(Start, Less)
<1>3. /\ \/ bits = SMALL_BUFFER /\ ~ query /\ chunk.len[k] > 0
         \/ /\ bits \in Nat
            /\ BitToByte(bits) >= Start
            /\ chunk.len[k] = 0 => bits = 8 * Start
            /\ ~ query /\ chunk.len[k] > 0 => bits <= StreamBits(Less)
      /\ end \in Nat
      /\ end <= IF chunk.len[k] = 0 THEN Start ELSE Less
      /\ ~ query /\ bits # SMALL_BUFFER => end >= BitToByte(bits)
  BY <1>2, EncodeFacts
<1>4. /\ ~ Incompressible(bits, Less)
      /\ Wrote(end)
      /\ IF IsError(bits) THEN Fails(bits) /\ ModelUpdate("partial")
         ELSE Finish(bits, FALSE) /\ ModelUpdate("encoded")
  BY DEF Compressed
<1> HIDE DEF bits, end
<1>5. bits # SMALL_BUFFER /\ (query => bits <= StreamBits(Less))
  <2>1. ~ Incompressible(bits, Less)
    BY <1>4
  <2>2. StreamBits(Less) \in Int
    BY <1>2, StreamFits
  <2>3. bits # SMALL_BUFFER
    BY <2>1 DEF Incompressible
  <2>4. bits \in Nat
    BY <1>3, <2>3
  <2> QED
    BY <2>1, <2>2, <2>3, <2>4 DEF Incompressible
<1>6. bits \in Nat
  BY <1>3, <1>5
<1>7. Finish(bits, FALSE) /\ ModelUpdate("encoded")
  BY <1>4, <1>6, NoError
<1>8. BitToByte(bits) \in Nat /\ BitToByte(8 * Start) = Start
  BY <1>2, <1>6 DEF BitToByte
<1>9. chunk.len[k] > 0 => BitToByte(bits) <= Less
  BY <1>2, <1>3, <1>5, <1>6, StreamFits
<1>10. chunk.len[k] > 0 => BitToByte(bits) < Start + chunk.len[k]
  BY <1>2, <1>8, <1>9 DEF Less
<1>11. BitToByte(bits) \in Start .. Start + chunk.len[k]
  BY <1>2, <1>3, <1>5, <1>6, <1>8, <1>10
<1>12. query \/ (Start <= capacity /\ end <= capacity)
  <2>1. ~ query => Start + chunk.len[k] <= capacity
    BY <1>1, <1>2 DEF Roomy
  <2>2. end <= Start + chunk.len[k]
    BY <1>2, <1>3 DEF Less
  <2> QED
    BY <1>2, <1>3, <2>1, <2>2
<1>13. Inside /\ (~ query => high' >= end)
  BY <1>2, <1>3, <1>4, <1>12, WroteInside
<1>14. NowStored(BitToByte(bits) - Start, FALSE)
  <2>1. BitToByte(bits) = Start + (BitToByte(bits) - Start)
    BY <1>2, <1>8
  <2>2. chunk.len[k] > 0 => BitToByte(bits) - Start # chunk.len[k]
    BY <1>2, <1>8, <1>10
  <2>3. ~ query => BitToByte(bits) <= high'
    BY <1>2, <1>3, <1>5, <1>8, <1>13 DEF Inside
  <2>4. up' = IF ModelMode /\ update # "none" /\ chunk.len[k] > 0
              THEN [up EXCEPT ![k] = "encoded"] ELSE up
    BY <1>7, ModelUpdateFacts
  <2> QED
    BY <1>2, <1>6, <1>7, <1>11, <2>1, <2>2, <2>3, <2>4, FinishStores DEF NowStored
<1>15. BitToByte(bits) - Start \in 0 .. chunk.len[k]
  BY <1>2, <1>11
<1> QED
  BY <1>13, <1>14, <1>15, Zenon DEF Outcome

\* A collection that does not get smaller is stored raw, and fits.
LEMMA StoredRawOutcome ==
  ASSUME TypeOK, high <= capacity, StoredRaw
  PROVE  Outcome
<1>1. HeaderCopied /\ Roomy
  BY DEF StoredRaw
<1>2. /\ k \in Index /\ (query \/ Start <= capacity)
      /\ Start \in Nat /\ chunk.len[k] \in Nat /\ capacity \in Nat /\ query \in BOOLEAN
  BY <1>1, RoomFacts
<1> DEFINE end == Start + chunk.len[k]
           bits == Copy(Start, end)
<1>3. end \in Nat
  BY <1>2
<1>4. bits = 8 * end /\ bits \in Nat
  BY <1>2 DEF Copy
<1>5. IF IsError(bits)
      THEN Fails(bits) /\ Wrote(EncodedHigh(Start, Less)) /\ ModelUpdate("partial")
      ELSE Finish(bits, TRUE) /\ Wrote(end) /\ ModelUpdate("copied")
  BY DEF StoredRaw
<1>6. BitToByte(bits) = end
  BY <1>3, <1>4 DEF BitToByte
<1>7. query \/ (Start <= capacity /\ end <= capacity)
  BY <1>1, <1>2 DEF Roomy
<1>8. end - Start = chunk.len[k] /\ end \in Start .. Start + chunk.len[k]
  BY <1>2
<1> HIDE DEF bits
<1>9. Finish(bits, TRUE) /\ Wrote(end) /\ ModelUpdate("copied")
  BY <1>4, <1>5, NoError
<1> HIDE DEF end
<1>10. Inside /\ (~ query => high' >= end)
  BY <1>2, <1>3, <1>7, <1>9, WroteInside
<1>11. NowStored(chunk.len[k], TRUE)
  <2>1. up' = IF ModelMode /\ update # "none" /\ chunk.len[k] > 0
              THEN [up EXCEPT ![k] = "copied"] ELSE up
    BY <1>9, ModelUpdateFacts
  <2>2. /\ dst_size' = Start + (end - Start)
        /\ out' = Append(out, [begin |-> dst_size, field |-> end - Start, raw |-> TRUE])
        /\ k' = k + 1
        /\ UNCHANGED <<input, args, pc, result, asked>>
    BY <1>2, <1>3, <1>4, <1>6, <1>8, <1>9, FinishStores
  <2>3. ~ query => dst_size' <= high'
    BY <1>2, <1>3, <1>10, <2>2 DEF Inside
  <2> QED
    BY <1>8, <2>1, <2>2, <2>3 DEF NowStored
<1>12. chunk.len[k] \in 0 .. chunk.len[k]
  BY <1>2
<1> QED
  BY <1>10, <1>11, <1>12, Zenon DEF Outcome

\* With too little room for raw data the collection is stored smaller than that, or not.
LEMMA TightOutcome ==
  ASSUME TypeOK, high <= capacity, Tight
  PROVE  Outcome
<1>1. HeaderCopied /\ ~ Roomy /\ mode # "raw"
  BY DEF Tight
<1>2. /\ k \in Index /\ (query \/ Start <= capacity)
      /\ Start \in Nat /\ chunk.len[k] \in Nat /\ capacity \in Nat /\ query \in BOOLEAN
  BY <1>1, RoomFacts
<1>3. ~ query /\ capacity < Start + chunk.len[k] /\ chunk.len[k] > 0 /\ Start <= capacity
  BY <1>1, <1>2 DEF Roomy
<1> DEFINE bits == Encode(Start, capacity)
           end == EncodedHigh(Start, capacity)
<1>4. /\ \/ bits = SMALL_BUFFER
         \/ /\ bits \in Nat
            /\ BitToByte(bits) >= Start
            /\ bits <= StreamBits(capacity)
      /\ end \in Nat
      /\ end <= capacity
      /\ bits # SMALL_BUFFER => end >= BitToByte(bits)
  <2> HIDE DEF bits, end
  <2>1. /\ \/ bits = SMALL_BUFFER
           \/ /\ bits \in Nat /\ BitToByte(bits) >= Start
              /\ bits <= StreamBits(capacity)
        /\ end \in Nat
    BY <1>2, <1>3, EncodeFacts DEF bits, end
  <2>2. end <= capacity
    BY <1>2, <1>3, EncodeFacts DEF end
  <2>3. bits # SMALL_BUFFER => end >= BitToByte(bits)
    BY <1>2, <1>3, EncodeFacts DEF bits, end
  <2> QED
    BY <2>1, <2>2, <2>3
<1>5. /\ Wrote(end)
      /\ IF IsError(bits) THEN Fails(bits) /\ ModelUpdate("partial")
         ELSE Finish(bits, FALSE) /\ ModelUpdate("encoded")
  BY DEF Tight
<1> HIDE DEF bits, end
<1>6. Inside /\ high' >= end
  BY <1>2, <1>3, <1>4, <1>5, WroteInside
<1>7. CASE bits = SMALL_BUFFER
  <2>1. Fails(SMALL_BUFFER)
    BY <1>5, <1>7 DEF IsError, SMALL_BUFFER
  <2>2. OutOfSpace
    BY <1>3, <2>1 DEF OutOfSpace
  <2> QED
    BY <1>6, <2>2 DEF Outcome
<1>8. CASE bits # SMALL_BUFFER
  <2>1. bits \in Nat /\ BitToByte(bits) >= Start /\ bits <= StreamBits(capacity)
    BY <1>4, <1>8
  <2>2. Finish(bits, FALSE) /\ ModelUpdate("encoded")
    BY <1>5, <2>1, NoError
  <2>3. BitToByte(bits) \in Nat
    BY <2>1 DEF BitToByte
  <2>4. BitToByte(bits) <= capacity
    BY <1>2, <2>1, StreamFits
  <2>5. /\ BitToByte(bits) \in Start .. Start + chunk.len[k]
        /\ BitToByte(bits) - Start # chunk.len[k]
        /\ BitToByte(bits) - Start \in 0 .. chunk.len[k]
        /\ BitToByte(bits) = Start + (BitToByte(bits) - Start)
    BY <1>2, <1>3, <2>1, <2>3, <2>4
  <2>6. BitToByte(bits) <= high'
    BY <1>4, <1>6, <1>8, <2>3 DEF Inside
  <2>7. up' = IF ModelMode /\ update # "none" /\ chunk.len[k] > 0
              THEN [up EXCEPT ![k] = "encoded"] ELSE up
    BY <2>2, ModelUpdateFacts
  <2>8. NowStored(BitToByte(bits) - Start, FALSE)
    BY <1>2, <2>1, <2>2, <2>5, <2>6, <2>7, FinishStores DEF NowStored
  <2> QED
    BY <1>6, <2>5, <2>8, Zenon DEF Outcome
<1> QED
  BY <1>7, <1>8

-----------------------------------------------------------------------------
(* Types *)

\* The ways a collection can end.
Storing == RawCollection \/ Compressed \/ StoredRaw \/ Tight
Refusing == OtherType \/ FailsCheck \/ NoRoomForHeader

\* The four ways to store a collection have one kind of outcome.
LEMMA StoringOutcome ==
  ASSUME TypeOK, high <= capacity, Storing
  PROVE  Outcome /\ k \in Index
<1>1. k \in Index
  BY DEF Storing, RawCollection, Compressed, StoredRaw, Tight, HeaderCopied, Whole, AtCollection
<1>2. Outcome
  BY RawOutcome, CompressedOutcome, StoredRawOutcome, TightOutcome DEF Storing
<1> QED
  BY <1>1, <1>2

\* Whatever happens to a collection, the costs and the notes on the updated
\* model stay what they are.
LEMMA MemoryType ==
  ASSUME TypeOK, Storing
  PROVE  /\ cost' \in [Index -> Cost]
         /\ up' \in [Index -> {"kept", "partial", "encoded", "copied"}]
<1>1. cost \in [Index -> Cost] /\ up \in [Index -> {"kept", "partial", "encoded", "copied"}]
  BY DEF TypeOK, InputType, BufferType
<1>2. ASSUME NEW how \in {"partial", "encoded", "copied"}, ModelUpdate(how)
      PROVE  /\ cost' \in [Index -> Cost]
             /\ up' \in [Index -> {"kept", "partial", "encoded", "copied"}]
  <2>1. up' \in [Index -> {"kept", "partial", "encoded", "copied"}]
    BY <1>1, <1>2 DEF ModelUpdate
  <2>2. cost' \in [Index -> Cost]
    BY <1>1, <1>2 DEF ModelUpdate
  <2> QED
    BY <2>1, <2>2
<1>3. \/ UNCHANGED <<cost, up>>
      \/ \E how \in {"partial", "encoded", "copied"} : ModelUpdate(how)
  <2>1. CASE RawCollection
    BY <2>1 DEF RawCollection
  <2>2. CASE Compressed
    <3>1. ModelUpdate("partial") \/ ModelUpdate("encoded")
      BY <2>2 DEF Compressed
    <3> QED
      BY <3>1
  <2>3. CASE StoredRaw
    <3>1. ModelUpdate("partial") \/ ModelUpdate("copied")
      BY <2>3 DEF StoredRaw
    <3> QED
      BY <3>1
  <2>4. CASE Tight
    <3>1. ModelUpdate("partial") \/ ModelUpdate("encoded")
      BY <2>4 DEF Tight
    <3> QED
      BY <3>1
  <2> QED
    BY <2>1, <2>2, <2>3, <2>4 DEF Storing
<1> QED
  BY <1>1, <1>2, <1>3

\* A call that returns.
LEMMA ReturnType ==
  ASSUME TypeOK, NEW r \in Int, NEW q, Return(r, q)
  PROVE  pc' \in {"idle", "collections", "header"} /\ result' \in Int /\ asked' \in Int
BY DEF Return, TypeOK, CallType

\* A refused collection changes nothing and returns an error.
LEMMA RefusingFacts ==
  ASSUME TypeOK, Refusing
  PROVE  /\ k \in Index
         /\ \E code \in Int :
              /\ Refuses(code)
              /\ code <= 0
              /\ \/ code \notin {SMALL_BUFFER, ENTITY_HEADER, INT_CMP_COL_TOO_LARGE}
                 \/ code = SMALL_BUFFER /\ ~ query /\ Start > capacity
<1>1. CASE OtherType
  BY <1>1 DEF OtherType, AtCollection, CHUNK_SUBSERVICE_INCONSISTENT, SMALL_BUFFER,
              ENTITY_HEADER, INT_CMP_COL_TOO_LARGE
<1>2. CASE FailsCheck
  <2>1. k \in Index /\ Refuses(chunk.check[k])
    BY <1>2 DEF FailsCheck, Whole, AtCollection
  <2>2. chunk.check[k] \in Check
    BY <2>1, ChunkFacts DEF TypeOK
  <2> QED
    BY <2>1, <2>2, CheckCodes
<1>3. CASE NoRoomForHeader
  <2>1. /\ k \in Index /\ Refuses(SMALL_BUFFER) /\ ~ query /\ Start > capacity
    BY <1>3 DEF NoRoomForHeader, Whole, AtCollection
  <2> QED
    BY <2>1 DEF SMALL_BUFFER
<1> QED
  BY <1>1, <1>2, <1>3 DEF Refusing

\* A call that fails changes neither its arguments nor its input.
LEMMA FailsFacts ==
  ASSUME TypeOK, NEW code \in Int, Fails(code)
  PROVE  /\ pc' = "idle" /\ result' = code /\ asked' \in Int
         /\ UNCHANGED <<chunk, mode, update, fits, query, capacity, k, dst_size, out>>
BY DEF Fails, Return, TypeOK, CallType, input, args

-----------------------------------------------------------------------------
(* Types and the use of the buffer.  Where the loop is, at most the entity  *)
(* header, the collections before k and their size fields lie in dst.       *)

Loop ==
  pc # "idle" =>
    /\ HeaderSize <= dst_size
    /\ dst_size <= HeaderSize + chunk.off[k] + 2 * (k - 1)
    /\ ~ query => dst_size <= high \/ dst_size = HeaderSize
    /\ ~ query => HeaderSize <= capacity

Space == high <= capacity /\ (query => high = 0)

BufferInv == TypeOK /\ Space /\ Loop /\ NoOverrun /\ BoundSuffices

\* An entity header is at most as large as the bound counts it.
LEMMA HeaderFacts == HeaderSize \in Nat /\ 0 < HeaderSize /\ HeaderSize <= 64
BY DEF HeaderSize, GENERIC_HEADER_SIZE, NON_IMAGETTE_HEADER_SIZE

\* What compress_chunk_cmp_size_bound counts.
LEMMA BoundFacts ==
  ASSUME InputType, Bound(chunk) > 0
  PROVE  /\ Bound(chunk) \in Nat
         /\ Bound(chunk) >= 64 + chunk.n * 2 + chunk.size
         /\ Bound(chunk) <= CMP_ENTITY_MAX_SIZE
<1> DEFINE x == NON_IMAGETTE_HEADER_SIZE + chunk.n * CMP_COLLECTION_FILD_SIZE + chunk.size
<1>1. chunk.n \in Nat /\ chunk.size \in Nat /\ CMP_ENTITY_MAX_SIZE \in Nat
  BY ChunkFacts
<1>2. x \in Nat /\ x = 64 + chunk.n * 2 + chunk.size
  BY <1>1 DEF NON_IMAGETTE_HEADER_SIZE, CMP_COLLECTION_FILD_SIZE
<1>3. RoundUp4(x) \in Nat /\ RoundUp4(x) >= x
  BY <1>2, RoundsUp
<1>4. Bound(chunk) = RoundUp4(x) /\ RoundUp4(x) <= CMP_ENTITY_MAX_SIZE
  <2> HIDE DEF x
  <2>1. Bound(chunk) = IF chunk.size < COLLECTION_HDR_SIZE THEN CHUNK_SIZE_INCONSISTENT
      ELSE IF chunk.size > CMP_ENTITY_MAX_SIZE - NON_IMAGETTE_HEADER_SIZE
                       - CMP_COLLECTION_FILD_SIZE THEN CHUNK_TOO_LARGE
      ELSE IF chunk.off[chunk.n + 1] # chunk.size THEN CHUNK_SIZE_INCONSISTENT
      ELSE IF RoundUp4(x) > CMP_ENTITY_MAX_SIZE THEN CHUNK_TOO_LARGE
      ELSE RoundUp4(x)
    BY DEF Bound, x
  <2> QED
    BY <1>1, <1>3, <2>1 DEF CHUNK_SIZE_INCONSISTENT, CHUNK_TOO_LARGE
<1> QED
  BY <1>2, <1>3, <1>4

\* With a buffer as large as the bound there is room for the raw data of every
\* collection of the chunk.
LEMMA RoomForRaw ==
  ASSUME BufferInv, pc # "idle", k \in Index, chunk.off[k + 1] <= chunk.size,
         Bound(chunk) > 0, capacity >= Bound(chunk)
  PROVE  Start + chunk.len[k] <= capacity
<1>1. /\ chunk.n \in Nat /\ chunk.size \in Nat /\ k \in Nat /\ k <= chunk.n
      /\ chunk.off[k] \in Nat /\ chunk.len[k] \in Nat
      /\ chunk.off[k + 1] = chunk.off[k] + 12 + chunk.len[k]
  BY ChunkFacts DEF BufferInv, TypeOK, Index, COLLECTION_HDR_SIZE
<1>2. /\ Start \in Nat /\ capacity \in Nat /\ dst_size \in Nat
      /\ Start <= dst_size + 14
  BY StartFacts DEF BufferInv, TypeOK, BufferType, COLLECTION_HDR_SIZE, CMP_COLLECTION_FILD_SIZE
<1>3. dst_size <= HeaderSize + chunk.off[k] + 2 * (k - 1)
  BY DEF BufferInv, Loop
<1>4. Bound(chunk) \in Nat /\ Bound(chunk) >= 64 + chunk.n * 2 + chunk.size
  BY BoundFacts DEF BufferInv, TypeOK
<1>5. Start + chunk.len[k] <= 64 + 2 * k + chunk.off[k + 1]
  BY <1>1, <1>2, <1>3, HeaderFacts
<1> QED
  BY <1>1, <1>2, <1>4, <1>5

\* The inductive invariant holds before the first call.
LEMMA InitBuffer == Init => BufferInv
<1> SUFFICES ASSUME Init PROVE BufferInv
  OBVIOUS
<1>1. /\ chunk \in Chunks /\ mode \in Modes /\ update \in Updates /\ fits \in BOOLEAN
      /\ cost \in [Index -> Cost]
  BY DEF Init
<1>2. InputType
  BY <1>1 DEF InputType
<1>3. CallType
  BY DEF Init, CallType, NO_ERROR
<1>4. BufferType
  <2>1. 1 \in 1 .. chunk.n + 1
    BY <1>2, ChunkFacts
  <2> QED
    BY <2>1 DEF Init, BufferType
<1>5. Space /\ Loop
  BY DEF Init, Space, Loop
<1>6. NoOverrun /\ BoundSuffices
  BY DEF Init, NoOverrun, BoundSuffices, Success, Done
<1> QED
  BY <1>2, <1>3, <1>4, <1>5, <1>6 DEF BufferInv, TypeOK

\* ... when a call starts,
LEMMA CompressChunkBuffer ==
  ASSUME BufferInv, NEW q \in BOOLEAN, NEW cap \in Capacity \cup {0}, q => cap = 0,
         CompressChunk(q, cap)
  PROVE  BufferInv'
<1> USE HeaderFacts
<1>1. /\ UNCHANGED <<chunk, mode, update, fits, cost>>
      /\ query' = q /\ capacity' = cap /\ k' = 1 /\ dst_size' = HeaderSize
      /\ high' = 0 /\ out' = <<>> /\ up' = [i \in Index |-> "kept"]
  BY DEF CompressChunk, input
<1>2. cap \in Nat
  BY SizeAssumption
<1>3. EntryError(q, cap) \in Int /\ EntryError(q, cap) <= 0
      /\ EntryError(q, cap) \notin {ENTITY_HEADER, INT_CMP_COL_TOO_LARGE}
      /\ (EntryError(q, cap) = SMALL_BUFFER => ~ q /\ cap < HeaderSize)
      /\ (EntryError(q, cap) = NO_ERROR => q \/ cap >= HeaderSize)
  BY <1>2 DEF EntryError, NO_ERROR, SMALL_BUFFER, ENTITY_HEADER, INT_CMP_COL_TOO_LARGE,
         CHUNK_SIZE_INCONSISTENT, CHUNK_TOO_LARGE, COL_SUBSERVICE_UNSUPPORTED
<1>4. InputType' /\ BufferType'
  <2>1. InputType'
    BY <1>1 DEF BufferInv, TypeOK, InputType, Index
  <2>2. 1 \in 1 .. chunk.n + 1
    BY ChunkFacts DEF BufferInv, TypeOK
  <2>3. BufferType'
    BY <1>1, <2>2 DEF BufferType, Index
  <2> QED
    BY <2>1, <2>3
<1>5. Space'
  BY <1>1, <1>2 DEF Space
<1>6. HeaderSize' = HeaderSize /\ chunk.off[1] = 0
  BY <1>1, ChunkFacts DEF HeaderSize, BufferInv, TypeOK
<1>7. CASE EntryError(q, cap) = NO_ERROR
  <2>1. pc' = "collections" /\ UNCHANGED <<result, asked>>
    BY <1>7 DEF CompressChunk
  <2>2. CallType'
    BY <1>1, <2>1 DEF BufferInv, TypeOK, CallType
  <2>3. Loop'
    BY <1>1, <1>2, <1>3, <1>6, <1>7 DEF Loop
  <2>4. NoOverrun' /\ BoundSuffices'
    BY <1>5, <2>1 DEF NoOverrun, BoundSuffices, Success, Done, Space
  <2> QED
    BY <1>4, <1>5, <2>2, <2>3, <2>4 DEF BufferInv, TypeOK
<1>8. CASE EntryError(q, cap) # NO_ERROR
  <2>1. Return(EntryError(q, cap), q)
    BY <1>8 DEF CompressChunk
  <2>2. pc' = "idle" /\ result' = EntryError(q, cap)
    BY <2>1 DEF Return
  <2>3. CallType'
    BY <1>1, <1>3, <2>1, <2>2, ReturnType DEF BufferInv, TypeOK, CallType
  <2>4. Loop'
    BY <2>2 DEF Loop
  <2>5. NoOverrun'
    BY <1>3, <1>5, <2>2 DEF NoOverrun, Success, Space
  <2>6. BoundSuffices'
    <3>1. SUFFICES ASSUME ~ query', Bound(chunk') > 0, capacity' >= Bound(chunk')
                   PROVE  /\ result' \notin {SMALL_BUFFER, INT_CMP_COL_TOO_LARGE}
                          /\ fits' => result' # ENTITY_HEADER
                          /\ result' <= Bound(chunk')
      BY DEF BoundSuffices
    <3>2. Bound(chunk) \in Nat /\ Bound(chunk) >= 64 /\ chunk' = chunk
      BY <1>1, <3>1, BoundFacts, ChunkFacts DEF BufferInv, TypeOK
    <3> QED
      BY <1>1, <1>2, <1>3, <2>2, <3>1, <3>2
  <2> QED
    BY <1>4, <1>5, <2>3, <2>4, <2>5, <2>6 DEF BufferInv, TypeOK
<1> QED
  BY <1>7, <1>8

\* A failing call in the middle of a chunk.
LEMMA FailingBuffer ==
  ASSUME BufferInv, NEW code \in Int, code <= 0, Fails(code), Inside,
         cost' \in [Index -> Cost],
         up' \in [Index -> {"kept", "partial", "encoded", "copied"}],
         \/ code \notin {SMALL_BUFFER, ENTITY_HEADER, INT_CMP_COL_TOO_LARGE}
         \/ code = SMALL_BUFFER /\ ~ query /\ (Bound(chunk) > 0 => capacity < Bound(chunk))
  PROVE  BufferInv'
<1>1. /\ pc' = "idle" /\ result' = code /\ asked' \in Int
      /\ UNCHANGED <<chunk, mode, update, fits, query, capacity, k, dst_size, out>>
  BY FailsFacts DEF BufferInv
<1>2. InputType' /\ CallType' /\ BufferType'
  <2>1. InputType'
    BY <1>1 DEF BufferInv, TypeOK, InputType, Index
  <2>2. CallType'
    BY <1>1 DEF BufferInv, TypeOK, CallType
  <2>3. BufferType'
    BY <1>1 DEF BufferInv, TypeOK, BufferType, Index, Inside
  <2> QED
    BY <2>1, <2>2, <2>3
<1>3. Space' /\ Loop' /\ NoOverrun'
  BY <1>1 DEF Inside, Space, Loop, NoOverrun, Success
<1>4. BoundSuffices'
  <2>1. SUFFICES ASSUME ~ query', Bound(chunk') > 0, capacity' >= Bound(chunk')
                 PROVE  /\ result' \notin {SMALL_BUFFER, INT_CMP_COL_TOO_LARGE}
                        /\ fits' => result' # ENTITY_HEADER
                        /\ result' <= Bound(chunk')
    BY DEF BoundSuffices
  <2>2. capacity \in Nat /\ Bound(chunk) \in Nat
    BY <1>1, <2>1, BoundFacts, SizeAssumption DEF BufferInv, TypeOK, CallType
  <2> QED
    BY <1>1, <2>1, <2>2
<1> QED
  BY <1>2, <1>3, <1>4 DEF BufferInv, TypeOK

\* ... when a collection is refused,
LEMMA RefusingBuffer ==
  ASSUME BufferInv, Refusing
  PROVE  BufferInv'
<1>1. /\ k \in Index
      /\ \E code \in Int :
           /\ Refuses(code)
           /\ code <= 0
           /\ \/ code \notin {SMALL_BUFFER, ENTITY_HEADER, INT_CMP_COL_TOO_LARGE}
              \/ code = SMALL_BUFFER /\ ~ query /\ Start > capacity
  BY RefusingFacts DEF BufferInv
<1>2. PICK code \in Int :
           /\ Refuses(code)
           /\ code <= 0
           /\ \/ code \notin {SMALL_BUFFER, ENTITY_HEADER, INT_CMP_COL_TOO_LARGE}
              \/ code = SMALL_BUFFER /\ ~ query /\ Start > capacity
  BY <1>1
<1>3. Fails(code) /\ UNCHANGED <<cost, high, up>>
  BY <1>2 DEF Refuses
<1>4. Inside
  BY <1>3 DEF BufferInv, Space, Inside, TypeOK, BufferType
<1>5. /\ cost' \in [Index -> Cost]
      /\ up' \in [Index -> {"kept", "partial", "encoded", "copied"}]
  BY <1>3 DEF BufferInv, TypeOK, InputType, BufferType
<1>6. code = SMALL_BUFFER /\ Start > capacity => (Bound(chunk) > 0 => capacity < Bound(chunk))
  <2>1. SUFFICES ASSUME code = SMALL_BUFFER, Start > capacity, Bound(chunk) > 0,
                        ~ (capacity < Bound(chunk))
                 PROVE  FALSE
    OBVIOUS
  <2>2. pc # "idle" /\ chunk.off[k + 1] <= chunk.size
    <3>1. CASE NoRoomForHeader
      BY <3>1 DEF NoRoomForHeader, Whole, AtCollection
    <3>2. CASE OtherType \/ FailsCheck
      <4>1. result' = SMALL_BUFFER
        BY <1>2, <1>3, <2>1, FailsFacts DEF BufferInv
      <4>2. CASE OtherType
        BY <4>1, <4>2 DEF OtherType, Refuses, Fails, Return, SMALL_BUFFER,
                          CHUNK_SUBSERVICE_INCONSISTENT
      <4>3. CASE FailsCheck
        <5>1. k \in Index /\ result' = chunk.check[k]
          BY <4>3 DEF FailsCheck, Whole, AtCollection, Refuses, Fails, Return
        <5>2. chunk.check[k] # SMALL_BUFFER
          BY <5>1, ChunkFacts, CheckCodes DEF BufferInv, TypeOK
        <5> QED
          BY <4>1, <5>1, <5>2
      <4> QED
        BY <3>2, <4>2, <4>3
    <3> QED
      BY <3>1, <3>2 DEF Refusing
  <2>3. capacity \in Nat /\ Bound(chunk) \in Nat /\ Start \in Nat /\ chunk.len[k] \in Nat
    BY <1>1, <2>1, BoundFacts, StartFacts DEF BufferInv, TypeOK
  <2>4. Start + chunk.len[k] <= capacity
    BY <1>1, <2>1, <2>2, <2>3, RoomForRaw
  <2> QED
    BY <2>1, <2>3, <2>4
<1> QED
  BY <1>2, <1>3, <1>4, <1>5, <1>6, FailingBuffer

\* ... when a collection is stored or fails on the way,
LEMMA StoringBuffer ==
  ASSUME BufferInv, Storing
  PROVE  BufferInv'
<1>1. Outcome /\ k \in Index
  BY StoringOutcome DEF BufferInv, Space
<1>2. /\ cost' \in [Index -> Cost]
      /\ up' \in [Index -> {"kept", "partial", "encoded", "copied"}]
  BY MemoryType DEF BufferInv
<1>3. pc = "collections" /\ chunk.off[k + 1] <= chunk.size
  BY DEF Storing, RawCollection, Compressed, StoredRaw, Tight, HeaderCopied, Whole, AtCollection
<1>4. /\ chunk.n \in Nat /\ k \in Nat /\ k <= chunk.n /\ k + 1 \in 1 .. chunk.n + 1
      /\ chunk.off[k] \in Nat /\ chunk.len[k] \in Nat /\ chunk.off[k + 1] \in Nat
      /\ chunk.off[k + 1] = chunk.off[k] + 12 + chunk.len[k]
  BY <1>1, ChunkFacts DEF BufferInv, TypeOK, Index, COLLECTION_HDR_SIZE
<1>5. /\ Start \in Nat /\ capacity \in Nat /\ dst_size \in Nat
      /\ dst_size + 12 <= Start /\ Start <= dst_size + 14
  BY <1>1, StartFacts DEF BufferInv, TypeOK, BufferType, COLLECTION_HDR_SIZE,
                          CMP_COLLECTION_FILD_SIZE
<1>6. Inside
  BY <1>1 DEF Outcome
<1>7. CASE OutOfSpace
  <2>1. Fails(SMALL_BUFFER) /\ ~ query /\ capacity < Start + chunk.len[k]
    BY <1>7 DEF OutOfSpace
  <2>2. Bound(chunk) > 0 => capacity < Bound(chunk)
    <3>1. SUFFICES ASSUME Bound(chunk) > 0, ~ (capacity < Bound(chunk)) PROVE FALSE
      OBVIOUS
    <3>2. Bound(chunk) \in Nat
      BY <3>1, BoundFacts DEF BufferInv, TypeOK
    <3>3. Start + chunk.len[k] <= capacity
      BY <1>1, <1>3, <1>5, <3>1, <3>2, RoomForRaw
    <3> QED
      BY <1>4, <1>5, <2>1, <3>3
  <2>3. SMALL_BUFFER \in Int /\ SMALL_BUFFER <= 0
    BY DEF SMALL_BUFFER
  <2> QED
    BY <1>2, <1>6, <2>1, <2>2, <2>3, FailingBuffer
<1>8. ASSUME NEW field \in 0 .. chunk.len[k], NEW raw \in BOOLEAN, NowStored(field, raw)
      PROVE  BufferInv'
  <2>1. /\ dst_size' = Start + field /\ k' = k + 1
        /\ out' = Append(out, [begin |-> dst_size, field |-> field, raw |-> raw])
        /\ ~ query => dst_size' <= high'
        /\ UNCHANGED <<chunk, mode, update, fits, query, capacity, pc, result, asked>>
    BY <1>8 DEF NowStored, input, args
  <2>2. InputType' /\ CallType'
    <3>1. InputType'
      BY <1>2, <2>1 DEF BufferInv, TypeOK, InputType, Index
    <3>2. CallType'
      BY <2>1 DEF BufferInv, TypeOK, CallType
    <3> QED
      BY <3>1, <3>2
  <2>3. BufferType'
    <3>1. dst_size' \in Nat /\ high' \in Nat
      BY <1>4, <1>5, <1>6, <2>1 DEF Inside
    <3>2. [begin |-> dst_size, field |-> field, raw |-> raw] \in Stored
      BY <1>4, <1>5 DEF Stored
    <3>3. out' \in Seq(Stored)
      BY <2>1, <3>2 DEF BufferInv, TypeOK, BufferType
    <3>4. k' \in 1 .. chunk'.n + 1
      BY <1>4, <2>1
    <3> QED
      BY <1>2, <2>1, <3>1, <3>3, <3>4 DEF BufferType, Index
  <2>4. Space'
    BY <1>6, <2>1 DEF Inside, Space
  <2>5. Loop'
    <3>1. /\ HeaderSize <= dst_size /\ dst_size <= HeaderSize + chunk.off[k] + 2 * (k - 1)
          /\ ~ query => HeaderSize <= capacity
      BY <1>3 DEF BufferInv, Loop
    <3>2. HeaderSize' = HeaderSize
      BY <2>1 DEF HeaderSize
    <3>3. field \in Nat /\ field <= chunk.len[k]
      BY <1>4
    <3>4. dst_size' <= dst_size + 14 + chunk.len[k]
      <4>1. dst_size' = Start + field
        BY <2>1
      <4> QED
        BY <1>4, <1>5, <3>3, <4>1
    <3>5. dst_size' \in Nat
      BY <1>5, <2>1, <3>3
    <3>6. dst_size' <= HeaderSize + chunk.off[k + 1] + 2 * k
      BY <1>4, <1>5, <3>1, <3>4, <3>5, HeaderFacts
    <3>7. k' - 1 = k /\ chunk'.off[k'] = chunk.off[k + 1]
      BY <1>4, <2>1
    <3>8. dst_size' <= HeaderSize' + chunk'.off[k'] + 2 * (k' - 1)
      BY <3>2, <3>6, <3>7
    <3>9. HeaderSize' <= dst_size'
      BY <1>5, <2>1, <3>1, <3>2, <3>3, HeaderFacts
    <3> QED
      BY <2>1, <3>1, <3>2, <3>8, <3>9 DEF Loop
  <2>6. NoOverrun' /\ BoundSuffices'
    BY <1>3, <2>1, <2>4 DEF NoOverrun, BoundSuffices, Success, Done, Space
  <2> QED
    BY <2>2, <2>3, <2>4, <2>5, <2>6 DEF BufferInv, TypeOK
<1> QED
  BY <1>1, <1>7, <1>8 DEF Outcome

\* ... when the walk through the chunk ends,
LEMMA LastCollectionBuffer ==
  ASSUME BufferInv, LastCollection
  PROVE  BufferInv'
<1>1. /\ pc = "collections" /\ pc' = "header"
      /\ UNCHANGED <<chunk, mode, update, fits, cost, query, capacity, k, dst_size, high, out, up,
                     result, asked>>
  BY DEF LastCollection, input, args
<1>2. InputType' /\ CallType' /\ BufferType'
  BY <1>1 DEF BufferInv, TypeOK, InputType, CallType, BufferType, Index
<1>3. Space' /\ Loop'
  BY <1>1 DEF BufferInv, Space, Loop, HeaderSize
<1>4. NoOverrun' /\ BoundSuffices'
  BY <1>1, <1>3 DEF NoOverrun, BoundSuffices, Success, Done, Space
<1> QED
  BY <1>2, <1>3, <1>4 DEF BufferInv, TypeOK

\* The walk ended at the end of the chunk: all collections are in the buffer.
LEMMA WholeChunk ==
  ASSUME InputType, k \in 1 .. chunk.n + 1, chunk.off[k] = chunk.size
  PROVE  k = chunk.n + 1
<1>1. SUFFICES ASSUME k # chunk.n + 1 PROVE FALSE
  OBVIOUS
<1>2. k \in Index
  BY <1>1, ChunkFacts DEF Index
<1>3. chunk.off[k] <= chunk.size - COLLECTION_HDR_SIZE /\ chunk.size \in Nat
  BY <1>2, ChunkAssumption DEF InputType, ChunkType, Index
<1> QED
  BY <1>3 DEF COLLECTION_HDR_SIZE

\* ... and when the entity header is built and the call returns.
LEMMA BuildHeaderBuffer ==
  ASSUME BufferInv, BuildHeader
  PROVE  BufferInv'
<1>1. pc = "header" /\ UNCHANGED <<chunk, mode, update, fits, cost, query, capacity, k, dst_size, out, up>>
  BY DEF BuildHeader, input, args
<1>2. /\ k \in 1 .. chunk.n + 1 /\ chunk.n \in Nat /\ k \in Nat /\ chunk.off[k] \in Nat
      /\ chunk.size \in Nat /\ dst_size \in Nat /\ high \in Nat /\ capacity \in Nat
  BY ChunkFacts, SizeAssumption DEF BufferInv, TypeOK, BufferType, CallType
<1>3. /\ dst_size <= HeaderSize + chunk.off[k] + 2 * (k - 1)
      /\ ~ query => dst_size <= high \/ dst_size = HeaderSize
      /\ ~ query => HeaderSize <= capacity
      /\ high <= capacity /\ (query => high = 0)
  BY <1>1 DEF BufferInv, Loop, Space
<1>4. PICK r \in Int :
        /\ Return(r, query)
        /\ \/ r = CHUNK_SIZE_INCONSISTENT /\ high' = high
           \/ chunk.off[k] = chunk.size /\ query /\ r = dst_size /\ high' = high
           \/ /\ chunk.off[k] = chunk.size /\ ~ query
              /\ \/ HeaderRefused /\ r = ENTITY_HEADER
                 \/ r = ENTITY_TIMESTAMP
                 \/ r = dst_size
              /\ high' = MaxOf(high, HeaderSize)
  <2>1. CASE Return(CHUNK_SIZE_INCONSISTENT, query) /\ UNCHANGED high
    BY <2>1 DEF CHUNK_SIZE_INCONSISTENT
  <2>2. CASE chunk.off[k] = chunk.size /\ query /\ Return(dst_size, query) /\ UNCHANGED high
    <3>1. dst_size \in Int /\ high' = high
      BY <1>2, <2>2
    <3> QED
      BY <2>2, <3>1, Zenon
  <2>3. CASE /\ chunk.off[k] = chunk.size /\ ~ query
             /\ \/ HeaderRefused /\ Return(ENTITY_HEADER, query)
                \/ Return(ENTITY_TIMESTAMP, query)
                \/ Return(dst_size, query)
             /\ high' = MaxOf(high, HeaderSize)
    BY <1>2, <2>3 DEF ENTITY_HEADER, ENTITY_TIMESTAMP
  <2>4. \/ Return(CHUNK_SIZE_INCONSISTENT, query) /\ UNCHANGED high
        \/ chunk.off[k] = chunk.size /\ query /\ Return(dst_size, query) /\ UNCHANGED high
        \/ /\ chunk.off[k] = chunk.size /\ ~ query
           /\ \/ HeaderRefused /\ Return(ENTITY_HEADER, query)
              \/ Return(ENTITY_TIMESTAMP, query)
              \/ Return(dst_size, query)
           /\ high' = MaxOf(high, HeaderSize)
    BY DEF BuildHeader
  <2> QED
    BY <2>1, <2>2, <2>3, <2>4
<1>5. pc' = "idle" /\ result' = r
  BY <1>4 DEF Return
<1>6. /\ high' \in Nat /\ high' <= capacity /\ (query => high' = 0)
      /\ ~ query /\ r = dst_size => dst_size <= high'
  <2>1. CASE high' = high /\ (query \/ r # dst_size)
    BY <1>2, <1>3, <2>1
  <2>2. CASE ~ query /\ high' = MaxOf(high, HeaderSize)
    BY <1>2, <1>3, <2>2, HeaderFacts DEF MaxOf
  <2> QED
    BY <1>2, <1>4, <2>1, <2>2 DEF CHUNK_SIZE_INCONSISTENT
<1>7. InputType' /\ CallType' /\ BufferType'
  <2>1. InputType'
    BY <1>1 DEF BufferInv, TypeOK, InputType, Index
  <2>2. CallType'
    BY <1>1, <1>4, ReturnType DEF BufferInv, TypeOK, CallType
  <2>3. BufferType'
    BY <1>1, <1>6 DEF BufferInv, TypeOK, BufferType, Index
  <2> QED
    BY <2>1, <2>2, <2>3
<1>8. Space' /\ Loop'
  BY <1>1, <1>5, <1>6 DEF Space, Loop
<1>9. NoOverrun'
  BY <1>1, <1>2, <1>4, <1>5, <1>6 DEF NoOverrun, Success, Done, CHUNK_SIZE_INCONSISTENT,
                                  ENTITY_HEADER, ENTITY_TIMESTAMP
<1>10. BoundSuffices'
  <2>1. SUFFICES ASSUME ~ query', Bound(chunk') > 0, capacity' >= Bound(chunk')
                 PROVE  /\ result' \notin {SMALL_BUFFER, INT_CMP_COL_TOO_LARGE}
                        /\ fits' => result' # ENTITY_HEADER
                        /\ result' <= Bound(chunk')
    BY DEF BoundSuffices
  <2>2. /\ Bound(chunk) \in Nat /\ Bound(chunk) >= 64 + chunk.n * 2 + chunk.size
        /\ Bound(chunk) <= CMP_ENTITY_MAX_SIZE /\ CMP_ENTITY_MAX_SIZE \in Nat
    BY <1>1, <2>1, BoundFacts, ChunkFacts DEF BufferInv, TypeOK
  <2>3. chunk.off[k] = chunk.size => dst_size <= Bound(chunk)
    BY <1>2, <1>3, <2>2, HeaderFacts
  <2>4. /\ r <= Bound(chunk) /\ r \notin {SMALL_BUFFER, INT_CMP_COL_TOO_LARGE}
        /\ fits => r # ENTITY_HEADER
    <3>1. CASE r = CHUNK_SIZE_INCONSISTENT \/ r = ENTITY_TIMESTAMP
      BY <2>2, <3>1 DEF CHUNK_SIZE_INCONSISTENT, ENTITY_TIMESTAMP, SMALL_BUFFER,
                        ENTITY_HEADER, INT_CMP_COL_TOO_LARGE
    <3>2. CASE chunk.off[k] = chunk.size /\ r = dst_size
      BY <1>2, <2>2, <2>3, <3>2 DEF SMALL_BUFFER, ENTITY_HEADER, INT_CMP_COL_TOO_LARGE
    <3>3. CASE chunk.off[k] = chunk.size /\ HeaderRefused /\ r = ENTITY_HEADER
      BY <1>2, <2>2, <2>3, <3>3 DEF HeaderRefused, SMALL_BUFFER, ENTITY_HEADER,
                                    INT_CMP_COL_TOO_LARGE
    <3> QED
      BY <1>4, <3>1, <3>2, <3>3
  <2> QED
    BY <1>1, <1>5, <2>4
<1> QED
  BY <1>7, <1>8, <1>9, <1>10 DEF BufferInv, TypeOK

\* Every step keeps the inductive invariant.
LEMMA NextBuffer == BufferInv /\ [Next]_vars => BufferInv'
<1> SUFFICES ASSUME BufferInv, [Next]_vars PROVE BufferInv'
  OBVIOUS
<1>1. CASE CompressChunk(TRUE, 0)
  BY <1>1, CompressChunkBuffer
<1>2. ASSUME NEW cap \in Capacity, CompressChunk(FALSE, cap) PROVE BufferInv'
  BY <1>2, CompressChunkBuffer
<1>3. CASE Collection
  <2>1. Storing \/ Refusing
    BY <1>3 DEF Collection, Storing, Refusing
  <2> QED
    BY <2>1, StoringBuffer, RefusingBuffer
<1>4. CASE LastCollection
  BY <1>4, LastCollectionBuffer
<1>5. CASE BuildHeader
  BY <1>5, BuildHeaderBuffer
<1>6. CASE UNCHANGED vars
  <2>1. UNCHANGED <<chunk, mode, update, fits, cost, pc, query, capacity, k, dst_size, high, out, up,
                    result, asked>>
    BY <1>6 DEF vars, input, args
  <2> QED
    BY <2>1 DEF BufferInv, TypeOK, InputType, CallType, BufferType, Index, Space, Loop, HeaderSize,
                NoOverrun, BoundSuffices, Success, Done
<1> QED
  BY <1>1, <1>2, <1>3, <1>4, <1>5, <1>6 DEF Next

\* The inductive invariant holds throughout.
LEMMA BufferCorrect == Spec => []BufferInv
BY InitBuffer, NextBuffer, PTL DEF Spec

\* Every variable keeps its type, for chunks of any shape.
THEOREM TypeCorrect == Spec => []TypeOK
<1>1. BufferInv => TypeOK
  BY DEF BufferInv
<1> QED
  BY <1>1, BufferCorrect, PTL

\* compress_chunk() never writes behind the end of dst, whatever its capacity
\* and whatever the encoders make of the data.
THEOREM NoOverrunCorrect == Spec => []NoOverrun
<1>1. BufferInv => NoOverrun
  BY DEF BufferInv
<1> QED
  BY <1>1, BufferCorrect, PTL

\* A buffer of the size compress_chunk_cmp_size_bound() returns is never too small,
\* for any chunk; no collection outgrows its size field; and the header refuses the
\* entity only for a parameter no check has looked at (model value, parameters of the
\* pairs the chunk does not use), never for its size.
THEOREM BoundCorrect == Spec => []BoundSuffices
<1>1. BufferInv => BoundSuffices
  BY DEF BufferInv
<1> QED
  BY <1>1, BufferCorrect, PTL

-----------------------------------------------------------------------------
(* The layout of the entity.  Where the loop is, the collections before k   *)
(* lie in dst one behind the other, and the updated model agrees with how   *)
(* each of them is stored.                                                  *)

Fields(i) ==
  /\ out[i].begin = IF i = 1 THEN HeaderSize ELSE EndOf(i - 1)
  /\ out[i].field <= chunk.len[i]
  /\ chunk.len[i] > 0 => (out[i].raw <=> out[i].field = chunk.len[i])

Model(i) ==
  ModelMode /\ update # "none" /\ chunk.len[i] > 0 =>
    up[i] = IF out[i].field = chunk.len[i] THEN "copied" ELSE "encoded"

Laid ==
  pc # "idle" =>
    /\ chunk.size >= COLLECTION_HDR_SIZE
    /\ Len(out) = k - 1
    /\ \A i \in 1 .. k - 1 : Fields(i) /\ Model(i)
    /\ dst_size = IF k = 1 THEN HeaderSize ELSE EndOf(k - 1)

LayoutInv == Laid /\ Parseable /\ ModelTracks

\* A call that returns no size leaves nothing to parse.
LEMMA NoSuccess ==
  ASSUME pc' = "idle", result' \in Int, result' <= 0
  PROVE  LayoutInv'
BY DEF LayoutInv, Laid, Parseable, ModelTracks, Success

\* One collection more.
LEMMA StoredLayout ==
  ASSUME BufferInv, LayoutInv, Storing, NEW field \in 0 .. chunk.len[k], NEW raw \in BOOLEAN,
         NowStored(field, raw)
  PROVE  LayoutInv'
<1>1. k \in Index /\ pc = "collections"
  BY DEF Storing, RawCollection, Compressed, StoredRaw, Tight, HeaderCopied, Whole, AtCollection
<1>2. /\ k \in Nat /\ k >= 1 /\ k <= chunk.n /\ chunk.n \in Nat /\ chunk.len[k] \in Nat
      /\ dst_size \in Nat /\ out \in Seq(Stored) /\ field \in Nat /\ field <= chunk.len[k]
  BY <1>1, ChunkFacts DEF BufferInv, TypeOK, BufferType, Index
<1>3. /\ chunk.size >= COLLECTION_HDR_SIZE
      /\ Len(out) = k - 1
      /\ \A i \in 1 .. k - 1 : Fields(i) /\ Model(i)
      /\ dst_size = IF k = 1 THEN HeaderSize ELSE EndOf(k - 1)
  BY <1>1 DEF LayoutInv, Laid
<1> DEFINE rec == [begin |-> dst_size, field |-> field, raw |-> raw]
<1>4. /\ chunk.len[k] > 0 => (raw <=> field = chunk.len[k])
      /\ dst_size' = Start + field /\ k' = k + 1 /\ out' = Append(out, rec)
      /\ UNCHANGED <<chunk, mode, update, fits, query, capacity, pc, result, asked>>
  BY DEF NowStored, input, args
<1>5. rec \in Stored
  BY <1>2 DEF Stored
<1>6. /\ Len(out') = k
      /\ out'[k] = rec
      /\ \A i \in 1 .. k - 1 : out'[i] = out[i]
  <2> HIDE DEF rec
  <2> QED
    BY <1>2, <1>3, <1>4, <1>5
<1>7. PICK j : j = k
  OBVIOUS
<1>8. /\ Len(out') = j /\ j \in Nat /\ j >= 1
      /\ out'[j].begin = dst_size /\ out'[j].field = field /\ out'[j].raw = raw
      /\ \A i \in 1 .. j - 1 : out'[i] = out[i]
  BY <1>2, <1>6, <1>7
<1> HIDE DEF rec
<1>9. /\ \A i \in 1 .. j - 1 : EndOf(i)' = EndOf(i)
      /\ HeaderSize' = HeaderSize
  BY <1>4, <1>8 DEF EndOf, HeaderSize
<1>10. ASSUME NEW i \in 1 .. j PROVE Fields(i)'
  <2>1. CASE i = j
    <3>1. j # 1 => EndOf(j - 1)' = EndOf(j - 1)
      BY <1>8, <1>9
    <3>2. dst_size = IF j = 1 THEN HeaderSize' ELSE EndOf(j - 1)'
      BY <1>3, <1>7, <1>9, <3>1
    <3> QED
      BY <1>2, <1>4, <1>7, <1>8, <2>1, <3>2 DEF Fields
  <2>2. CASE i # j
    <3>1. i \in 1 .. j - 1 /\ Fields(i) /\ out'[i] = out[i]
      BY <1>3, <1>7, <1>8, <1>10, <2>2
    <3>2. i # 1 => EndOf(i - 1)' = EndOf(i - 1)
      BY <1>8, <1>9, <3>1
    <3> QED
      BY <1>4, <1>9, <3>1, <3>2 DEF Fields
  <2> QED
    BY <2>1, <2>2
<1>11. ASSUME NEW i \in 1 .. j PROVE Model(i)'
  <2>1. /\ up \in [Index -> {"kept", "partial", "encoded", "copied"}]
        /\ up' = IF ModelMode /\ update # "none" /\ chunk.len[k] > 0
                 THEN [up EXCEPT ![k] = IF raw THEN "copied" ELSE "encoded"] ELSE up
    BY DEF BufferInv, TypeOK, BufferType, NowStored
  <2>2. ModelMode' = ModelMode
    BY <1>4 DEF ModelMode
  <2>3. CASE i = j
    BY <1>1, <1>4, <1>7, <1>8, <2>1, <2>2, <2>3 DEF Model
  <2>4. CASE i # j
    <3>1. i \in 1 .. j - 1 /\ i \in Index /\ i # k
      BY <1>2, <1>7, <1>8, <1>11, <2>4 DEF Index
    <3>2. Model(i) /\ out'[i] = out[i]
      BY <1>3, <1>7, <1>8, <3>1
    <3>3. up'[i] = up[i]
      BY <2>1, <3>1
    <3> QED
      BY <1>4, <2>2, <3>2, <3>3 DEF Model
  <2> QED
    BY <2>3, <2>4
<1>12. dst_size' = EndOf(j)'
  <2>1. EndOf(j)' = dst_size + COLLECTION_HDR_SIZE + field
                    + IF mode = "raw" THEN 0 ELSE CMP_COLLECTION_FILD_SIZE
    BY <1>4, <1>8 DEF EndOf
  <2> QED
    BY <1>2, <1>4, <2>1 DEF Start, COLLECTION_HDR_SIZE, CMP_COLLECTION_FILD_SIZE
<1>13. Laid'
  <2>1. k' # 1 /\ k' - 1 = j
    BY <1>4, <1>7, <1>8
  <2>2. \A i \in 1 .. k' - 1 : Fields(i)' /\ Model(i)'
    BY <1>10, <1>11, <2>1
  <2> QED
    BY <1>3, <1>4, <1>8, <1>12, <2>1, <2>2 DEF Laid
<1>14. pc' # "idle"
  BY <1>1, <1>4
<1> QED
  BY <1>13, <1>14 DEF LayoutInv, Parseable, ModelTracks, Success, Done

\* Before the first call nothing is laid out.
LEMMA InitLayout == Init => LayoutInv
BY DEF Init, LayoutInv, Laid, Parseable, ModelTracks, Success, Done

\* A call starts with an empty layout.
LEMMA CompressChunkLayout ==
  ASSUME BufferInv, NEW q \in BOOLEAN, NEW cap \in Capacity \cup {0}, CompressChunk(q, cap)
  PROVE  LayoutInv'
<1>1. /\ UNCHANGED <<chunk, mode, fits>> /\ k' = 1 /\ dst_size' = HeaderSize /\ out' = <<>>
  BY DEF CompressChunk, input
<1>2. CASE EntryError(q, cap) = NO_ERROR
  <2>1. pc' = "collections"
    BY <1>2 DEF CompressChunk
  <2>2. chunk.size >= COLLECTION_HDR_SIZE
    <3>1. chunk.size \in Nat
      BY ChunkFacts DEF BufferInv, TypeOK
    <3> QED
      BY <1>2, <3>1 DEF EntryError, NO_ERROR, CHUNK_SIZE_INCONSISTENT, COLLECTION_HDR_SIZE
  <2>3. Laid'
    <3>1. Len(out') = k' - 1 /\ 1 .. k' - 1 = {} /\ HeaderSize' = HeaderSize
      BY <1>1 DEF HeaderSize
    <3> QED
      BY <1>1, <2>2, <3>1 DEF Laid
  <2> QED
    BY <2>1, <2>3 DEF LayoutInv, Parseable, ModelTracks, Success, Done
<1>3. CASE EntryError(q, cap) # NO_ERROR
  <2>1. pc' = "idle" /\ result' = EntryError(q, cap)
    BY <1>3 DEF CompressChunk, Return
  <2>2. EntryError(q, cap) \in Int /\ EntryError(q, cap) <= 0
    BY DEF EntryError, NO_ERROR, SMALL_BUFFER, CHUNK_SIZE_INCONSISTENT, CHUNK_TOO_LARGE,
           COL_SUBSERVICE_UNSUPPORTED
  <2> QED
    BY <2>1, <2>2, NoSuccess
<1> QED
  BY <1>2, <1>3

\* A collection is refused, fails, or is laid out behind the last one.
LEMMA CollectionLayout ==
  ASSUME BufferInv, LayoutInv, Collection
  PROVE  LayoutInv'
<1>1. CASE Refusing
  <2>1. PICK code \in Int : Fails(code) /\ code <= 0
    BY <1>1, RefusingFacts DEF BufferInv, Refuses
  <2> QED
    BY <2>1, FailsFacts, NoSuccess DEF BufferInv
<1>2. CASE Storing
  <2>1. Outcome
    BY <1>2, StoringOutcome DEF BufferInv, Space
  <2>2. CASE OutOfSpace
    <3>1. Fails(SMALL_BUFFER) /\ SMALL_BUFFER \in Int /\ SMALL_BUFFER <= 0
      BY <2>2 DEF OutOfSpace, SMALL_BUFFER
    <3> QED
      BY <3>1, FailsFacts, NoSuccess DEF BufferInv
  <2>3. CASE \E field \in 0 .. chunk.len[k], raw \in BOOLEAN : NowStored(field, raw)
    BY <1>2, <2>3, StoredLayout
  <2> QED
    BY <2>1, <2>2, <2>3 DEF Outcome
<1> QED
  BY <1>1, <1>2 DEF Collection, Refusing, Storing

\* An entity that is returned contains all collections of the chunk.
LEMMA BuildHeaderLayout ==
  ASSUME BufferInv, LayoutInv, BuildHeader
  PROVE  LayoutInv'
<1>1. /\ pc = "header" /\ pc' = "idle"
      /\ UNCHANGED <<chunk, mode, update, fits, query, k, dst_size, out, up>>
  BY DEF BuildHeader, Return, input, args
<1>2. /\ chunk.size >= COLLECTION_HDR_SIZE
      /\ Len(out) = k - 1
      /\ \A i \in 1 .. k - 1 : Fields(i) /\ Model(i)
      /\ dst_size = IF k = 1 THEN HeaderSize ELSE EndOf(k - 1)
  BY <1>1 DEF LayoutInv, Laid
<1>3. k \in 1 .. chunk.n + 1 /\ chunk.n \in Nat /\ chunk.size \in Nat /\ chunk.off[1] = 0
  BY ChunkFacts DEF BufferInv, TypeOK, BufferType
<1>4. CASE result' \in Int /\ result' <= 0
  BY <1>1, <1>4, NoSuccess
<1>5. CASE chunk.off[k] = chunk.size /\ result' = dst_size
  <2>1. k = chunk.n + 1 /\ k # 1
    <3>1. InputType
      BY DEF BufferInv, TypeOK
    <3>2. k = chunk.n + 1
      BY <1>3, <1>5, <3>1, WholeChunk
    <3>3. k # 1
      BY <1>2, <1>3, <1>5 DEF COLLECTION_HDR_SIZE
    <3> QED
      BY <3>2, <3>3
  <2>2. /\ \A i \in Index : EndOf(i)' = EndOf(i)
        /\ \A i \in Index : i # 1 => EndOf(i - 1)' = EndOf(i - 1)
        /\ HeaderSize' = HeaderSize /\ ModelMode' = ModelMode
    BY <1>1 DEF EndOf, HeaderSize, ModelMode
  <2>3. Index = 1 .. k - 1 /\ Index' = Index /\ chunk.n \in Index
    BY <1>1, <1>3, <2>1 DEF Index
  <2>4. Len(out') = chunk'.n /\ result' = EndOf(chunk.n)
    BY <1>1, <1>2, <1>3, <1>5, <2>1
  <2>5. Parseable'
    <3>1. \A i \in Index' :
            /\ out'[i].begin = IF i = 1 THEN HeaderSize' ELSE EndOf(i - 1)'
            /\ out'[i].field <= chunk'.len[i]
            /\ chunk'.len[i] > 0 => (out'[i].raw <=> out'[i].field = chunk'.len[i])
      BY <1>1, <1>2, <2>2, <2>3 DEF Fields
    <3>2. PICK n : n = chunk.n
      OBVIOUS
    <3>3. result' = EndOf(n)' /\ chunk'.n = n
      BY <1>1, <2>2, <2>3, <2>4, <3>2
    <3>4. EndOf(n)' = out'[n].begin + COLLECTION_HDR_SIZE + out'[n].field
            + IF mode' = "raw" THEN 0 ELSE CMP_COLLECTION_FILD_SIZE
      BY DEF EndOf
    <3> QED
      BY <2>4, <3>1, <3>3, <3>4 DEF Parseable, EndOf
  <2>6. ModelTracks'
    BY <1>1, <1>2, <2>2, <2>3 DEF ModelTracks, Model
  <2>7. Laid'
    BY <1>1 DEF Laid
  <2> QED
    BY <2>5, <2>6, <2>7 DEF LayoutInv
<1>6. \/ result' \in Int /\ result' <= 0
      \/ chunk.off[k] = chunk.size /\ result' = dst_size
  BY DEF BuildHeader, Return, CHUNK_SIZE_INCONSISTENT, ENTITY_HEADER, ENTITY_TIMESTAMP
<1> QED
  BY <1>4, <1>5, <1>6

\* Every step keeps the layout.
LEMMA NextLayout == BufferInv /\ LayoutInv /\ [Next]_vars => LayoutInv'
<1> SUFFICES ASSUME BufferInv, LayoutInv, [Next]_vars PROVE LayoutInv'
  OBVIOUS
<1>1. CASE CompressChunk(TRUE, 0)
  BY <1>1, CompressChunkLayout
<1>2. ASSUME NEW cap \in Capacity, CompressChunk(FALSE, cap) PROVE LayoutInv'
  BY <1>2, CompressChunkLayout
<1>3. CASE Collection
  BY <1>3, CollectionLayout
<1>4. CASE LastCollection
  <2>1. /\ pc' = "header" /\ pc = "collections"
        /\ UNCHANGED <<chunk, mode, update, fits, k, dst_size, out, up>>
    BY <1>4 DEF LastCollection, input
  <2> QED
    BY <2>1 DEF LayoutInv, Laid, Fields, Model, EndOf, HeaderSize, ModelMode, Parseable,
                ModelTracks, Success, Done
<1>5. CASE BuildHeader
  BY <1>5, BuildHeaderLayout
<1>6. CASE UNCHANGED vars
  BY <1>6 DEF vars, input, args, LayoutInv, Laid, Fields, Model, EndOf, HeaderSize, ModelMode,
              Parseable, ModelTracks, Success, Done, Index
<1> QED
  BY <1>1, <1>2, <1>3, <1>4, <1>5, <1>6 DEF Next

\* The layout invariant holds throughout.
LEMMA LayoutCorrect == Spec => []LayoutInv
BY InitLayout, NextLayout, BufferCorrect, PTL DEF Spec

\* From the size fields alone the decompressor finds every collection of every
\* entity, and tells a collection stored raw from an encoded one.
THEOREM ParseableCorrect == Spec => []Parseable
<1>1. LayoutInv => Parseable
  BY DEF LayoutInv
<1> QED
  BY <1>1, LayoutCorrect, PTL

\* The updated model of every chunk is the one the decompressor will compute.
THEOREM ModelTracksCorrect == Spec => []ModelTracks
<1>1. LayoutInv => ModelTracks
  BY DEF LayoutInv
<1> QED
  BY <1>1, LayoutCorrect, PTL

-----------------------------------------------------------------------------
(* The checks.  Which of them stops a call, and where, depends on the chunk *)
(* only, so a query and the call behind it are stopped by the same one.     *)

Passes(i) ==
  chunk.type[i] = chunk.type[1] /\ chunk.off[i + 1] <= chunk.size /\ chunk.check[i] = NO_ERROR
Reached(j) == EntryError(TRUE, 0) = NO_ERROR /\ \A i \in 1 .. j - 1 : Passes(i)

\* The walk ends at collection j, or behind the last one, with an error.
StopsAt(j, code) ==
  /\ Reached(j)
  /\ IF j = chunk.n + 1 THEN chunk.off[j] # chunk.size /\ code = CHUNK_SIZE_INCONSISTENT
     ELSE IF chunk.type[j] # chunk.type[1] THEN code = CHUNK_SUBSERVICE_INCONSISTENT
     ELSE IF chunk.off[j + 1] > chunk.size THEN code = CHUNK_SIZE_INCONSISTENT
     ELSE code = chunk.check[j] /\ code # NO_ERROR

Judged(code) ==
  \/ EntryError(TRUE, 0) # NO_ERROR /\ code = EntryError(TRUE, 0)
  \/ \E j \in 1 .. chunk.n + 1 : StopsAt(j, code)
Accepted == Reached(chunk.n + 1) /\ chunk.off[chunk.n + 1] = chunk.size

\* What a call without a buffer may have returned, and what one with a buffer may.
Answer(code) == (Judged(code) /\ code < 0) \/ (Accepted /\ code > 0)
Outcomes(code) ==
  \/ code = SMALL_BUFFER
  \/ Judged(code) /\ code < 0
  \/ Accepted /\ (code > 0 \/ code \in OfTheBuffer)

VerdictInv ==
  /\ pc # "idle" => Reached(k)
  /\ pc = "header" => k = chunk.n + 1 \/ (chunk.type[k] = chunk.type[1] /\ chunk.off[k + 1] > chunk.size)
  /\ asked # NO_ERROR => Answer(asked)
  /\ Done => IF query THEN Answer(result) ELSE Outcomes(result)

\* Two errors of the checks are one.
LEMMA OneVerdict ==
  ASSUME InputType, NEW a, NEW b, Judged(a), Judged(b)
  PROVE  a = b /\ ~ Accepted
<1>1. chunk.n \in Nat /\ \A i \in 1 .. chunk.n + 1 : chunk.off[i] \in Nat
  BY ChunkFacts
<1>2. chunk.size \in Nat
  BY ChunkFacts
<1>3. ASSUME NEW j \in 1 .. chunk.n + 1, NEW c, StopsAt(j, c)
      PROVE  j # chunk.n + 1 => ~ Passes(j)
  <2>1. j # chunk.n + 1 => chunk.off[j + 1] \in Nat
    BY <1>1
  <2> QED
    BY <1>2, <1>3, <2>1 DEF StopsAt, Passes
<1>4. ASSUME NEW i \in 1 .. chunk.n + 1, NEW j \in 1 .. chunk.n + 1, NEW c, NEW d,
             StopsAt(i, c), StopsAt(j, d)
      PROVE  ~ (i < j)
  <2>1. SUFFICES ASSUME i < j PROVE FALSE
    OBVIOUS
  <2>2. i \in 1 .. j - 1 /\ i # chunk.n + 1
    BY <1>1, <2>1
  <2>3. Passes(i)
    BY <1>4, <2>2 DEF StopsAt, Reached
  <2> QED
    BY <1>3, <1>4, <2>2, <2>3
<1>5. CASE EntryError(TRUE, 0) # NO_ERROR
  BY <1>5 DEF Judged, StopsAt, Reached, Accepted
<1>6. CASE EntryError(TRUE, 0) = NO_ERROR
  <2>1. PICK i \in 1 .. chunk.n + 1 : StopsAt(i, a)
    BY <1>6 DEF Judged
  <2>2. PICK j \in 1 .. chunk.n + 1 : StopsAt(j, b)
    BY <1>6 DEF Judged
  <2>3. i = j
    <3>1. ~ (i < j) /\ ~ (j < i)
      BY <1>4, <2>1, <2>2
    <3> QED
      BY <1>1, <3>1
  <2>4. a = b
    BY <2>1, <2>2, <2>3 DEF StopsAt
  <2>5. ~ Accepted
    <3>1. CASE i = chunk.n + 1
      BY <2>1, <3>1 DEF StopsAt, Accepted
    <3>2. CASE i # chunk.n + 1
      <4>1. i \in 1 .. (chunk.n + 1) - 1
        BY <1>1, <3>2
      <4> QED
        BY <1>3, <2>1, <3>2, <4>1 DEF Accepted, Reached
    <3> QED
      BY <3>1, <3>2
  <2> QED
    BY <2>4, <2>5
<1> QED
  BY <1>5, <1>6

\* No step changes what the checks depend on.
LEMMA VerdictKept ==
  ASSUME [Next]_vars
  PROVE  /\ UNCHANGED input
         /\ EntryError(TRUE, 0)' = EntryError(TRUE, 0)
         /\ \A j : Reached(j)' <=> Reached(j)
         /\ \A c : Judged(c)' <=> Judged(c)
         /\ Accepted' <=> Accepted
<1>1. UNCHANGED input
  <2>1. CASE \/ CompressChunk(TRUE, 0) \/ \E cap \in Capacity : CompressChunk(FALSE, cap)
             \/ LastCollection \/ BuildHeader \/ UNCHANGED vars
    BY <2>1 DEF CompressChunk, LastCollection, BuildHeader, vars
  <2>2. CASE Refusing
    BY <2>2 DEF Refusing, OtherType, FailsCheck, NoRoomForHeader, Refuses, Fails
  <2>3. CASE Storing
    BY <2>3 DEF Storing, RawCollection, Compressed, StoredRaw, Tight, Fails, Finish
  <2> QED
    BY <2>1, <2>2, <2>3 DEF Next, Collection, Refusing, Storing
<1>2. UNCHANGED <<chunk, mode, update, fits>>
  BY <1>1 DEF input
<1>3. EntryError(TRUE, 0)' = EntryError(TRUE, 0)
  BY <1>2 DEF EntryError
<1>4. ASSUME NEW j PROVE Reached(j)' <=> Reached(j)
  BY <1>2, <1>3 DEF Reached, Passes
<1>5. ASSUME NEW j, NEW c PROVE StopsAt(j, c)' <=> StopsAt(j, c)
  BY <1>2, <1>4 DEF StopsAt
<1>6. ASSUME NEW c PROVE Judged(c)' <=> Judged(c)
  BY <1>2, <1>3, <1>5 DEF Judged
<1>7. Accepted' <=> Accepted
  BY <1>2, <1>4 DEF Accepted
<1> QED
  BY <1>1, <1>3, <1>4, <1>6, <1>7

\* A call that returns with an outcome the checks allow keeps the invariant.
LEMMA ReturnVerdict ==
  ASSUME [Next]_vars, VerdictInv, NEW r, NEW q \in BOOLEAN, Return(r, q), query' = q,
         IF q THEN Answer(r) ELSE Outcomes(r)
  PROVE  VerdictInv'
<1>1. /\ pc' = "idle" /\ result' = r /\ asked' = IF q THEN r ELSE asked
      /\ \A c : Judged(c)' <=> Judged(c)
      /\ Accepted' <=> Accepted
  BY VerdictKept DEF Return
<1>2. \A c : (Answer(c)' <=> Answer(c)) /\ (Outcomes(c)' <=> Outcomes(c))
  BY <1>1 DEF Answer, Outcomes
<1>3. asked' # NO_ERROR => Answer(asked')
  BY <1>1 DEF VerdictInv
<1>4. IF query' THEN Answer(result') ELSE Outcomes(result')
  BY <1>1
<1> QED
  BY <1>1, <1>2, <1>3, <1>4 DEF VerdictInv

\* So does a call that goes on, having passed collection k or none.
LEMMA GoOnVerdict ==
  ASSUME [Next]_vars, VerdictInv, pc' # "idle", asked' = asked, Reached(k'),
         pc' = "header" =>
           k' = chunk.n + 1 \/ (chunk.type[k'] = chunk.type[1] /\ chunk.off[k' + 1] > chunk.size)
  PROVE  VerdictInv'
<1>1. /\ UNCHANGED chunk
      /\ \A j : Reached(j)' <=> Reached(j)
      /\ \A c : Judged(c)' <=> Judged(c)
      /\ Accepted' <=> Accepted
  BY VerdictKept DEF input
<1>2. \A c : Answer(c)' <=> Answer(c)
  BY <1>1 DEF Answer
<1>3. PICK j : j = k'
  OBVIOUS
<1>4. Reached(j)'
  BY <1>1, <1>3
<1>5. (pc # "idle" => Reached(k))'
  BY <1>3, <1>4 DEF Reached
<1>6. (asked # NO_ERROR => Answer(asked))'
  BY <1>2 DEF VerdictInv
<1> QED
  BY <1>1, <1>5, <1>6 DEF VerdictInv, Done

\* Before the first call there is nothing to judge.
LEMMA InitVerdict == Init => VerdictInv
BY DEF Init, VerdictInv, Done

\* A call that is not refused at once is at collection 1.
LEMMA CompressChunkVerdict ==
  ASSUME BufferInv, VerdictInv, [Next]_vars, NEW q \in BOOLEAN, NEW cap \in Capacity \cup {0},
         CompressChunk(q, cap)
  PROVE  VerdictInv'
<1>1. query' = q /\ k' = 1
  BY DEF CompressChunk
<1>2. CASE EntryError(q, cap) = NO_ERROR
  <2>1. pc' = "collections" /\ asked' = asked
    BY <1>2 DEF CompressChunk
  <2>2. EntryError(TRUE, 0) = NO_ERROR
    BY <1>2 DEF EntryError
  <2>3. Reached(k')
    <3>1. 1 .. k' - 1 = {}
      BY <1>1
    <3> QED
      BY <2>2, <3>1 DEF Reached
  <2> QED
    BY <2>1, <2>3, GoOnVerdict
<1>3. CASE EntryError(q, cap) # NO_ERROR
  <2>1. Return(EntryError(q, cap), q)
    BY <1>3 DEF CompressChunk
  <2>2. \/ EntryError(q, cap) = SMALL_BUFFER /\ ~ q
        \/ EntryError(q, cap) = EntryError(TRUE, 0) /\ EntryError(TRUE, 0) # NO_ERROR
    BY <1>3 DEF EntryError, NO_ERROR
  <2>3. EntryError(TRUE, 0) # NO_ERROR => EntryError(TRUE, 0) < 0
    BY DEF EntryError, NO_ERROR, SMALL_BUFFER, CHUNK_SIZE_INCONSISTENT, CHUNK_TOO_LARGE,
           COL_SUBSERVICE_UNSUPPORTED
  <2>4. IF q THEN Answer(EntryError(q, cap)) ELSE Outcomes(EntryError(q, cap))
    BY <2>2, <2>3 DEF Answer, Outcomes, Judged
  <2> QED
    BY <1>1, <2>1, <2>4, ReturnVerdict
<1> QED
  BY <1>2, <1>3

\* A refused collection is where the walk stops, or dst ends in front of it.
LEMMA RefusingVerdict ==
  ASSUME BufferInv, VerdictInv, [Next]_vars, Refusing
  PROVE  VerdictInv'
<1>1. /\ TypeOK /\ InputType /\ k \in Index /\ k \in 1 .. chunk.n + 1 /\ k # chunk.n + 1
      /\ query \in BOOLEAN /\ pc = "collections"
  <2>1. TypeOK /\ InputType /\ query \in BOOLEAN
    BY DEF BufferInv, TypeOK, CallType
  <2>2. k \in Index /\ pc = "collections"
    BY <2>1, RefusingFacts
       DEF Refusing, OtherType, FailsCheck, NoRoomForHeader, Whole, AtCollection
  <2>3. chunk.n \in Nat
    BY <2>1, ChunkFacts
  <2> QED
    BY <2>1, <2>2, <2>3 DEF Index
<1>2. Reached(k)
  BY <1>1 DEF VerdictInv
<1>3. ASSUME NEW code, Refuses(code),
             \/ code = SMALL_BUFFER /\ ~ query
             \/ StopsAt(k, code) /\ code < 0
      PROVE  VerdictInv'
  <2>1. Return(code, query) /\ query' = query
    BY <1>3 DEF Refuses, Fails, args
  <2>2. IF query THEN Answer(code) ELSE Outcomes(code)
    BY <1>1, <1>3 DEF Answer, Outcomes, Judged
  <2> QED
    BY <1>1, <2>1, <2>2, ReturnVerdict
<1>4. CASE OtherType
  <2>1. Refuses(CHUNK_SUBSERVICE_INCONSISTENT) /\ CHUNK_SUBSERVICE_INCONSISTENT < 0
    BY <1>4 DEF OtherType, CHUNK_SUBSERVICE_INCONSISTENT
  <2>2. StopsAt(k, CHUNK_SUBSERVICE_INCONSISTENT)
    BY <1>1, <1>2, <1>4 DEF OtherType, StopsAt
  <2> QED
    BY <1>3, <2>1, <2>2
<1>5. CASE FailsCheck
  <2>1. /\ Refuses(chunk.check[k]) /\ chunk.check[k] # NO_ERROR
        /\ chunk.type[k] = chunk.type[1] /\ chunk.off[k + 1] <= chunk.size
    BY <1>5 DEF FailsCheck, Whole
  <2>2. chunk.off[k + 1] \in Nat /\ chunk.size \in Nat /\ k + 1 \in 1 .. chunk.n + 1
    <3>1. chunk.n \in Nat
      BY <1>1, ChunkFacts
    <3>2. k + 1 \in 1 .. chunk.n + 1
      BY <1>1, <3>1 DEF Index
    <3> QED
      BY <1>1, <3>2, ChunkFacts
  <2>3. StopsAt(k, chunk.check[k])
    BY <1>1, <1>2, <2>1, <2>2 DEF StopsAt
  <2>4. chunk.check[k] \in Int /\ chunk.check[k] <= 0
    BY <1>1, ChunkFacts, CheckCodes
  <2> QED
    BY <1>3, <2>1, <2>3, <2>4 DEF NO_ERROR
<1>6. CASE NoRoomForHeader
  BY <1>3, <1>6 DEF NoRoomForHeader
<1> QED
  BY <1>4, <1>5, <1>6 DEF Refusing

\* A stored collection passed; otherwise it was dst that ended.
LEMMA StoringVerdict ==
  ASSUME BufferInv, VerdictInv, [Next]_vars, Storing
  PROVE  VerdictInv'
<1>1. /\ k \in Index /\ pc = "collections" /\ Passes(k)
      /\ Outcome /\ query \in BOOLEAN
  <2>1. /\ k \in Index /\ pc = "collections" /\ Passes(k)
    BY DEF Storing, RawCollection, Compressed, StoredRaw, Tight, HeaderCopied, Whole, AtCollection,
           Passes
  <2>2. Outcome /\ query \in BOOLEAN
    BY StoringOutcome DEF BufferInv, Space, TypeOK, CallType
  <2> QED
    BY <2>1, <2>2
<1>2. CASE OutOfSpace
  <2>1. Return(SMALL_BUFFER, query) /\ query' = query /\ ~ query
    BY <1>2 DEF OutOfSpace, Fails, args
  <2> QED
    BY <1>1, <2>1, ReturnVerdict DEF Outcomes
<1>3. CASE \E field \in 0 .. chunk.len[k], raw \in BOOLEAN : NowStored(field, raw)
  <2>1. k' = k + 1 /\ pc' = pc /\ asked' = asked
    BY <1>3 DEF NowStored
  <2>2. Reached(k')
    <3>1. EntryError(TRUE, 0) = NO_ERROR /\ \A i \in 1 .. k - 1 : Passes(i)
      BY <1>1 DEF VerdictInv, Reached
    <3>2. k \in Nat
      BY <1>1 DEF Index
    <3>3. ASSUME NEW i \in 1 .. k' - 1 PROVE Passes(i)
      <4>1. i = k \/ i \in 1 .. k - 1
        BY <2>1, <3>2
      <4> QED
        BY <1>1, <3>1, <4>1
    <3> QED
      BY <3>1, <3>3 DEF Reached
  <2> QED
    BY <1>1, <2>1, <2>2, GoOnVerdict
<1> QED
  BY <1>1, <1>2, <1>3 DEF Outcome

\* The walk ends where the chunk does, or at a collection that does not.
LEMMA LastCollectionVerdict ==
  ASSUME BufferInv, VerdictInv, [Next]_vars, LastCollection
  PROVE  VerdictInv'
<1>1. pc' = "header" /\ pc = "collections" /\ k' = k /\ asked' = asked
  BY DEF LastCollection
<1>2. Reached(k)
  BY <1>1 DEF VerdictInv
<1>3. k = chunk.n + 1 \/ (chunk.type[k] = chunk.type[1] /\ chunk.off[k + 1] > chunk.size)
  <2>1. chunk.n \in Nat /\ k \in 1 .. chunk.n + 1
    BY ChunkFacts DEF BufferInv, TypeOK, BufferType
  <2> QED
    BY <2>1 DEF LastCollection, Index
<1> QED
  BY <1>1, <1>2, <1>3, GoOnVerdict

\* The end of the walk is the end of the chunk, or an error.
LEMMA BuildHeaderVerdict ==
  ASSUME BufferInv, VerdictInv, [Next]_vars, BuildHeader
  PROVE  VerdictInv'
<1>1. /\ pc = "header" /\ query' = query /\ query \in BOOLEAN /\ dst_size \in Nat
      /\ InputType /\ k \in 1 .. chunk.n + 1
  BY DEF BuildHeader, args, BufferInv, TypeOK, CallType, BufferType
<1>2. /\ Reached(k)
      /\ k = chunk.n + 1 \/ (chunk.type[k] = chunk.type[1] /\ chunk.off[k + 1] > chunk.size)
  BY <1>1 DEF VerdictInv
<1>3. CASE chunk.off[k] # chunk.size
  <2>1. Return(CHUNK_SIZE_INCONSISTENT, query) /\ CHUNK_SIZE_INCONSISTENT < 0
    BY <1>3 DEF BuildHeader, CHUNK_SIZE_INCONSISTENT
  <2>2. StopsAt(k, CHUNK_SIZE_INCONSISTENT)
    BY <1>2, <1>3 DEF StopsAt
  <2>3. Answer(CHUNK_SIZE_INCONSISTENT) /\ Outcomes(CHUNK_SIZE_INCONSISTENT)
    BY <1>1, <2>1, <2>2 DEF Answer, Outcomes, Judged
  <2> QED
    BY <1>1, <2>1, <2>3, ReturnVerdict
<1>4. CASE chunk.off[k] = chunk.size
  <2>1. k = chunk.n + 1
    BY <1>1, <1>4, WholeChunk
  <2>2. Accepted
    BY <1>2, <1>4, <2>1 DEF Accepted
  <2>3. dst_size > 0
    BY <1>1, HeaderFacts DEF BufferInv, Loop
  <2>4. \/ Return(dst_size, query)
        \/ ~ query /\ (Return(ENTITY_HEADER, query) \/ Return(ENTITY_TIMESTAMP, query))
    BY <1>4 DEF BuildHeader
  <2>5. /\ Answer(dst_size) /\ Outcomes(dst_size)
        /\ Outcomes(ENTITY_HEADER) /\ Outcomes(ENTITY_TIMESTAMP)
    BY <2>2, <2>3 DEF Answer, Outcomes, OfTheBuffer
  <2> QED
    BY <1>1, <2>4, <2>5, ReturnVerdict
<1> QED
  BY <1>3, <1>4

-----------------------------------------------------------------------------
(* The size a query returns.  It walks through the chunk as the call behind *)
(* it does: where collection i begins, w[i], depends on the chunk and the   *)
(* costs only, and not on the buffer.                                       *)

\* Where the data of a collection begin that itself begins at b, and where it ends.
DataAt(b) == b + COLLECTION_HDR_SIZE + IF mode = "raw" THEN 0 ELSE CMP_COLLECTION_FILD_SIZE
Behind(i, b) ==
  IF mode # "raw" /\ chunk.len[i] > 0
     /\ 8 * DataAt(b) + cost[i] <= StreamBits(DataAt(b) + chunk.len[i] - 1)
  THEN BitToByte(8 * DataAt(b) + cost[i]) ELSE DataAt(b) + chunk.len[i]

\* The collections before j are stored from w[1] to w[j], none is refused.
Walk(w, j) ==
  /\ w[1] = HeaderSize
  /\ \A i \in 1 .. j - 1 : w[i + 1] = Behind(i, w[i]) /\ Passes(i)
  /\ \A i \in 1 .. j : w[i] \in Nat /\ w[i] <= w[j]

Walking == EntryError(TRUE, 0) = NO_ERROR /\ \E w : Walk(w, k) /\ w[k] = dst_size

\* A call with dst takes the walk of the query before it.
Measured ==
  /\ EntryError(TRUE, 0) = NO_ERROR
  /\ chunk.off[chunk.n + 1] = chunk.size
  /\ \E w : /\ Walk(w, chunk.n + 1) /\ w[chunk.n + 1] = asked
            /\ pc # "idle" /\ ~ query => dst_size = w[k]
  /\ pc = "header" /\ ~ query => k = chunk.n + 1

\* The last part of QueryExact.
Same(r) ==
  /\ r \in {asked} \cup OfTheBuffer
  /\ capacity >= RoundUp4(asked) => r # SMALL_BUFFER
  /\ r = ENTITY_HEADER => ~ fits \/ asked > CMP_ENTITY_MAX_SIZE

QueryInv ==
  ~ InPlace =>
    /\ pc # "idle" /\ query => Walking
    /\ asked > 0 => Measured
    /\ Done /\ ~ query /\ asked > 0 => Same(result)

\* Whole words that hold a stream's bytes hold its bits.
LEMMA WordsHold ==
  ASSUME NEW bits \in Nat, NEW s \in Nat, RoundUp4(BitToByte(bits)) <= s
  PROVE  bits <= StreamBits(s)
BY DEF RoundUp4, BitToByte, StreamBits

LEMMA RoundUpMonotone ==
  ASSUME NEW x \in Nat, NEW y \in Nat, x <= y
  PROVE  RoundUp4(x) <= RoundUp4(y)
BY DEF RoundUp4

\* A longer buffer holds more bits.
LEMMA StreamMonotone ==
  ASSUME NEW x \in Nat, NEW y \in Nat, x <= y
  PROVE  StreamBits(x) <= StreamBits(y)
BY DEF StreamBits

\* A collection that gets into the buffer ends where the walk says; otherwise
\* there is too little room for that in whole words.
LEMMA StoredBehind ==
  ASSUME TypeOK, high <= capacity, Storing
  PROVE  \/ /\ dst_size' = Behind(k, dst_size) /\ k' = k + 1
            /\ UNCHANGED <<input, args, pc, result, asked>>
         \/ /\ ~ query /\ RoundUp4(Behind(k, dst_size)) > capacity
            /\ Fails(SMALL_BUFFER)
<1>1. k \in Index /\ HeaderCopied
  BY DEF Storing, RawCollection, Compressed, StoredRaw, Tight, HeaderCopied, Whole, AtCollection
<1>2. /\ Start \in Nat /\ chunk.len[k] \in Nat /\ capacity \in Nat /\ query \in BOOLEAN
      /\ mode # "raw" => Start >= 14
      /\ Start = DataAt(dst_size) /\ cost[k] \in Nat
      /\ query \/ Start <= capacity
  BY <1>1, RoomFacts, StartFacts DEF Start, DataAt
<1> DEFINE end == 8 * Start + cost[k]
           pays == mode # "raw" /\ chunk.len[k] > 0 /\ end <= StreamBits(Less)
<1>3. end \in Nat
  BY <1>2
<1>4. Behind(k, dst_size) = IF pays THEN BitToByte(end) ELSE Start + chunk.len[k]
  BY <1>2 DEF Behind, Less
<1>5. pays => BitToByte(end) \in Start .. Start + chunk.len[k]
  <2>1. SUFFICES ASSUME pays PROVE BitToByte(end) \in Start .. Start + chunk.len[k]
    OBVIOUS
  <2>2. Less \in Nat /\ Less <= Start + chunk.len[k]
    BY <1>2, <2>1 DEF Less
  <2>3. BitToByte(end) <= Less
    BY <1>3, <2>1, <2>2, StreamFits
  <2>4. BitToByte(end) \in Nat /\ BitToByte(end) >= Start
    BY <1>2, Bytes
  <2> QED
    BY <1>2, <2>2, <2>3, <2>4
<1>6. /\ Start + chunk.len[k] \in Nat
      /\ BitToByte(8 * (Start + chunk.len[k])) = Start + chunk.len[k]
  <2>1. Start + chunk.len[k] \in Nat
    BY <1>2
  <2> QED
    BY <2>1, Bytes, 0 \in Nat
<1>7. /\ Behind(k, dst_size) \in Nat /\ RoundUp4(Behind(k, dst_size)) \in Nat
      /\ RoundUp4(Behind(k, dst_size)) >= Behind(k, dst_size)
  BY <1>2, <1>4, <1>5, <1>6, RoundsUp
<1>8. ASSUME NEW bits \in Nat, NEW raw \in BOOLEAN, Finish(bits, raw),
             BitToByte(bits) = Behind(k, dst_size)
      PROVE  /\ dst_size' = Behind(k, dst_size) /\ k' = k + 1
             /\ UNCHANGED <<input, args, pc, result, asked>>
  <2>1. BitToByte(bits) \in Start .. Start + chunk.len[k]
    BY <1>2, <1>4, <1>5, <1>8
  <2>2. /\ dst_size' = Start + (BitToByte(bits) - Start) /\ k' = k + 1
        /\ UNCHANGED <<input, args, pc, result, asked>>
    BY <1>1, <1>8, <2>1, FinishStores
  <2> QED
    BY <1>2, <1>7, <1>8, <2>2
<1> HIDE DEF end, pays
<1>9. CASE RawCollection
  <2>1. mode = "raw" /\ ~ pays
    BY <1>9 DEF RawCollection, pays
  <2>2. CASE chunk.len[k] > 0 /\ ~ query /\ Start + chunk.len[k] > capacity
    <3>1. Copy(Start, capacity) = SMALL_BUFFER
      BY <2>2 DEF Copy
    <3>2. Fails(SMALL_BUFFER)
      BY <1>9, <3>1 DEF RawCollection, IsError, SMALL_BUFFER
    <3>3. Behind(k, dst_size) = Start + chunk.len[k]
      BY <1>4, <2>1
    <3> QED
      BY <1>2, <1>6, <1>7, <2>2, <3>2, <3>3
  <2>3. CASE ~ (chunk.len[k] > 0 /\ ~ query /\ Start + chunk.len[k] > capacity)
    <3>1. Copy(Start, capacity) = 8 * (Start + chunk.len[k])
      BY <2>3 DEF Copy
    <3>2. Copy(Start, capacity) \in Nat
      BY <1>2, <3>1
    <3>3. Finish(Copy(Start, capacity), TRUE)
      BY <1>9, <3>2, NoError DEF RawCollection
    <3> QED
      BY <1>4, <1>6, <1>8, <2>1, <3>1, <3>2, <3>3
  <2> QED
    BY <2>2, <2>3
<1>10. CASE Compressed
  <2> DEFINE bits == Encode(Start, Less)
  <2>1. ~ Incompressible(bits, Less) /\ mode # "raw"
    BY <1>10 DEF Compressed, Roomy
  <2>2. bits \in Nat /\ BitToByte(bits) = Behind(k, dst_size)
    <3>1. CASE chunk.len[k] = 0
      BY <1>2, <1>4, <1>6, <3>1 DEF Encode, pays
    <3>2. CASE chunk.len[k] # 0
      <4>1. bits = end /\ end <= StreamBits(Less)
        <5>1. Less \in Nat /\ StreamBits(Less) \in Nat
          BY <1>2, <3>2, StreamFits DEF Less
        <5> QED
          BY <1>2, <1>3, <2>1, <3>2, <5>1 DEF Encode, Incompressible, end
      <4> QED
        BY <1>2, <1>3, <1>4, <2>1, <3>2, <4>1 DEF pays
    <3> QED
      BY <3>1, <3>2
  <2>3. Finish(bits, FALSE)
    BY <1>10, <2>2, NoError DEF Compressed
  <2> QED
    BY <1>8, <2>2, <2>3
<1>11. CASE StoredRaw
  <2> DEFINE bits == Copy(Start, Start + chunk.len[k])
  <2>1. bits = 8 * (Start + chunk.len[k]) /\ bits \in Nat
    BY <1>2 DEF Copy
  <2>2. ~ pays
    <3>1. SUFFICES ASSUME pays PROVE FALSE
      OBVIOUS
    <3>2. Less \in Nat /\ StreamBits(Less) \in Nat
      BY <1>2, <3>1, StreamFits DEF Less, pays
    <3>3. Encode(Start, Less) = end
      BY <1>2, <1>3, <3>1, <3>2 DEF Encode, pays, end
    <3>4. end # SMALL_BUFFER
      BY <1>3 DEF SMALL_BUFFER
    <3> QED
      BY <1>3, <1>11, <3>1, <3>2, <3>3, <3>4 DEF StoredRaw, Incompressible, pays
  <2>3. Finish(bits, TRUE)
    BY <1>11, <2>1, NoError DEF StoredRaw
  <2> QED
    BY <1>4, <1>6, <1>8, <2>1, <2>2, <2>3
<1>12. CASE Tight
  <2>1. mode # "raw" /\ ~ query /\ capacity < Start + chunk.len[k]
    BY <1>2, <1>12 DEF Tight, Roomy
  <2>2. StreamBits(capacity) \in Nat /\ chunk.len[k] > 0 /\ Less \in Nat /\ capacity <= Less
    BY <1>2, <2>1, StreamFits DEF Less
  <2>3. CASE end <= StreamBits(capacity)
    <3>1. StreamBits(capacity) <= StreamBits(Less) /\ StreamBits(Less) \in Nat
      BY <1>2, <2>2, StreamMonotone, StreamFits
    <3>2. pays
      BY <1>3, <2>1, <2>2, <2>3, <3>1 DEF pays
    <3>3. Encode(Start, capacity) = end
      BY <1>3, <2>2, <2>3 DEF Encode, end
    <3>4. Finish(end, FALSE)
      BY <1>3, <1>12, <3>3, NoError DEF Tight
    <3> QED
      BY <1>3, <1>4, <1>8, <3>2, <3>4
  <2>4. CASE end > StreamBits(capacity)
    <3>1. Encode(Start, capacity) = SMALL_BUFFER
      BY <2>1, <2>2, <2>4 DEF Encode, end
    <3>2. Fails(SMALL_BUFFER)
      BY <1>12, <3>1 DEF Tight, IsError, SMALL_BUFFER
    <3>3. RoundUp4(Behind(k, dst_size)) > capacity
      <4>1. CASE pays
        <5>1. ~ (RoundUp4(BitToByte(end)) <= capacity)
          BY <1>2, <1>3, <2>2, <2>4, WordsHold
        <5> QED
          BY <1>2, <1>4, <1>7, <4>1, <5>1
      <4>2. CASE ~ pays
        BY <1>2, <1>4, <1>6, <1>7, <2>1, <4>2
      <4> QED
        BY <4>1, <4>2
    <3> QED
      BY <2>1, <3>2, <3>3
  <2> QED
    BY <1>3, <2>2, <2>3, <2>4
<1> QED
  BY <1>9, <1>10, <1>11, <1>12 DEF Storing

\* Unless the model is updated in place no step changes what a walk depends on.
LEMMA WalkKept ==
  ASSUME [Next]_vars, ~ InPlace
  PROVE  /\ UNCHANGED <<chunk, mode, update, fits, cost>> /\ ~ InPlace'
         /\ EntryError(TRUE, 0)' = EntryError(TRUE, 0)
         /\ \A w, j : Walk(w, j)' <=> Walk(w, j)
<1>1. UNCHANGED <<chunk, mode, update, fits>> /\ EntryError(TRUE, 0)' = EntryError(TRUE, 0)
  BY VerdictKept DEF input
<1>2. cost' = cost
  BY DEF Next, vars, CompressChunk, Collection, OtherType, FailsCheck, NoRoomForHeader,
         RawCollection, Compressed, StoredRaw, Tight, Refuses, ModelUpdate, LastCollection,
         BuildHeader
<1>3. ASSUME NEW w, NEW j PROVE Walk(w, j)' <=> Walk(w, j)
  BY <1>1, <1>2 DEF Walk, Passes, Behind, DataAt, HeaderSize
<1> QED
  BY <1>1, <1>2, <1>3 DEF InPlace, ModelMode

\* Every collection ends behind its begin.
LEMMA BehindGrows ==
  ASSUME TypeOK, NEW i \in Index, NEW b \in Nat
  PROVE  Behind(i, b) \in Nat /\ Behind(i, b) >= b
<1>1. chunk.len[i] \in Nat /\ cost[i] \in Nat
  BY ChunkFacts, SizeAssumption DEF TypeOK, InputType
<1>2. DataAt(b) \in Nat /\ DataAt(b) >= b
  BY DEF DataAt, COLLECTION_HDR_SIZE, CMP_COLLECTION_FILD_SIZE
<1>3. BitToByte(8 * DataAt(b) + cost[i]) \in Nat /\ BitToByte(8 * DataAt(b) + cost[i]) >= DataAt(b)
  BY <1>1, <1>2, Bytes
<1> QED
  BY <1>1, <1>2, <1>3 DEF Behind

\* Every call begins where the walk does, and a call with enough space passes
\* the checks the query passed.
LEMMA CompressChunkQuery ==
  ASSUME BufferInv, QueryInv, ~ InPlace, [Next]_vars,
         NEW q \in BOOLEAN, NEW cap \in Capacity \cup {0}, CompressChunk(q, cap)
  PROVE  QueryInv'
<1>1. /\ pc = "idle" /\ query' = q /\ capacity' = cap /\ k' = 1 /\ dst_size' = HeaderSize
      /\ UNCHANGED <<chunk, mode, update, fits, cost>> /\ cap \in Nat
      /\ EntryError(TRUE, 0)' = EntryError(TRUE, 0)
      /\ \A w, j : Walk(w, j)' <=> Walk(w, j)
      /\ asked \in Int
  <2>1. /\ pc = "idle" /\ query' = q /\ capacity' = cap /\ k' = 1 /\ dst_size' = HeaderSize
    BY DEF CompressChunk
  <2>2. cap \in Nat /\ asked \in Int
    BY SizeAssumption DEF BufferInv, TypeOK, CallType
  <2> QED
    BY <2>1, <2>2, WalkKept
<1>2. /\ EntryError(q, cap) \in Int /\ EntryError(q, cap) <= 0
      /\ EntryError(q, cap) # NO_ERROR =>
           pc' = "idle" /\ result' = EntryError(q, cap)
           /\ asked' = IF q THEN EntryError(q, cap) ELSE asked
      /\ EntryError(q, cap) = NO_ERROR =>
           pc' = "collections" /\ asked' = asked /\ result' = result
  BY DEF CompressChunk, Return, EntryError, NO_ERROR, SMALL_BUFFER, CHUNK_SIZE_INCONSISTENT,
         CHUNK_TOO_LARGE, COL_SUBSERVICE_UNSUPPORTED
<1>3. asked > 0 /\ ~ q /\ EntryError(q, cap) # NO_ERROR =>
        /\ EntryError(q, cap) = SMALL_BUFFER
        /\ ~ (cap >= RoundUp4(asked))
  <2>1. SUFFICES ASSUME asked > 0, ~ q, EntryError(q, cap) # NO_ERROR
                 PROVE  EntryError(q, cap) = SMALL_BUFFER /\ ~ (cap >= RoundUp4(asked))
    OBVIOUS
  <2>2. EntryError(TRUE, 0) = NO_ERROR /\ HeaderSize <= asked
    <3>1. chunk.n \in Nat
      BY ChunkFacts DEF BufferInv, TypeOK
    <3>2. PICK w : Walk(w, chunk.n + 1) /\ w[chunk.n + 1] = asked
      BY <2>1 DEF QueryInv, Measured
    <3>3. 1 \in 1 .. chunk.n + 1
      BY <3>1
    <3>4. w[1] = HeaderSize /\ w[1] <= w[chunk.n + 1]
      BY <3>2, <3>3 DEF Walk
    <3> QED
      BY <2>1, <3>2, <3>4 DEF QueryInv, Measured
  <2>3. cap < HeaderSize /\ EntryError(q, cap) = SMALL_BUFFER
    BY <2>1, <2>2 DEF EntryError
  <2>4. RoundUp4(asked) \in Nat /\ RoundUp4(asked) >= asked
    BY <1>1, <2>1, RoundsUp
  <2> QED
    BY <1>1, <2>2, <2>3, <2>4, HeaderFacts
<1>4. pc' # "idle" /\ query' => Walking'
  <2>1. SUFFICES ASSUME pc' # "idle", query' PROVE Walking'
    OBVIOUS
  <2>2. EntryError(TRUE, 0) = NO_ERROR
    BY <1>1, <1>2, <2>1 DEF EntryError
  <2> DEFINE w == [i \in 1 .. 1 |-> HeaderSize]
  <2>3. Walk(w, 1)
    BY HeaderFacts DEF Walk
  <2>4. w[1] = HeaderSize
    OBVIOUS
  <2> HIDE DEF w
  <2>5. PICK v : Walk(v, 1) /\ v[1] = HeaderSize
    BY <2>3, <2>4
  <2>6. Walk(v, 1)'
    BY <1>1, <2>5
  <2> QED
    BY <1>1, <2>2, <2>5, <2>6 DEF Walking
<1>5. asked' > 0 => Measured'
  <2>1. SUFFICES ASSUME asked' > 0 PROVE Measured'
    OBVIOUS
  <2>2. asked' = asked
    BY <1>2, <2>1
  <2>3. /\ EntryError(TRUE, 0) = NO_ERROR /\ chunk.off[chunk.n + 1] = chunk.size
        /\ \E w : Walk(w, chunk.n + 1) /\ w[chunk.n + 1] = asked
    BY <2>1, <2>2 DEF QueryInv, Measured
  <2>4. PICK w : Walk(w, chunk.n + 1) /\ w[chunk.n + 1] = asked
    BY <2>3
  <2>5. w[1] = HeaderSize
    BY <2>4 DEF Walk
  <2>6. Walk(w, chunk.n + 1)'
    BY <1>1, <2>4 
  <2> QED
    BY <1>1, <1>2, <2>2, <2>3, <2>4, <2>5, <2>6 DEF Measured
<1>6. Done' /\ ~ query' /\ asked' > 0 => Same(result)'
  <2>1. SUFFICES ASSUME Done', ~ q, asked' > 0 PROVE Same(result)'
    BY <1>1
  <2>2. EntryError(q, cap) # NO_ERROR /\ result' = EntryError(q, cap) /\ asked' = asked
    BY <1>2, <2>1 DEF Done
  <2>3. result' = SMALL_BUFFER /\ ~ (capacity' >= RoundUp4(asked'))
    BY <1>1, <1>3, <2>1, <2>2
  <2> QED
    BY <2>3 DEF Same, OfTheBuffer, SMALL_BUFFER, ENTITY_HEADER
<1> QED
  BY <1>4, <1>5, <1>6 DEF QueryInv

\* A query takes the walk one collection further, a call with a buffer follows it
\* or runs out of space.
LEMMA StoringQuery ==
  ASSUME BufferInv, QueryInv, ~ InPlace, [Next]_vars, Storing
  PROVE  QueryInv'
<1>1. /\ UNCHANGED <<chunk, mode, fits, cost>>
      /\ EntryError(TRUE, 0)' = EntryError(TRUE, 0)
      /\ \A w, j : Walk(w, j)' <=> Walk(w, j)
  BY WalkKept
<1>2. /\ k \in Index /\ chunk.type[k] = chunk.type[1] /\ chunk.off[k + 1] <= chunk.size
      /\ chunk.check[k] = NO_ERROR /\ pc = "collections"
  BY DEF Storing, RawCollection, Compressed, StoredRaw, Tight, HeaderCopied, Whole, AtCollection
<1>3. /\ TypeOK /\ high <= capacity /\ chunk.n \in Nat /\ dst_size \in Nat
      /\ k \in Nat /\ k >= 1 /\ k <= chunk.n /\ asked \in Int /\ query \in BOOLEAN
      /\ Behind(k, dst_size) \in Nat /\ Behind(k, dst_size) >= dst_size
  <2>1. /\ TypeOK /\ InputType /\ high <= capacity /\ dst_size \in Nat /\ asked \in Int
        /\ query \in BOOLEAN
    BY DEF BufferInv, Space, TypeOK, BufferType, CallType
  <2>2. chunk.n \in Nat
    BY <2>1, ChunkFacts
  <2> QED
    BY <1>2, <2>1, <2>2, BehindGrows DEF Index
<1>4. CASE query
  <2>1. /\ dst_size' = Behind(k, dst_size) /\ k' = k + 1
        /\ query' = query /\ pc' = pc /\ asked' = asked /\ result' = result
    BY <1>3, <1>4, StoredBehind DEF args
  <2>2. EntryError(TRUE, 0) = NO_ERROR
    BY <1>2, <1>4 DEF QueryInv, Walking
  <2>3. PICK w : Walk(w, k) /\ w[k] = dst_size
    BY <1>2, <1>4 DEF QueryInv, Walking
  <2>4. PICK j : j = k
    OBVIOUS
  <2> DEFINE v == [i \in 1 .. j + 1 |-> IF i = j + 1 THEN Behind(j, dst_size) ELSE w[i]]
  <2>5. Walk(v, j + 1) /\ v[j + 1] = Behind(k, dst_size)
    <3>1. /\ w[1] = HeaderSize
          /\ \A i \in 1 .. j - 1 : w[i + 1] = Behind(i, w[i]) /\ Passes(i)
          /\ \A i \in 1 .. j : w[i] \in Nat /\ w[i] <= dst_size
      BY <2>3, <2>4 DEF Walk
    <3>2. j \in Nat /\ j >= 1 /\ Behind(j, dst_size) \in Nat /\ dst_size <= Behind(j, dst_size)
      BY <1>3, <2>4
    <3>3. v[j + 1] = Behind(j, dst_size) /\ \A i \in 1 .. j : v[i] = w[i]
      BY <3>2
    <3>4. Passes(j)
      BY <1>2, <2>4 DEF Passes
    <3> HIDE DEF v
    <3>5. v[1] = HeaderSize
      BY <3>1, <3>2, <3>3
    <3>6. ASSUME NEW i \in 1 .. j PROVE v[i + 1] = Behind(i, v[i]) /\ Passes(i)
      <4>1. CASE i = j
        BY <2>3, <2>4, <3>2, <3>3, <3>4, <4>1
      <4>2. CASE i # j
        <5>1. i \in 1 .. j - 1 /\ i + 1 \in 1 .. j
          BY <3>2, <4>2
        <5> QED
          BY <3>1, <3>3, <5>1
      <4> QED
        BY <4>1, <4>2
    <3>7. ASSUME NEW i \in 1 .. j + 1 PROVE v[i] \in Nat /\ v[i] <= v[j + 1]
      <4>1. CASE i = j + 1
        BY <3>2, <3>3, <4>1
      <4>2. CASE i # j + 1
        <5>1. i \in 1 .. j
          BY <3>2, <4>2
        <5> QED
          BY <1>3, <3>1, <3>2, <3>3, <5>1
      <4> QED
        BY <4>1, <4>2
    <3>8. (j + 1) - 1 = j
      BY <3>2
    <3> QED
      BY <2>4, <3>3, <3>5, <3>6, <3>7, <3>8 DEF Walk
  <2> HIDE DEF v
  <2>6. PICK u : Walk(u, j + 1) /\ u[j + 1] = Behind(k, dst_size)
    BY <2>5
  <2>7. Walking'
    <3>1. Walk(u, j + 1)' /\ u[j + 1] = dst_size' /\ k' = j + 1
      BY <1>1, <2>1, <2>4, <2>6
    <3> QED
      BY <1>1, <2>2, <3>1 DEF Walking
  <2>8. asked' > 0 => Measured'
    BY <1>1, <1>4, <2>1 DEF QueryInv, Measured
  <2> QED
    BY <1>2, <1>4, <2>1, <2>7, <2>8 DEF QueryInv, Done
<1>5. CASE ~ query /\ asked > 0
  <2>1. /\ EntryError(TRUE, 0) = NO_ERROR /\ chunk.off[chunk.n + 1] = chunk.size
        /\ \E w : /\ Walk(w, chunk.n + 1) /\ w[chunk.n + 1] = asked
                  /\ dst_size = w[k]
    BY <1>2, <1>5 DEF QueryInv, Measured
  <2>2. PICK w : Walk(w, chunk.n + 1) /\ w[chunk.n + 1] = asked /\ dst_size = w[k]
    BY <2>1
  <2>3. w[k + 1] = Behind(k, dst_size) /\ w[k + 1] <= asked
    <3>1. k \in 1 .. (chunk.n + 1) - 1 /\ k + 1 \in 1 .. chunk.n + 1
      BY <1>3
    <3> QED
      BY <2>2, <3>1 DEF Walk
  <2>4. CASE dst_size' = Behind(k, dst_size) /\ k' = k + 1 /\ UNCHANGED <<input, args, pc, result, asked>>
    <3>1. /\ dst_size' = Behind(k, dst_size) /\ k' = k + 1
          /\ query' = query /\ pc' = pc /\ asked' = asked
      BY <2>4 DEF args
    <3>2. Walk(w, chunk.n + 1)' /\ dst_size' = w[k']
      BY <1>1, <2>2, <2>3, <3>1
    <3> QED
      BY <1>1, <1>2, <1>5, <2>1, <2>2, <3>1, <3>2 DEF QueryInv, Measured, Done
  <2>5. CASE RoundUp4(Behind(k, dst_size)) > capacity /\ Fails(SMALL_BUFFER)
    <3>1. /\ pc' = "idle" /\ result' = SMALL_BUFFER /\ asked' = asked
          /\ query' = query /\ capacity' = capacity
      BY <1>5, <2>5 DEF Fails, Return, args
    <3>2. RoundUp4(Behind(k, dst_size)) <= RoundUp4(asked)
      BY <1>3, <1>5, <2>3, RoundUpMonotone
    <3>3. RoundUp4(Behind(k, dst_size)) \in Nat /\ RoundUp4(asked) \in Nat /\ capacity \in Nat
      BY <1>2, <1>3, <1>5, RoundsUp, StartFacts
    <3>4. Same(result)'
      BY <2>5, <3>1, <3>2, <3>3 DEF Same, OfTheBuffer, SMALL_BUFFER, ENTITY_HEADER
    <3>5. Measured'
      BY <1>1, <2>1, <3>1 DEF Measured
    <3> QED
      BY <1>5, <3>1, <3>4, <3>5 DEF QueryInv
  <2> QED
    BY <1>3, <2>4, <2>5, StoredBehind
<1>6. CASE ~ query /\ ~ (asked > 0)
  <2>1. query' = query /\ asked' = asked
    BY <1>3, <1>6, StoringOutcome
       DEF Outcome, OutOfSpace, NowStored, Fails, Return, args
  <2> QED
    BY <1>6, <2>1 DEF QueryInv
<1> QED
  BY <1>3, <1>4, <1>5, <1>6

\* A query that is refused returns no size; after one that was not, a call is
\* refused only for a lack of space that the size of the query had not left.
LEMMA RefusingQuery ==
  ASSUME BufferInv, QueryInv, ~ InPlace, [Next]_vars, Refusing
  PROVE  QueryInv'
<1>1. /\ UNCHANGED <<chunk, mode, fits, cost>>
      /\ EntryError(TRUE, 0)' = EntryError(TRUE, 0)
      /\ \A w, j : Walk(w, j)' <=> Walk(w, j)
  BY WalkKept
<1>2. TypeOK /\ chunk.n \in Nat /\ asked \in Int /\ dst_size \in Nat /\ query \in BOOLEAN
  BY ChunkFacts DEF BufferInv, TypeOK, CallType, BufferType
<1>3. PICK code \in Int : Refuses(code) /\ code <= 0
  BY <1>2, RefusingFacts
<1>4. /\ pc' = "idle" /\ result' = code /\ UNCHANGED <<query, capacity, k, dst_size>>
      /\ asked' = IF query THEN code ELSE asked
  BY <1>3 DEF Refuses, Fails, Return, args
<1>5. k \in Index /\ pc = "collections"
  BY <1>2, RefusingFacts
     DEF Refusing, OtherType, FailsCheck, NoRoomForHeader, Whole, AtCollection
<1>6. ~ query /\ asked > 0 => code = SMALL_BUFFER /\ ~ (capacity >= RoundUp4(asked))
  <2>1. SUFFICES ASSUME ~ query, asked > 0
                 PROVE  code = SMALL_BUFFER /\ ~ (capacity >= RoundUp4(asked))
    OBVIOUS
  <2>2. PICK w : Walk(w, chunk.n + 1) /\ w[chunk.n + 1] = asked /\ dst_size = w[k]
    BY <1>5, <2>1 DEF QueryInv, Measured
  <2>3. k \in 1 .. (chunk.n + 1) - 1 /\ k + 1 \in 1 .. chunk.n + 1
    BY <1>2, <1>5 DEF Index
  <2>4. w[k + 1] = Behind(k, dst_size) /\ w[k + 1] <= asked /\ Passes(k)
    BY <2>2, <2>3 DEF Walk
  <2>5. NoRoomForHeader
    BY <2>4 DEF Passes, Refusing, OtherType, FailsCheck, Whole
  <2>6. Start > capacity /\ code = SMALL_BUFFER
    BY <1>4, <2>5 DEF NoRoomForHeader, Refuses, Fails, Return
  <2>7. Start = DataAt(dst_size) /\ Start \in Nat /\ capacity \in Nat
    BY <1>2, <1>5, StartFacts DEF Start, DataAt
  <2>8. Behind(k, dst_size) \in Nat /\ Behind(k, dst_size) >= DataAt(dst_size)
    <3>1. chunk.len[k] \in Nat /\ cost[k] \in Nat
      BY <1>2, <1>5, StartFacts
    <3>2. /\ BitToByte(8 * DataAt(dst_size) + cost[k]) \in Nat
          /\ BitToByte(8 * DataAt(dst_size) + cost[k]) >= DataAt(dst_size)
      BY <2>7, <3>1, Bytes
    <3> QED
      BY <2>7, <3>1, <3>2 DEF Behind
  <2>9. RoundUp4(asked) \in Nat /\ RoundUp4(asked) >= asked
    BY <1>2, <2>1, RoundsUp
  <2> QED
    BY <1>2, <2>1, <2>4, <2>6, <2>7, <2>8, <2>9
<1>7. asked' > 0 => ~ query /\ asked' = asked /\ asked > 0
  BY <1>3, <1>4
<1>8. asked' > 0 => Measured'
  BY <1>1, <1>4, <1>7 DEF QueryInv, Measured
<1>9. asked' > 0 => Same(result)'
  <2>1. SUFFICES ASSUME asked' > 0 PROVE Same(result)'
    OBVIOUS
  <2>2. result' = SMALL_BUFFER /\ ~ (capacity' >= RoundUp4(asked'))
    BY <1>4, <1>6, <1>7, <2>1
  <2> QED
    BY <2>2 DEF Same, OfTheBuffer, SMALL_BUFFER, ENTITY_HEADER
<1> QED
  BY <1>4, <1>8, <1>9 DEF QueryInv

\* The walk of a call does not stop before the one of the query did.
LEMMA LastCollectionQuery ==
  ASSUME BufferInv, QueryInv, ~ InPlace, [Next]_vars, LastCollection
  PROVE  QueryInv'
<1>1. /\ UNCHANGED <<chunk, mode, fits, cost, query, capacity, k, dst_size, asked, result>>
      /\ pc = "collections" /\ pc' = "header"
      /\ EntryError(TRUE, 0)' = EntryError(TRUE, 0)
      /\ \A w, j : Walk(w, j)' <=> Walk(w, j)
  BY WalkKept DEF LastCollection, args
<1>2. Walking <=> Walking'
  BY <1>1 DEF Walking
<1>3. chunk.n \in Nat /\ k \in 1 .. chunk.n + 1 /\ \A i \in 1 .. chunk.n : chunk.off[i + 1] \in Int
  <2>1. \A i \in 1 .. chunk.n + 1 : chunk.off[i] \in Nat
    BY ChunkFacts DEF BufferInv, TypeOK
  <2> QED
    BY <2>1, ChunkFacts DEF BufferInv, TypeOK, BufferType
<1>4. asked > 0 => Measured'
  <2>1. SUFFICES ASSUME asked > 0 PROVE Measured'
    OBVIOUS
  <2>2. /\ EntryError(TRUE, 0) = NO_ERROR /\ chunk.off[chunk.n + 1] = chunk.size
        /\ \E w : /\ Walk(w, chunk.n + 1) /\ w[chunk.n + 1] = asked
                  /\ ~ query => dst_size = w[k]
    BY <1>1, <2>1 DEF QueryInv, Measured
  <2>3. PICK w : /\ Walk(w, chunk.n + 1) /\ w[chunk.n + 1] = asked
                 /\ ~ query => dst_size = w[k]
    BY <2>2
  <2>4. k = chunk.n + 1
    <3>1. SUFFICES ASSUME k # chunk.n + 1 PROVE FALSE
      OBVIOUS
    <3>2. k \in 1 .. chunk.n /\ k \in 1 .. (chunk.n + 1) - 1
      BY <1>3, <3>1
    <3>3. chunk.off[k + 1] <= chunk.size
      BY <2>3, <3>2 DEF Walk, Passes
    <3>4. chunk.off[k + 1] > chunk.size /\ chunk.size \in Nat
      BY <3>2, ChunkFacts DEF LastCollection, Index, BufferInv, TypeOK
    <3> QED
      BY <1>3, <3>2, <3>3, <3>4
  <2>5. Walk(w, chunk.n + 1)'
    BY <1>1, <2>3
  <2> QED
    BY <1>1, <2>2, <2>3, <2>4, <2>5 DEF Measured
<1> QED
  BY <1>1, <1>2, <1>4 DEF QueryInv, Done

\* What a query returns is where its walk ended, and a call ends there too.
LEMMA BuildHeaderQuery ==
  ASSUME BufferInv, QueryInv, ~ InPlace, [Next]_vars, BuildHeader
  PROVE  QueryInv'
<1>1. /\ UNCHANGED <<chunk, mode, fits, cost, query, capacity, k, dst_size>>
      /\ pc = "header" /\ pc' = "idle"
      /\ asked' = IF query THEN result' ELSE asked
      /\ EntryError(TRUE, 0)' = EntryError(TRUE, 0)
      /\ \A w, j : Walk(w, j)' <=> Walk(w, j)
  BY WalkKept DEF BuildHeader, Return, args
<1>2. \/ result' = CHUNK_SIZE_INCONSISTENT /\ chunk.off[k] # chunk.size
      \/ result' = dst_size /\ chunk.off[k] = chunk.size
      \/ /\ ~ query /\ chunk.off[k] = chunk.size
         /\ result' = ENTITY_TIMESTAMP \/ (result' = ENTITY_HEADER /\ HeaderRefused)
  BY DEF BuildHeader, Return
<1>3. dst_size \in Nat /\ InputType /\ k \in 1 .. chunk.n + 1 /\ asked \in Int
  BY DEF BufferInv, TypeOK, BufferType, CallType
<1>4. query /\ asked' > 0 => Measured'
  <2>1. SUFFICES ASSUME query, asked' > 0 PROVE Measured'
    OBVIOUS
  <2>2. result' = dst_size /\ asked' = dst_size /\ chunk.off[k] = chunk.size
    BY <1>1, <1>2, <2>1 DEF CHUNK_SIZE_INCONSISTENT
  <2>3. k = chunk.n + 1
    BY <1>3, <2>2, WholeChunk
  <2>4. EntryError(TRUE, 0) = NO_ERROR /\ \E w : Walk(w, k) /\ w[k] = dst_size
    BY <1>1, <2>1 DEF QueryInv, Walking
  <2>5. PICK w : Walk(w, chunk.n + 1) /\ w[chunk.n + 1] = dst_size
    BY <2>3, <2>4
  <2>6. Walk(w, chunk.n + 1)'
    BY <1>1, <2>5
  <2> QED
    BY <1>1, <2>2, <2>3, <2>4, <2>5, <2>6 DEF Measured
<1>5. ~ query /\ asked' > 0 => Measured'
  BY <1>1 DEF QueryInv, Measured
<1>6. ~ query /\ asked' > 0 => Same(result)'
  <2>1. SUFFICES ASSUME ~ query, asked > 0 PROVE Same(result)'
    BY <1>1
  <2>2. k = chunk.n + 1 /\ chunk.off[k] = chunk.size /\ dst_size = asked /\ asked' = asked
    BY <1>1, <2>1 DEF QueryInv, Measured
  <2>3. \/ result' = asked
        \/ result' = ENTITY_TIMESTAMP
        \/ result' = ENTITY_HEADER /\ HeaderRefused
    BY <1>2, <2>2
  <2>4. result' # SMALL_BUFFER
    BY <2>1, <2>3 DEF SMALL_BUFFER, ENTITY_HEADER, ENTITY_TIMESTAMP
  <2>5. result' = ENTITY_HEADER => ~ fits \/ asked > CMP_ENTITY_MAX_SIZE
    BY <2>1, <2>2, <2>3 DEF HeaderRefused, ENTITY_HEADER, ENTITY_TIMESTAMP
  <2> QED
    BY <1>1, <2>2, <2>3, <2>4, <2>5 DEF Same, OfTheBuffer
<1> QED
  BY <1>1, <1>4, <1>5, <1>6 DEF QueryInv

\* Before the first call nothing was asked.
LEMMA InitQuery == Init => QueryInv
BY DEF Init, QueryInv, Done, NO_ERROR

\* Every step keeps what a query returned in agreement with the walk.
LEMMA NextQuery == BufferInv /\ QueryInv /\ [Next]_vars => QueryInv'
<1> SUFFICES ASSUME BufferInv, QueryInv, [Next]_vars PROVE QueryInv'
  OBVIOUS
<1>1. CASE InPlace
  <2>1. UNCHANGED <<mode, update>>
    BY VerdictKept DEF input
  <2> QED
    BY <1>1, <2>1 DEF InPlace, ModelMode, QueryInv
<1>2. CASE ~ InPlace
  <2>1. CASE CompressChunk(TRUE, 0)
    BY <1>2, <2>1, CompressChunkQuery
  <2>2. ASSUME NEW cap \in Capacity, CompressChunk(FALSE, cap) PROVE QueryInv'
    BY <1>2, <2>2, CompressChunkQuery
  <2>3. CASE Collection
    <3>1. Storing \/ Refusing
      BY <2>3 DEF Collection, Storing, Refusing
    <3> QED
      BY <1>2, <3>1, StoringQuery, RefusingQuery
  <2>4. CASE LastCollection
    BY <1>2, <2>4, LastCollectionQuery
  <2>5. CASE BuildHeader
    BY <1>2, <2>5, BuildHeaderQuery
  <2>6. CASE UNCHANGED vars
    <3>1. /\ UNCHANGED <<pc, query, capacity, k, dst_size, asked, result, chunk, mode, fits, cost>>
          /\ EntryError(TRUE, 0)' = EntryError(TRUE, 0)
          /\ \A w, j : Walk(w, j)' <=> Walk(w, j)
      BY <1>2, <2>6, WalkKept DEF vars, args
    <3> QED
      BY <1>2, <3>1 DEF QueryInv, Walking, Measured, Same, Done, InPlace
  <2> QED
    BY <2>1, <2>2, <2>3, <2>4, <2>5, <2>6 DEF Next
<1> QED
  BY <1>1, <1>2

\* Every step keeps what the checks have made of the chunk.
LEMMA NextVerdict == BufferInv /\ VerdictInv /\ [Next]_vars => VerdictInv'
<1> SUFFICES ASSUME BufferInv, VerdictInv, [Next]_vars PROVE VerdictInv'
  OBVIOUS
<1>1. CASE CompressChunk(TRUE, 0)
  BY <1>1, CompressChunkVerdict
<1>2. ASSUME NEW cap \in Capacity, CompressChunk(FALSE, cap) PROVE VerdictInv'
  BY <1>2, CompressChunkVerdict
<1>3. CASE Collection
  <2>1. Storing \/ Refusing
    BY <1>3 DEF Collection, Storing, Refusing
  <2> QED
    BY <2>1, StoringVerdict, RefusingVerdict
<1>4. CASE LastCollection
  BY <1>4, LastCollectionVerdict
<1>5. CASE BuildHeader
  BY <1>5, BuildHeaderVerdict
<1>6. CASE UNCHANGED vars
  <2>1. UNCHANGED <<pc, k, asked, result, query, chunk>>
    BY <1>6 DEF vars, args, input
  <2>2. /\ \A j : Reached(j)' <=> Reached(j)
        /\ \A c : (Answer(c)' <=> Answer(c)) /\ (Outcomes(c)' <=> Outcomes(c))
    BY VerdictKept DEF Answer, Outcomes
  <2>3. PICK j, a, r : j = k /\ a = asked /\ r = result
    OBVIOUS
  <2>4. /\ (pc # "idle" => Reached(k))'
        /\ (asked # NO_ERROR => Answer(asked))'
        /\ (Done => IF query THEN Answer(result) ELSE Outcomes(result))'
    <3>1. (pc # "idle" => Reached(k))'
      BY <2>1, <2>2, <2>3 DEF VerdictInv
    <3>2. (asked # NO_ERROR => Answer(asked))'
      BY <2>1, <2>2, <2>3 DEF VerdictInv
    <3>3. (Done => IF query THEN Answer(result) ELSE Outcomes(result))'
      BY <2>1, <2>2, <2>3 DEF VerdictInv, Done
    <3> QED
      BY <3>1, <3>2, <3>3
  <2> QED
    BY <2>1, <2>4 DEF VerdictInv
<1> QED
  BY <1>1, <1>2, <1>3, <1>4, <1>5, <1>6 DEF Next

\* The two invariants say what the property does.
LEMMA Exact == BufferInv /\ VerdictInv /\ QueryInv => QueryExact
<1> SUFFICES ASSUME BufferInv, VerdictInv, QueryInv, Done, ~ query PROVE QueryExact
  BY DEF QueryExact
<1>1. Outcomes(result) /\ asked \in Int /\ result \in Int /\ InputType
  BY DEF VerdictInv, BufferInv, TypeOK, CallType
<1>2. asked < 0 => result \in {asked, SMALL_BUFFER}
  <2>1. SUFFICES ASSUME asked < 0 PROVE result \in {asked, SMALL_BUFFER}
    OBVIOUS
  <2>2. Judged(asked)
    BY <1>1, <2>1 DEF VerdictInv, Answer, NO_ERROR
  <2>3. ~ Accepted /\ (Judged(result) => result = asked)
    BY <1>1, <2>2, OneVerdict
  <2> QED
    BY <1>1, <2>3 DEF Outcomes
<1>3. asked > 0 => result > 0 \/ result \in OfTheBuffer
  <2>1. SUFFICES ASSUME asked > 0 PROVE result > 0 \/ result \in OfTheBuffer
    OBVIOUS
  <2>2. Accepted
    BY <1>1, <2>1 DEF VerdictInv, Answer, NO_ERROR
  <2>3. ~ Judged(result)
    BY <1>1, <2>2, OneVerdict
  <2> QED
    BY <1>1, <2>3 DEF Outcomes, OfTheBuffer
<1>4. asked > 0 /\ ~ InPlace => Same(result)
  BY DEF QueryInv
<1> QED
  BY <1>2, <1>3, <1>4 DEF QueryExact, Same

\* A call without a buffer and the one with a buffer behind it agree, for any chunk and
\* any costs.  They report the same error, unless dst is too small for as much as that.
\* The size the first returns is the size of the entity; in place of it the second may
\* report a value that does not fit the header, a bad time, or a lack of space, the
\* last never with that many bytes in whole words.  With an in-place model the sizes
\* may differ.
THEOREM QueryExactCorrect == Spec => []QueryExact
<1>1. Spec => [](BufferInv /\ VerdictInv /\ QueryInv)
  BY InitBuffer, InitVerdict, InitQuery, NextBuffer, NextVerdict, NextQuery, PTL DEF Spec
<1> QED
  BY <1>1, Exact, PTL
=============================================================================
