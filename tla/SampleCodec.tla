----------------------------- MODULE SampleCodec -----------------------------
(***************************************************************************)
(* The lossy rounding, decorrelation and Golomb/Rice coding of the samples *)
(* of an imagette collection, from the encoder (compress_imagette and what *)
(* it calls in lib/icu_compress/cmp_icu.c) through the bitstream to the    *)
(* decoder (decompress_imagette, lib/decompress/decmp.c), and the updated  *)
(* model each of them computes.                                            *)
(*                                                                         *)
(* A uint32_t has Reg bits, 32 in the code; the length limit of code words *)
(* and the spillover thresholds follow it as they do in the code.  The     *)
(* bitstream is a sequence of bits: there is room for it, and how the      *)
(* decoder's register is refilled from it is left out.                     *)
(***************************************************************************)
EXTENDS Integers, Sequences

CONSTANTS Regs,    \* numbers of bits a uint32_t may have
          Bits,    \* widths of the data, max_data_bits
          Par,     \* Golomb parameters
          Round,   \* lossy parameters
          Weight,  \* model_value
          Models,  \* contents a model may have
          Samples  \* samples of the collection

MAX_MODEL_VALUE == 16
MIN_NON_IMA_SPILL == 2

ASSUME RegAssumption == \A n \in Regs : n \in Nat /\ n >= 4 /\ n % 2 = 0
ASSUME RangeAssumption ==
  /\ Bits \subseteq Nat \ {0} /\ Par \subseteq Nat \ {0}
  /\ Round \subseteq Nat /\ Weight \subseteq 0 .. MAX_MODEL_VALUE
  /\ Models \subseteq Nat /\ Samples \in Nat \ {0}

VARIABLES cfg,    \* parameters of the collection, the same on both sides
          data,   \* the samples encoded so far
          model,  \* their model, as it is kept on both sides
          stream, \* the bitstream
          ends,   \* history: length of the stream behind each sample
          cws,    \* history: lengths of the code words
          up,     \* the encoder's updated model
          pos,    \* bits the decoder has consumed
          got,    \* the samples the decoder returns
          got_up, \* the decoder's updated model
          pc      \* "encode", "decode", "done" or "corrupt"

encoder == <<data, model, stream, ends, cws, up>>
decoder == <<pos, got, got_up>>
vars == <<cfg, encoder, decoder, pc>>

Reg == cfg.reg

\* Powers of two, 1U << n
pow2[n \in Nat] == IF n = 0 THEN 1 ELSE 2 * pow2[n - 1]

ilog_2(x) == CHOOSE l \in 0 .. Reg - 1 : pow2[l] <= x /\ x < pow2[l + 1]

is_a_pow_of_2(x) == x = pow2[ilog_2(x)]

\* Values below the cutoff have the shortest code words.
Cutoff(m) == pow2[ilog_2(m) + 1] - m

\* Mutant of MaxSpill: no room for the last escape symbol.
MaxSpillOneMore(m) == (Reg - 1 - ilog_2(m)) * m + Cutoff(m) - ((Reg \div 2) - 1)

\* cmp_icu_max_spill: room for the escape symbols in code words of Reg bits.
MaxSpill(m) ==
  LET max_n_sym_offset == (Reg \div 2) - 1
  IN  (Reg - 1 - ilog_2(m)) * m + Cutoff(m) - max_n_sym_offset - 1

\* cmp_cfg_gen_par_is_invalid, cmp_pars_are_invalid
Valid(c) == c.spill >= MIN_NON_IMA_SPILL /\ c.spill <= MaxSpill(c.par)

Init ==
  /\ \E n \in Regs, m \in Par :
       cfg \in [reg : {n}, zero : BOOLEAN, model_mode : BOOLEAN, par : {m},
               spill : MIN_NON_IMA_SPILL .. n * m, bits : Bits, round : Round,
               weight : Weight]
  /\ cfg.bits <= Reg /\ cfg.par < pow2[Reg \div 2]
  /\ Valid(cfg) /\ cfg.round < cfg.bits
  /\ data = <<>> /\ model = <<>> /\ stream = <<>> /\ ends = <<>> /\ cws = <<>>
  /\ up = <<>> /\ pos = 0 /\ got = <<>> /\ got_up = <<>>
  /\ pc = "encode"

-----------------------------------------------------------------------------
(* Both sides *)

RoundFwd(x) == x \div pow2[cfg.round]

RoundInv(x) == x * pow2[cfg.round]

\* Mutant of UpModel: the sample as it was before the lossy rounding.
UpModelExact(d, m) ==
  (m * cfg.weight + d * (MAX_MODEL_VALUE - cfg.weight)) \div MAX_MODEL_VALUE

\* cmp_up_model16, cmp_up_model32: of the data only what the decoder will know.
UpModel(d, m) ==
  (m * cfg.weight + RoundInv(RoundFwd(d)) * (MAX_MODEL_VALUE - cfg.weight))
    \div MAX_MODEL_VALUE

\* The model of the next sample: the model buffer or, in diff mode, the sample
\* before it, and 0 for the first.
NextModel(m, samples) ==
  IF cfg.model_mode THEN m
  ELSE IF samples = <<>> THEN 0 ELSE samples[Len(samples)]

-----------------------------------------------------------------------------
(* The encoder *)

\* Signed values of cfg.bits bits: negative ones become odd, the others even.
MapToPos(x) ==
  LET u == x % pow2[cfg.bits]
  IN  IF u >= pow2[cfg.bits - 1] THEN (pow2[cfg.bits] - u) * 2 - 1 ELSE u * 2

\* put_n_bits32: the lower n bits of the value, the highest first.
PutBits(x, n) == [i \in 1 .. n |-> (x \div pow2[n - i]) % 2]

rice_encoder(x, m, log2_m) ==
  LET q == x \div m
  IN  [cw |-> (pow2[q] - 1) * pow2[log2_m + 1] + (x % m), len |-> log2_m + 1 + q]

golomb_encoder(x, m, log2_m) ==
  LET g == (x - Cutoff(m)) \div m
      r == (x - Cutoff(m)) % m
  IN  IF x < Cutoff(m) THEN [cw |-> x, len |-> log2_m + 1]
      ELSE [cw |-> (pow2[g] - 1) * pow2[log2_m + 2] + 2 * Cutoff(m) + r,
            len |-> log2_m + 2 + g]

CodeWord(x) == IF is_a_pow_of_2(cfg.par) THEN rice_encoder(x, cfg.par, ilog_2(cfg.par))
               ELSE golomb_encoder(x, cfg.par, ilog_2(cfg.par))

\* A code word, and the unencoded bits behind it.
Symbol(x, raw) ==
  LET c == CodeWord(x)
  IN  [bits |-> PutBits(c.cw, c.len) \o raw, len |-> c.len]

\* Mutant of encode_value_zero: the outlier is detected one value too late.
encode_value_zero_late(x) ==
  IF x < cfg.spill THEN Symbol(x + 1, <<>>)
  ELSE Symbol(0, PutBits((x + 1) % pow2[Reg], cfg.bits))

\* encode_value_zero: zero is the escape symbol, the other values are one larger.
encode_value_zero(x) ==
  IF x < cfg.spill - 1 THEN Symbol(x + 1, <<>>)
  ELSE Symbol(0, PutBits((x + 1) % pow2[Reg], cfg.bits))

\* encode_value_multi: the escape symbols from spill on tell how many bits follow.
encode_value_multi(x) ==
  LET rest == x - cfg.spill
      offset == IF rest = 0 THEN 0 ELSE ilog_2(rest) \div 2
  IN  IF x < cfg.spill THEN Symbol(x, <<>>)
      ELSE Symbol(cfg.spill + offset, PutBits(rest, 2 * (offset + 1)))

encode_value(d, m) ==
  LET x == MapToPos(RoundFwd(d) - RoundFwd(m))
  IN  IF cfg.zero THEN encode_value_zero(x) ELSE encode_value_multi(x)

\* The loop of compress_imagette for one sample d and its place m in the model.
Encode(d, m) ==
  /\ pc = "encode" /\ Len(data) < Samples
  /\ LET symbol == encode_value(d, NextModel(m, data))
     IN  /\ stream' = stream \o symbol.bits
         /\ cws' = Append(cws, symbol.len)
         /\ ends' = Append(ends, Len(stream'))
  /\ data' = Append(data, d)
  /\ IF cfg.model_mode
     THEN model' = Append(model, m) /\ up' = Append(up, UpModel(d, m))
     ELSE UNCHANGED <<model, up>>
  /\ UNCHANGED <<cfg, decoder, pc>>

\* pad_bitstream: zeros up to a multiple of 32 bits.
Pad ==
  /\ pc = "encode" /\ Len(data) = Samples
  /\ stream' = stream \o [i \in 1 .. (Reg - (Len(stream) % Reg)) % Reg |-> 0]
  /\ pc' = "decode"
  /\ UNCHANGED <<cfg, data, model, ends, cws, up, decoder>>

-----------------------------------------------------------------------------
(* The decoder *)

\* Bit i of the stream; what the decoder sees behind the end does not matter, it
\* reports an overflow then.
Bit(i) == IF i <= Len(stream) THEN stream[i] ELSE 0

\* bit_peek_bits
Peek(p, n) ==
  LET peek[i \in Nat] == IF i = 0 THEN 0 ELSE 2 * peek[i - 1] + Bit(p + i)
  IN  peek[n]

\* bit_peek_leading_ones
LeadingOnes(p) ==
  CHOOSE n \in 0 .. Len(stream) : /\ Bit(p + n + 1) = 0
                                  /\ \A i \in 1 .. n : Bit(p + i) = 1

unary_decoder(p) == [value |-> LeadingOnes(p), pos |-> p + LeadingOnes(p) + 1]

rice_decoder(p, log2_m) ==
  LET q == unary_decoder(p)
  IN  [value |-> q.value * pow2[log2_m] + Peek(q.pos, log2_m), pos |-> q.pos + log2_m]

golomb_decoder(p, m, log2_m) ==
  LET q == unary_decoder(p)
      r2 == Peek(q.pos, log2_m + 1)
      r1 == r2 \div 2
  IN  IF r1 < Cutoff(m)
      THEN [value |-> q.value * m + r1, pos |-> q.pos + log2_m]
      ELSE [value |-> q.value * m + r2 - Cutoff(m), pos |-> q.pos + log2_m + 1]

\* select_decoder
DecodeCodeWord(p) ==
  IF cfg.par = 1 THEN unary_decoder(p)
  ELSE IF is_a_pow_of_2(cfg.par) THEN rice_decoder(p, ilog_2(cfg.par))
  ELSE golomb_decoder(p, cfg.par, ilog_2(cfg.par))

Decoded(value, p) == [value |-> value, pos |-> p, err |-> p > Len(stream)]
Corrupt(p) == [value |-> 0, pos |-> p, err |-> TRUE]

decode_zero ==
  LET c == DecodeCodeWord(pos)
      x == (Peek(c.pos, cfg.bits) - 1) % pow2[cfg.bits]
  IN  IF c.value # 0
      THEN IF c.value >= cfg.spill THEN Corrupt(c.pos) ELSE Decoded(c.value - 1, c.pos)
      ELSE IF x < cfg.spill - 1 THEN Corrupt(c.pos) ELSE Decoded(x, c.pos + cfg.bits)

decode_multi ==
  LET c == DecodeCodeWord(pos)
      len == 2 * (c.value - cfg.spill + 1)
      rest == Peek(c.pos, len)
  IN  IF c.value < cfg.spill THEN Decoded(c.value, c.pos)
      ELSE IF \/ len > 2 * ((cfg.bits + 1) \div 2)
              \/ len > 2 /\ rest \div pow2[len - 2] = 0
              \/ ((rest + cfg.spill) % pow2[Reg]) % pow2[cfg.bits] < cfg.spill
           THEN Corrupt(c.pos)
           ELSE Decoded((rest + cfg.spill) % pow2[Reg], c.pos + len)

re_map_to_pos(x) == IF x % 2 = 1 THEN - ((x + 1) \div 2) ELSE x \div 2

decode_value(x, m) == RoundInv((re_map_to_pos(x) + RoundFwd(m)) % pow2[cfg.bits])

\* The loop of decompress_imagette for one sample.
Decode ==
  /\ pc = "decode" /\ Len(got) < Samples
  /\ LET symbol == IF cfg.zero THEN decode_zero ELSE decode_multi
         m == NextModel(IF cfg.model_mode THEN model[Len(got) + 1] ELSE 0, got)
         d == decode_value(symbol.value, m) % pow2[cfg.bits]
     IN  /\ pos' = symbol.pos
         /\ IF symbol.err
            THEN pc' = "corrupt" /\ UNCHANGED <<got, got_up>>
            ELSE /\ got' = Append(got, d)
                 /\ got_up' = IF cfg.model_mode THEN Append(got_up, UpModel(d, m)) ELSE got_up
                 /\ pc' = IF Len(got') = Samples THEN "done" ELSE pc
  /\ UNCHANGED <<cfg, encoder>>

Next ==
  \/ \E d \in 0 .. pow2[cfg.bits] - 1 :
       \E m \in IF cfg.model_mode THEN Models ELSE {0} : Encode(d, m)
  \/ Pad
  \/ Decode

Spec == Init /\ [][Next]_vars
-----------------------------------------------------------------------------
(* Correctness *)

\* What comes out of the decoder is what went into the encoder, less the bits the
\* lossy parameter takes away: none when it is CMP_LOSSLESS.  The decoder consumes
\* for each sample exactly the bits the encoder put, so that it stays in step, and
\* it never reports a stream of the encoder as corrupt.
RoundTrip ==
  /\ \A i \in DOMAIN got : got[i] = RoundInv(RoundFwd(data[i]))
  /\ pc # "corrupt"
  /\ got # <<>> => pos = ends[Len(got)]

\* Encoder and decoder update the model alike although only the encoder has the
\* original samples: the next chunk is compressed and decompressed against the
\* same model.
ModelsAgree == \A i \in DOMAIN got_up : got_up[i] = up[i]

\* No valid combination of Golomb parameter and spillover threshold leads to a
\* code word that is longer than a register, escape symbols included.
CodeWordsFit == \A i \in DOMAIN cws : cws[i] <= Reg
=============================================================================
