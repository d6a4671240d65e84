---------------------------- MODULE RdcuCfgProofs ----------------------------
(***************************************************************************)
(* Proofs about RdcuCfg, for every size of the SRAM, every width of the    *)
(* registers that leaves the sums of the checks room, and all arguments.   *)
(***************************************************************************)
EXTENDS RdcuCfg, TLAPS

-----------------------------------------------------------------------------
(* One buffer *)

\* Addresses and lengths that fit the registers.
Fitting(s, l, a) ==
  /\ s \in 0 .. RegMax /\ l \in 0 .. RegMax
  /\ a \in [Buf -> Nat] /\ \A b \in Buf : a[b] <= RegMax

LEMMA SizeNat ==
  ASSUME NEW s, NEW l, NEW a, Fitting(s, l, a), NEW b \in Buf
  PROVE  /\ Size(b, s, l) \in Nat /\ Size(b, s, l) <= 2 * RegMax
         /\ Length(b, s, l) = Size(b, s, l)
         /\ a[b] \in Nat
BY WidthAssumption DEF Fitting, Size, Length, Bytes, Wrap

\* What fits the registers does not wrap around once it is in the SRAM.
LEMMA InRange ==
  ASSUME NEW s, NEW l, NEW a, Fitting(s, l, a), NEW b \in Buf,
         ~ outside_sram_range(a[b], Length(b, s, l))
  PROVE  /\ Wrap(a[b] + Length(b, s, l)) = a[b] + Size(b, s, l)
         /\ a[b] + Size(b, s, l) <= SRAM_SIZE
<1>1. /\ Size(b, s, l) \in Nat /\ Size(b, s, l) <= 2 * RegMax
      /\ Length(b, s, l) = Size(b, s, l) /\ a[b] \in Nat
  BY SizeNat
<1>2. a[b] < SRAM_SIZE
  BY <1>1, WidthAssumption DEF outside_sram_range
<1>3. Wrap(a[b] + Length(b, s, l)) = a[b] + Size(b, s, l)
  BY <1>1, <1>2, WidthAssumption DEF Wrap
<1> QED
  BY <1>1, <1>3, WidthAssumption DEF outside_sram_range

LEMMA ApartSym ==
  ASSUME NEW a \in Nat, NEW n \in Nat, NEW b \in Nat, NEW k \in Nat, Apart(a, n, b, k)
  PROVE  Apart(b, k, a, n)
BY DEF Apart

\* The buffers of a valid configuration, in the arithmetic of the integers.
LEMMA ApartFromChecked ==
  ASSUME NEW s, NEW l, NEW a, Fitting(s, l, a), NEW b \in Buf, NEW c \in Buf,
         ~ outside_sram_range(a[b], Length(b, s, l)),
         ~ outside_sram_range(a[c], Length(c, s, l)),
         ~ Overlap(b, c, s, l, a)
  PROVE  /\ Apart(a[b], Size(b, s, l), a[c], Size(c, s, l))
         /\ Apart(a[c], Size(c, s, l), a[b], Size(b, s, l))
<1>1. /\ Wrap(a[b] + Length(b, s, l)) = a[b] + Size(b, s, l)
      /\ Wrap(a[c] + Length(c, s, l)) = a[c] + Size(c, s, l)
  BY InRange
<1>2. /\ a[b] \in Nat /\ Size(b, s, l) \in Nat
      /\ a[c] \in Nat /\ Size(c, s, l) \in Nat
  BY SizeNat
<1>3. Apart(a[b], Size(b, s, l), a[c], Size(c, s, l))
  BY <1>1, <1>2 DEF Overlap, buffers_overlap, Apart
<1> QED
  BY <1>2, <1>3, ApartSym

-----------------------------------------------------------------------------
(* All buffers of a valid configuration *)

LEMMA ValidInside ==
  ASSUME NEW m \in Mode, NEW i, NEW o, NEW s, NEW l, NEW a, Fitting(s, l, a),
         BuffersValid(m, i, o, s, l, a)
  PROVE  /\ \A b \in Works(m) : b \in Buf /\ a[b] % 4 = 0
                                /\ ~ outside_sram_range(a[b], Length(b, s, l))
         /\ Inside(m, a, s, l)
<1>1. ASSUME NEW b \in Works(m)
      PROVE  b \in Buf /\ a[b] % 4 = 0 /\ ~ outside_sram_range(a[b], Length(b, s, l))
  <2>1. b \in Buf
    BY DEF Works, Buf
  <2>2. CASE b \in {"data", "buffer"}
    BY <2>1, <2>2 DEF BuffersValid, BufferOK
  <2>3. CASE m = "model" /\ b = "model"
    BY <2>1, <2>3 DEF BuffersValid, BufferOK
  <2>4. CASE m = "model" /\ b = "new_model"
    <3>1. CASE a["model"] = a["new_model"]
      BY <2>1, <2>4, <3>1 DEF BuffersValid, BufferOK, Length
    <3>2. CASE a["model"] # a["new_model"]
      BY <2>1, <2>4, <3>2 DEF BuffersValid, BufferOK
    <3> QED
      BY <3>1, <3>2
  <2> QED
    BY <2>1, <2>2, <2>3, <2>4 DEF Works, Buf
<1>2. ASSUME NEW b \in Works(m) PROVE a[b] + Size(b, s, l) <= SRAM_SIZE
  BY <1>1, InRange
<1> QED
  BY <1>1, <1>2 DEF Inside

LEMMA ValidDisjoint ==
  ASSUME NEW m \in Mode, NEW i, NEW o, NEW s, NEW l, NEW a, Fitting(s, l, a),
         BuffersValid(m, i, o, s, l, a)
  PROVE  Disjoint(m, a, s, l)
<1> DEFINE A(b, c) == Apart(a[b], Size(b, s, l), a[c], Size(c, s, l))
<1>1. \A b \in Works(m) : b \in Buf /\ ~ outside_sram_range(a[b], Length(b, s, l))
  BY ValidInside
<1>2. ASSUME NEW b \in Works(m), NEW c \in Works(m), ~ Overlap(b, c, s, l, a)
      PROVE  A(b, c) /\ A(c, b)
  BY <1>1, <1>2, ApartFromChecked
<1>3. A("data", "buffer") /\ A("buffer", "data")
  <2>1. ~ Overlap("data", "buffer", s, l, a)
    BY DEF BuffersValid, BufferOK
  <2> QED
    BY <1>2, <2>1 DEF Works, Buf
<1>4. CASE m # "model"
  <2>1. ASSUME NEW b \in Works(m), NEW c \in Works(m) PROVE b = c \/ A(b, c)
    BY <1>3, <1>4 DEF Works
  <2> QED
    BY <2>1 DEF Disjoint, Shared
<1>5. CASE m = "model"
  <2>1. /\ ~ Overlap("model", "data", s, l, a) /\ ~ Overlap("model", "buffer", s, l, a)
    BY <1>5 DEF BuffersValid, BufferOK
  <2>2. /\ A("model", "data") /\ A("data", "model")
        /\ A("model", "buffer") /\ A("buffer", "model")
    BY <1>2, <1>5, <2>1 DEF Works, Buf
  <2>3. CASE a["model"] = a["new_model"]
    <3>1. /\ A("new_model", "data") /\ A("data", "new_model")
          /\ A("new_model", "buffer") /\ A("buffer", "new_model")
      BY <2>2, <2>3 DEF Size
    <3>2. ASSUME NEW b \in Works(m), NEW c \in Works(m) PROVE Shared(b, c, a) \/ A(b, c)
      <4>1. CASE {b, c} = {"model", "new_model"}
        BY <2>3, <4>1 DEF Shared
      <4>2. CASE b = c
        BY <4>2 DEF Shared
      <4>3. CASE {b, c} # {"model", "new_model"} /\ b # c
        BY <1>3, <1>5, <2>2, <3>1, <4>3 DEF Works, Buf
      <4> QED
        BY <4>1, <4>2, <4>3
    <3> QED
      BY <3>2 DEF Disjoint
  <2>4. CASE a["model"] # a["new_model"]
    <3>1. /\ ~ Overlap("new_model", "data", s, l, a)
          /\ ~ Overlap("new_model", "buffer", s, l, a)
          /\ ~ Overlap("new_model", "model", s, l, a)
      BY <1>5, <2>4 DEF BuffersValid, BufferOK
    <3>2. /\ A("new_model", "data") /\ A("data", "new_model")
          /\ A("new_model", "buffer") /\ A("buffer", "new_model")
          /\ A("new_model", "model") /\ A("model", "new_model")
      BY <1>2, <1>5, <3>1 DEF Works, Buf
    <3>3. ASSUME NEW b \in Works(m), NEW c \in Works(m) PROVE b = c \/ A(b, c)
      BY <1>3, <1>5, <2>2, <3>2 DEF Works, Buf
    <3> QED
      BY <3>3 DEF Disjoint, Shared
  <2> QED
    BY <2>3, <2>4
<1> QED
  BY <1>4, <1>5

-----------------------------------------------------------------------------
(* Whole words *)

\* Rounding a length up to whole words does not carry a buffer over the next
\* aligned address.
LEMMA RoundUpWithin ==
  ASSUME NEW n \in Nat, NEW x \in Nat, NEW y \in Nat, n <= 2 * RegMax,
         x % 4 = 0, y % 4 = 0, x + n <= y
  PROVE  /\ RoundUp4(n) \in Nat /\ RoundUp4(n) % 4 = 0
         /\ n <= RoundUp4(n) /\ x + RoundUp4(n) <= y
<1>1. Wrap(n + 3) = n + 3
  BY WidthAssumption DEF Wrap
<1>2. RoundUp4(n) = (n + 3) - ((n + 3) % 4)
  BY <1>1 DEF RoundUp4
<1> QED
  BY <1>2

\* A transferred buffer of a valid configuration, in whole words.
LEMMA ValidTransfer ==
  ASSUME NEW m \in Mode, NEW i, NEW o, NEW s, NEW l, NEW a, Fitting(s, l, a),
         BuffersValid(m, i, o, s, l, a),
         NEW b \in Works(m), b # "buffer"
  PROVE  /\ RoundUp4(2 * s) \in Nat /\ RoundUp4(2 * s) % 4 = 0
         /\ 2 * s <= RoundUp4(2 * s) /\ a[b] + RoundUp4(2 * s) <= SRAM_SIZE
         /\ \A c \in Works(m) :
              Shared(b, c, a) \/ Apart(a[b], RoundUp4(2 * s), a[c], Size(c, s, l))
<1>1. /\ \A c \in Works(m) : c \in Buf /\ a[c] % 4 = 0
      /\ Inside(m, a, s, l) /\ Disjoint(m, a, s, l)
  BY ValidInside, ValidDisjoint
<1>2. \A c \in Works(m) : a[c] \in Nat /\ Size(c, s, l) \in Nat
  BY <1>1, SizeNat
<1>3. Size(b, s, l) = 2 * s /\ 2 * s \in Nat /\ 2 * s <= 2 * RegMax
  BY <1>1, WidthAssumption DEF Size, Fitting
<1>4. a[b] + 2 * s <= SRAM_SIZE
  BY <1>1, <1>3 DEF Inside
<1>5. /\ RoundUp4(2 * s) \in Nat /\ RoundUp4(2 * s) % 4 = 0
      /\ 2 * s <= RoundUp4(2 * s) /\ a[b] + RoundUp4(2 * s) <= SRAM_SIZE
  BY <1>1, <1>2, <1>3, <1>4, RoundUpWithin, WidthAssumption
<1>6. ASSUME NEW c \in Works(m), ~ Shared(b, c, a)
      PROVE  Apart(a[b], RoundUp4(2 * s), a[c], Size(c, s, l))
  <2>1. Apart(a[b], 2 * s, a[c], Size(c, s, l))
    BY <1>1, <1>3, <1>6 DEF Disjoint
  <2>2. CASE a[b] + 2 * s <= a[c]
    <3>1. a[b] + RoundUp4(2 * s) <= a[c]
      BY <1>1, <1>2, <1>3, <2>2, RoundUpWithin
    <3> QED
      BY <3>1 DEF Apart
  <2>3. CASE a[c] + Size(c, s, l) <= a[b]
    BY <2>3 DEF Apart
  <2> QED
    BY <2>1, <2>2, <2>3 DEF Apart
<1> QED
  BY <1>5, <1>6

-----------------------------------------------------------------------------
(* The specification *)

LEMMA ZeroU32 == 0 \in U32 /\ [b \in Buf |-> 0] \in [Buf -> U32]
BY WidthAssumption DEF U32

LEMMA InitTypeOK == Init => TypeOK
BY ZeroU32 DEF Init, TypeOK, Mode

\* Registers that were set hold what fits them.
LEMMA AcceptedFits ==
  ASSUME TypeOK, SettersAccept
  PROVE  /\ Fitting(samples, length, adr)
         /\ adr \in [Buf -> 0 .. RegMax]
BY WidthAssumption DEF TypeOK, SettersAccept, Fitting, U32

LEMMA NextTypeOK == TypeOK /\ [Next]_vars => TypeOK'
<1> SUFFICES ASSUME TypeOK, [Next]_vars PROVE TypeOK'
  OBVIOUS
<1>1. ASSUME NEW m \in Mode, NEW ok \in BOOLEAN, Create(m, ok) PROVE TypeOK'
  BY <1>1, ZeroU32 DEF Create, Verdict, TypeOK
<1>2. ASSUME NEW ok \in BOOLEAN, Imagette(ok) PROVE TypeOK'
  BY <1>2 DEF Imagette, Verdict, TypeOK, bufs
<1>3. ASSUME NEW i \in BOOLEAN, NEW o \in {"null", "own", "input"}, NEW s \in Sam,
             NEW l \in Sam, NEW a \in Layouts, Buffers(i, o, s, l, a)
      PROVE  TypeOK'
  BY <1>3, ArgAssumption DEF Buffers, Verdict, TypeOK, pars
<1>4. ASSUME Compress PROVE TypeOK'
  <2>1. CASE Start
    <3>1. used' \in Registers
      BY <2>1, AcceptedFits DEF Start, Registers, TypeOK, Fitting
    <3> QED
      BY <1>4, <2>1, <3>1 DEF Compress, Start, ToTransfer, TypeOK, bufs, pars
  <2>2. CASE ~ Start
    BY <1>4, <2>2 DEF Compress, Fails, TypeOK, bufs, pars
  <2> QED
    BY <2>1, <2>2
<1>5. CASE UNCHANGED vars
  BY <1>5 DEF TypeOK, vars, bufs, pars
<1> QED
  BY <1>1, <1>2, <1>3, <1>4, <1>5 DEF Next

(* Every variable keeps its type; what a compression is started with fits the
   registers of the RDCU. *)
THEOREM TypeCorrect == Spec => []TypeOK
<1> QED
  BY InitTypeOK, NextTypeOK, PTL DEF Spec

\* A step starts the compressor, leaves it as it is, or leaves it off.
LEMMA StepCases ==
  ASSUME [Next]_vars
  PROVE  Start \/ used' = NotStarted \/ (used' = used /\ moved' = moved)
BY DEF Next, vars, Create, Imagette, Buffers, Compress, Fails

LEMMA StartSafe ==
  ASSUME TypeOK, Start
  PROVE  StartedApart' /\ TransfersApart'
<1> DEFINE r == [mode |-> mode, samples |-> samples, length |-> length, adr |-> adr]
<1>1. used' = r /\ moved' = ToTransfer
  BY DEF Start
<1>2. mode \in Mode /\ Fitting(samples, length, adr)
  BY AcceptedFits DEF Start, TypeOK
<1>3. BuffersValid(mode, input, model, samples, length, adr)
  BY DEF Start, CfgValid
<1>4. Inside(mode, adr, samples, length) /\ Disjoint(mode, adr, samples, length)
  BY <1>2, <1>3, ValidInside, ValidDisjoint
<1>5. StartedApart'
  BY <1>1, <1>4 DEF StartedApart
<1>6. ASSUME NEW b \in ToTransfer
      PROVE  LET n == RoundUp4(2 * samples) IN
             /\ adr[b] + n <= SRAM_SIZE /\ n >= 2 * samples
             /\ \A c \in Works(mode) :
                  Shared(b, c, adr) \/ Apart(adr[b], n, adr[c], Size(c, samples, length))
  <2>1. b \in Works(mode) /\ b # "buffer"
    BY DEF ToTransfer, Works, Buf
  <2> QED
    BY <1>2, <1>3, <2>1, ValidTransfer DEF Fitting
<1>7. TransfersApart'
  BY <1>1, <1>6 DEF TransfersApart
<1> QED
  BY <1>5, <1>7

(* The compressor is never started on buffers that reach beyond the SRAM or into
   each other: rdcu_cfg_buffers_is_invalid computes its sums in 32 bits and may
   accept a length that wraps, but the setters of the registers refuse it. *)
THEOREM StartedCorrect == Spec => []StartedApart
<1>1. Init => StartedApart
  BY DEF Init, StartedApart
<1>2. TypeOK /\ StartedApart /\ [Next]_vars => StartedApart'
  BY StepCases, StartSafe DEF StartedApart
<1> QED
  BY <1>1, <1>2, TypeCorrect, PTL DEF Spec

(* The transfers of rdcu_transfer_sram, in whole words of four bytes, lie inside
   the SRAM and in no buffer that is not theirs. *)
THEOREM TransfersCorrect == Spec => []TransfersApart
<1>1. Init => TransfersApart
  BY DEF Init, TransfersApart
<1>2. TypeOK /\ TransfersApart /\ [Next]_vars => TransfersApart'
  BY StepCases, StartSafe DEF TransfersApart
<1> QED
  BY <1>1, <1>2, TypeCorrect, PTL DEF Spec

\* What the checks let pass the transfer takes.
LEMMA CheckedTransfer ==
  ASSUME TypeOK, CfgValid, SettersAccept, NEW b \in ToTransfer
  PROVE  TransferAccepts(b)
<1>1. mode \in Mode /\ Fitting(samples, length, adr)
  BY AcceptedFits DEF TypeOK
<1>2. BuffersValid(mode, input, model, samples, length, adr)
  BY DEF CfgValid
<1>3. b \in Works(mode) /\ b \in Buf /\ b # "buffer"
  BY DEF ToTransfer, Works, Buf
<1>4. /\ adr[b] % 4 = 0 /\ adr[b] \in Nat
      /\ ~ outside_sram_range(adr[b], Length(b, samples, length))
  BY <1>1, <1>2, <1>3, ValidInside, SizeNat
<1>5. Length(b, samples, length) = Bytes(samples) /\ Bytes(samples) = 2 * samples
  BY <1>1, <1>3, WidthAssumption DEF Length, Bytes, Wrap, Fitting
<1>6. samples \in Nat
  BY <1>1 DEF Fitting
<1>7. Bytes(samples) % 2 = 0
  BY <1>5, <1>6
<1>8. /\ RoundUp4(2 * samples) \in Nat /\ RoundUp4(2 * samples) % 4 = 0
      /\ adr[b] + RoundUp4(2 * samples) <= SRAM_SIZE
  BY <1>1, <1>2, <1>3, ValidTransfer
<1>9. adr[b] < SRAM_SIZE
  BY <1>4, WidthAssumption DEF outside_sram_range
<1>10. ~ outside_sram_range(adr[b], RoundUp4(2 * samples))
  BY <1>4, <1>8, <1>9, WidthAssumption DEF outside_sram_range, Wrap
<1> QED
  BY <1>4, <1>5, <1>7, <1>8, <1>10 DEF TransferAccepts

(* A transfer is never refused for its size or place: what passes the checks of
   the configuration and of the registers passes those of rdcu_write_sram_16 and
   rdcu_sync_mirror_to_sram. *)
THEOREM NeverRefusedCorrect == Spec => []TransferNeverRefused
<1>1. Init => TransferNeverRefused
  BY DEF Init, TransferNeverRefused
<1>2. TypeOK /\ TransferNeverRefused /\ [Next]_vars => TransferNeverRefused'
  <2> SUFFICES ASSUME TypeOK, TransferNeverRefused, [Next]_vars
               PROVE  TransferNeverRefused'
    OBVIOUS
  <2>1. CASE Compress
    BY <2>1, CheckedTransfer DEF Compress, Start, Fails, TransferNeverRefused
  <2>2. CASE ~ Compress
    BY <2>2 DEF Next, vars, Create, Imagette, Buffers, Verdict, TransferNeverRefused
  <2> QED
    BY <2>1, <2>2
<1> QED
  BY <1>1, <1>2, TypeCorrect, PTL DEF Spec
=============================================================================
