------------------------------- MODULE RdcuCfg -------------------------------
(***************************************************************************)
(* The configuration of an RDCU compression (struct rdcu_cfg,              *)
(* lib/rdcu_compress/cmp_rdcu_cfg.c): the calls that fill it, the checks   *)
(* of its SRAM buffers in 32-bit arithmetic, and rdcu_compress_data        *)
(* (cmp_rdcu.c), which checks it once more, writes it to the registers,    *)
(* transfers data and model and starts the compressor.                     *)
(*                                                                         *)
(* Buffers are measured in samples of two bytes, addresses in bytes.       *)
(***************************************************************************)
EXTENDS Integers

CONSTANTS SRAM_SIZE,  \* RDCU_SRAM_SIZE in bytes; RDCU_SRAM_START is 0
          W,          \* 2^32: uint32_t arithmetic is modulo W
          RegMax,     \* 0x00FFFFFF, what an address or length register holds
          Layouts,    \* the four SRAM addresses the callers pass together
          Sam         \* the lengths they pass

ASSUME WidthAssumption ==
  /\ SRAM_SIZE \in Nat \ {0} /\ RegMax \in Nat /\ W \in Nat
  /\ SRAM_SIZE % 4 = 0 /\ SRAM_SIZE + 2 * RegMax + 3 < W
Mode == {"raw", "diff", "model"}
Buf == {"data", "model", "new_model", "buffer"}
U32 == 0 .. W - 1

ASSUME ArgAssumption == Layouts \subseteq [Buf -> U32] /\ Sam \subseteq U32

VARIABLES fresh,    \* rdcu_cfg_buffers has not been called since rdcu_cfg_create
          mode,     \* cmp_mode; the escape mechanism does not matter here
          gen,      \* mode, model_value and round pass their checks
          ima,      \* the Golomb and spill parameters pass theirs
          input,    \* input_buf is not NULL
          model,    \* model_buf: "null", "own", or "input" when it is input_buf
          samples, length,
          adr,      \* the four rdcu_*_adr
          result,   \* of the last call
          used,     \* the registers the compressor was started with
          moved     \* the buffers transferred to the SRAM before it was

bufs == <<fresh, input, model, samples, length, adr>>
pars == <<mode, gen, ima>>
vars == <<bufs, pars, result, used, moved>>

NotStarted == [mode |-> "off"]
Registers == [mode : Mode, samples : 0 .. RegMax, length : 0 .. RegMax,
              adr : [Buf -> 0 .. RegMax]]

TypeOK ==
  /\ fresh \in BOOLEAN /\ mode \in Mode /\ gen \in BOOLEAN /\ ima \in BOOLEAN
  /\ input \in BOOLEAN /\ model \in {"null", "own", "input"}
  /\ samples \in U32 /\ length \in U32 /\ adr \in [Buf -> U32]
  /\ result \in {"none", "ok", "invalid", "register", "transfer", "sync"}
  /\ used = NotStarted \/ used \in Registers
  /\ moved \subseteq {"data", "model"}

Init ==
  /\ fresh = TRUE /\ input = FALSE /\ model = "null" /\ samples = 0 /\ length = 0
  /\ adr = [b \in Buf |-> 0]
  /\ mode = "raw" /\ gen = FALSE /\ ima = FALSE
  /\ result = "none" /\ used = NotStarted /\ moved = {}

-----------------------------------------------------------------------------
(* The checks, in uint32_t arithmetic *)

Wrap(x) == IF x < W THEN x ELSE x - W

\* samples * IMA_SAM2BYT
Bytes(s) == Wrap(2 * s)

\* Mutants of RoundUp4: to eight bytes; not at all.
RoundUp8(x) == Wrap(x + 7) - (Wrap(x + 7) % 8)
RoundUpNot(x) == x

\* (x + 3) & ~3U
RoundUp4(x) == Wrap(x + 3) - (Wrap(x + 3) % 4)

outside_sram_range(a, s) ==
  Wrap(a + s) > SRAM_SIZE \/ a >= SRAM_SIZE \/ s > SRAM_SIZE

\* Mutant of buffers_overlap: only the start of the first buffer is looked at.
buffers_overlap_start(start_a, end_a, start_b, end_b) ==
  start_b <= start_a /\ start_a < end_b

buffers_overlap(start_a, end_a, start_b, end_b) ==
  start_a < end_b /\ end_a > start_b

Length(b, s, l) == IF b = "buffer" THEN Bytes(l) ELSE Bytes(s)

Overlap(b, c, s, l, a) ==
  buffers_overlap(a[b], Wrap(a[b] + Length(b, s, l)), a[c], Wrap(a[c] + Length(c, s, l)))

\* Alignment and range of buffer b, and its overlap with those checked before.
BufferOK(b, others, s, l, a) ==
  /\ a[b] % 4 = 0
  /\ ~ outside_sram_range(a[b], Length(b, s, l))
  /\ \A c \in others : ~ Overlap(b, c, s, l, a)

\* rdcu_cfg_buffers_is_invalid
BuffersValid(m, i, o, s, l, a) ==
  /\ m = "raw" => l >= s
  /\ BufferOK("buffer", {}, s, l, a) /\ BufferOK("data", {"buffer"}, s, l, a)
  /\ m = "model" =>
       /\ o = "input" => ~ i
       /\ BufferOK("model", {"data", "buffer"}, s, l, a)
       /\ a["model"] # a["new_model"] =>
            BufferOK("new_model", {"data", "buffer", "model"}, s, l, a)

\* rdcu_cmp_cfg_is_invalid
CfgValid ==
  /\ length # 0
  /\ gen /\ ima
  /\ BuffersValid(mode, input, model, samples, length, adr)

-----------------------------------------------------------------------------
(* The calls that fill the configuration *)

Verdict(valid) == result' = IF valid THEN "ok" ELSE "invalid"

\* rdcu_cfg_create clears everything else; ok is the outcome of its checks.
Create(m, ok) ==
  /\ fresh' = TRUE /\ input' = FALSE /\ model' = "null" /\ samples' = 0 /\ length' = 0
  /\ adr' = [b \in Buf |-> 0]
  /\ mode' = m /\ gen' = ok /\ ima' = FALSE
  /\ Verdict(ok)
  /\ used' = NotStarted /\ moved' = {}

\* rdcu_cfg_imagette, rdcu_cfg_imagette_default
Imagette(ok) ==
  /\ ima' = ok
  /\ Verdict(ok)
  /\ used' = NotStarted /\ moved' = {}
  /\ UNCHANGED <<bufs, mode, gen>>

\* rdcu_cfg_buffers. It sets every field a former call of it has set, so that
\* fresh can bound the calls to one for each rdcu_cfg_create.
Buffers(i, o, s, l, a) ==
  /\ fresh
  /\ fresh' = FALSE
  /\ input' = i /\ model' = o /\ samples' = s /\ length' = l /\ adr' = a
  /\ Verdict(BuffersValid(mode, i, o, s, l, a))
  /\ used' = NotStarted /\ moved' = {}
  /\ UNCHANGED pars

-----------------------------------------------------------------------------
(* rdcu_compress_data *)

\* The setters of the registers, those of the model included in every mode.
SettersAccept ==
  /\ \A b \in Buf : adr[b] <= RegMax /\ adr[b] % 4 = 0
  /\ samples <= RegMax /\ length <= RegMax

\* rdcu_write_sram_16 and rdcu_sync_mirror_to_sram accept a buffer.
TransferAccepts(b) ==
  /\ ~ outside_sram_range(adr[b], Bytes(samples)) /\ Bytes(samples) % 2 = 0
  /\ ~ outside_sram_range(adr[b], RoundUp4(Bytes(samples)))
  /\ adr[b] % 4 = 0 /\ RoundUp4(Bytes(samples)) % 4 = 0

ToTransfer == (IF input THEN {"data"} ELSE {}) \cup
              (IF model # "null" /\ mode = "model" THEN {"model"} ELSE {})

Start ==
  /\ CfgValid /\ SettersAccept
  /\ \A b \in ToTransfer : TransferAccepts(b)
  /\ moved' = ToTransfer
  /\ used' = [mode |-> mode, samples |-> samples, length |-> length, adr |-> adr]
  /\ result' = "ok"

Fails(why) == result' = why /\ used' = NotStarted /\ moved' = {}

Compress ==
  /\ \/ Start
     \/ ~ CfgValid /\ Fails("invalid")
     \/ CfgValid /\ ~ SettersAccept /\ Fails("register")
     \/ /\ CfgValid /\ SettersAccept
        /\ \E b \in ToTransfer : ~ TransferAccepts(b)
        /\ Fails("transfer")
     \/ CfgValid /\ Fails("sync")  \* a synchronisation of the mirror fails
  /\ UNCHANGED <<bufs, pars>>

-----------------------------------------------------------------------------
Next ==
  \/ \E m \in Mode, ok \in BOOLEAN : Create(m, ok)
  \/ \E ok \in BOOLEAN : Imagette(ok)
  \/ \E i \in BOOLEAN, o \in {"null", "own", "input"}, s \in Sam, l \in Sam,
        a \in Layouts : Buffers(i, o, s, l, a)
  \/ Compress

Spec == Init /\ [][Next]_vars

-----------------------------------------------------------------------------
(* Correctness, in the arithmetic of the integers *)

\* The buffers the compressor works on, their lengths in bytes, and what
\* belongs together: the updated model may replace the model.
Works(m) == IF m = "model" THEN Buf ELSE {"data", "buffer"}
Size(b, s, l) == IF b = "buffer" THEN 2 * l ELSE 2 * s
Shared(b, c, a) == b = c \/ ({b, c} = {"model", "new_model"} /\ a[b] = a[c])
Apart(a, n, b, k) == a + n <= b \/ b + k <= a

Inside(m, a, s, l) == \A b \in Works(m) : a[b] + Size(b, s, l) <= SRAM_SIZE
Disjoint(m, a, s, l) ==
  \A b, c \in Works(m) :
    Shared(b, c, a) \/ Apart(a[b], Size(b, s, l), a[c], Size(c, s, l))

\* The compressor is never started on buffers that reach beyond the SRAM or
\* into each other, although each sum of the checks may wrap around: the width
\* of the registers makes up for it.
StartedApart ==
  used # NotStarted =>
    /\ Inside(used.mode, used.adr, used.samples, used.length)
    /\ Disjoint(used.mode, used.adr, used.samples, used.length)

\* Data and model are transferred in whole words of four bytes, up to two bytes
\* more than there are: these, too, lie inside the SRAM and in no other buffer.
TransfersApart ==
  used # NotStarted =>
    \A b \in moved :
      LET n == RoundUp4(2 * used.samples) IN
      /\ used.adr[b] + n <= SRAM_SIZE /\ n >= 2 * used.samples
      /\ \A c \in Works(used.mode) :
           \/ Shared(b, c, used.adr)
           \/ Apart(used.adr[b], n, used.adr[c], Size(c, used.samples, used.length))

\* The checks of the configuration and the registers are as strict as those of
\* the transfer: no compression fails half way because its data do not fit.
TransferNeverRefused == result # "transfer"
=============================================================================
