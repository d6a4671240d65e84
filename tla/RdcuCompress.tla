---------------------------- MODULE RdcuCompress ----------------------------
(***************************************************************************)
(* The control of a compression by the RDCU (lib/rdcu_compress/            *)
(* cmp_rdcu.c): setting the registers with the interrupt that works around *)
(* the bug of the compressor, moving data and models, starting it, alone   *)
(* or in parallel with the reading of the last result, reading the result, *)
(* interrupting it, and injecting an error into the SRAM.                  *)
(*                                                                         *)
(* A call is a program of steps, each a sync or the code between two of    *)
(* them.  Commands reach the RDCU in order, answers come back in order,    *)
(* and the ICU stores those that have come when it submits the next        *)
(* command or polls.  rdcu_syncing, which is to wait for the answers, is   *)
(* empty in this repository and "must be adjusted" to the SpaceWire in     *)
(* use: both are modelled, the variable "adjusted" tells them apart.       *)
(*                                                                         *)
(* What an SRAM buffer holds is told by its kind and by the number of the  *)
(* call or the run of the compressor it comes from.  RdcuCfg has the       *)
(* addresses and sizes, SramSync the packets, RdcuRegs the registers.      *)
(***************************************************************************)
EXTENDS Integers, Sequences, FiniteSets

CONSTANTS Area,        \* buffers in the SRAM; different ones do not overlap
          Cfgs,        \* configurations the callers use
          Chips,       \* number of SRAM chips with error correction (EDAC), 4 in the code
          Hidden,      \* those whose bypass status reads 0: chips 2 and 4
          MaxAsks,     \* bound: calls with a configuration
          MaxRuns,     \* bound: runs of the compressor
          MaxFailures  \* bound: syncs that fail, where rdcu_syncing waits

Reg == {"mode", "data", "model", "samples", "new", "buf"}
Cfg == [mode : {"raw", "diff", "model"}, samples : {2, 4},
        data : Area, model : Area, new : Area, buf : Area,
        input : BOOLEAN, model_buf : BOOLEAN,     \* input_buf, model_buf are not NULL
        output : BOOLEAN, new_buf : BOOLEAN,      \* nor icu_output_buf, icu_new_model_buf
        refused : {"no", "check", "setter"}]      \* by is_invalid; by a setter of the model

ASSUME AreaAssumption == Area # {}
\* A configuration that is not invalid has no buffers that overlap, but for the model
\* and the updated one (Buffers of RdcuCfg).
ASSUME CfgAssumption ==
  /\ Cfgs \subseteq Cfg
  /\ \A c \in Cfgs : c.refused # "check" =>
       /\ c.data # c.buf
       /\ c.mode = "model" => {c.model, c.new} \cap {c.data, c.buf} = {}
ASSUME ChipAssumption == Chips \in Nat /\ Chips >= 2 /\ Hidden \subseteq 1 .. Chips
ASSUME BoundAssumption == {MaxAsks, MaxRuns, MaxFailures} \subseteq Nat

VARIABLES adjusted,  \* rdcu_syncing waits until every answer is in the mirror
          todo,      \* the steps the running call has left
          ask,       \* history: the last call with a configuration, and its result
          info,      \* the struct cmp_info the caller has read last
          mirror,    \* the mirror of the registers
          ram,       \* the mirror of the SRAM
          wire,      \* commands on their way to the RDCU
          back,      \* answers on their way to the ICU
          failures,  \* syncs that failed
          dev,       \* the RDCU
          runs       \* history: what the compressor was started with

link == <<wire, back, failures>>
host == <<todo, ask, info>>
vars == <<adjusted, host, mirror, ram, link, dev, runs>>

Content(what, of) == [what |-> what, of |-> of, flipped |-> FALSE]
Nothing == Content("nothing", 0)
Part == Content("part", 0)
Flip(content) == [content EXCEPT !.flipped = ~@]

RegsOf(c) == [r \in Reg |-> c[r]]
\* The registers after a reset are 0; as a mode that is CMP_MODE_RAW.
Reset == LET a == CHOOSE b \in Area : TRUE
         IN [mode |-> "raw", data |-> a, model |-> a, samples |-> 2, new |-> a, buf |-> a]

\* struct cmp_info: the numbers of the runs the mode, the sizes and the rest are
\* from.  0 is a compressor that has not run.
Info(used, size, rest) == [used |-> used, size |-> size, rest |-> rest]
NoInfo == Info(-1, -1, -1)

Init ==
  /\ adjusted \in BOOLEAN
  /\ todo = <<>> /\ info = NoInfo
  /\ ask = [nr |-> 0, call |-> "none", is |-> "none", cfg |-> [mode |-> "none"], last |-> -1,
            spoilt |-> {}, before |-> Nothing]
  /\ mirror = [reg |-> Reset, ctrl |-> {}, used |-> 0, size |-> 0, rest |-> 0,
               ready |-> FALSE, chip |-> 0, bypass |-> FALSE]
  /\ ram = [a \in Area |-> Nothing]
  /\ wire = <<>> /\ back = <<>> /\ runs = <<>>
  /\ failures = IF adjusted THEN 0 ELSE MaxFailures
  /\ dev = [reg |-> Reset, state |-> "idle", raw |-> FALSE, size |-> 0,
            sram |-> [a \in Area |-> Nothing], loaded |-> {}, bypass |-> {},
            chip |-> 0, injected |-> FALSE]

Used(n) == IF n = 0 THEN Reset ELSE runs[n].reg
Cut(n) == n # 0 /\ runs[n].cut
Latest == Len(runs)
model_mode_is_used(mode) == mode = "model"

-----------------------------------------------------------------------------
(* The programs of the calls.  A step that fails ends its scope: the call, or  *)
(* a function whose result the caller ignores.                                 *)

Plain(scope, op) ==
  [in |-> scope, op |-> op, at |-> "none", what |-> "none", from |-> "none", chip |-> 0]
Step(scope, op) == <<Plain(scope, op)>>
At(op, a) == <<[Plain("call", op) EXCEPT !.at = a]>>
Put(what, a) == <<[Plain("call", "store") EXCEPT !.at = a, !.what = what]>>
Swap(from, what, a) == <<[Plain("call", "swap") EXCEPT !.at = a, !.what = what, !.from = from]>>
Chip(op, n) == <<[Plain("call", op) EXCEPT !.chip = n]>>
If(cond, steps) == IF cond THEN steps ELSE <<>>

rdcu_syncing(scope) == If(adjusted, Step(scope, "wait"))

rdcu_interrupt_compression(scope) ==
  Step(scope, "stop") \o rdcu_syncing(scope)

rdcu_start_compression ==
  Step("call", "start") \o rdcu_syncing("call")

rdcu_set_compression_register(scope) ==
  Step(scope, "used") \o rdcu_syncing(scope) \o Step(scope, "workaround")
  \o Step(scope, "parameters") \o rdcu_syncing(scope)

rdcu_transfer_sram(c) ==
  If(c.input, Put("data", c.data))
  \o If(c.model_buf /\ model_mode_is_used(c.mode), Put("model", c.model))
  \o rdcu_syncing("call")

rdcu_compress_data(c) ==
  rdcu_set_compression_register("call") \o rdcu_transfer_sram(c) \o rdcu_start_compression

Fetch(a) == At("load", a) \o rdcu_syncing("call")

\* The updated model of the last compression, which i informs of, and the next one:
\* exchanged, unless the next is the updated one in its place; written; or read.
Models(c, i) ==
  LET new == Used(i.rest).new
      write == c.model_buf /\ model_mode_is_used(c.mode)
      read == model_mode_is_used(Used(i.used).mode)
      same == c.model = new /\ c.samples = Used(i.rest).samples
  IN CASE write /\ read -> If(~same, Swap(new, "model", c.model) \o rdcu_syncing("call"))
       [] write /\ ~read -> Put("model", c.model)
       [] ~write /\ read -> If(c.new_buf, Fetch(new))
       [] OTHER -> <<>>

\* Mutant of Exchange: the last bitstream is not read.
Exchange_write(c, i) ==
  If(c.input, Put("data", c.data) \o rdcu_syncing("call"))
  \o Models(c, i) \o rdcu_syncing("call")

\* The last bitstream is read while the next data are written, then the models.
Exchange(c, i) ==
  If(c.input, Swap(Used(i.rest).buf, "data", c.data) \o rdcu_syncing("call")
              \o If(c.output, Step("call", "output")))
  \o Models(c, i) \o rdcu_syncing("call")

rdcu_compress_data_parallel(c, i) ==
  IF i = NoInfo THEN rdcu_compress_data(c)
  ELSE If(Cut(i.rest), Step("call", "fail"))
       \o rdcu_set_compression_register("register") \o Exchange(c, i) \o rdcu_start_compression

\* Each chip in turn, from n on: write its control register, then read it back.  The
\* verification goes on with the next chip.
Edac(op, verify, n) ==
  IF n \in 1 .. Chips THEN Chip(op, n) \o rdcu_syncing("call") \o Chip(verify, n) ELSE <<>>

\* Mutant of rdcu_inject_edac_error: the word is not read back before.
rdcu_inject_unread(c, a) ==
  rdcu_set_compression_register("call") \o rdcu_transfer_sram(c)
  \o Edac("bypass", "is_bypassed", 1)
  \o At("flip", a) \o rdcu_syncing("call")
  \o Edac("normal", "is_normal", 1)

rdcu_inject_edac_error(c, a) ==
  rdcu_set_compression_register("call") \o rdcu_transfer_sram(c)
  \o Edac("bypass", "is_bypassed", 1)
  \o Fetch(a) \o At("flip", a) \o rdcu_syncing("call")
  \o Edac("normal", "is_normal", 1)

rdcu_read_cmp_info == Step("call", "info") \o rdcu_syncing("call") \o Step("call", "give_info")
rdcu_read_cmp_status ==
  Step("call", "status") \o rdcu_syncing("call") \o Step("call", "give_status")
\* rdcu_read_cmp_bitstream and rdcu_read_model
Read(a) == Fetch(a) \o At("give", a)

-----------------------------------------------------------------------------
(* Syncs *)

\* The result of a call that only reads does not matter.
Becomes(is) == IF ask.is = "running" THEN is ELSE ask.is
Advance(rest) ==
  /\ todo' = rest
  /\ ask' = IF rest = <<>> THEN [ask EXCEPT !.is = Becomes("ok")] ELSE ask

\* What a call that goes on after a failure has lost.
Spoils(step) ==
  (IF step.op \in {"start", "stop"} THEN {"left"} ELSE {})
  \cup (IF step.in = "register" THEN {"skipped"} ELSE {})

Newest(S) == CHOOSE k \in S : \A n \in S : n <= k

\* Up to the last step of its scope nothing more is done.
Abandon ==
  LET step == Head(todo)
      last == Newest({k \in DOMAIN todo : todo[k].in = step.in})
      rest == IF step.in = "call" THEN <<>> ELSE SubSeq(todo, last + 1, Len(todo))
  IN /\ todo' = rest
     /\ ask' = [ask EXCEPT !.spoilt = @ \cup Spoils(step),
                           !.is = IF step.in = "call" THEN Becomes("error") ELSE @]

\* The answers that have come, stored in a mirror: the newest of each kind
Loads(a) == {k \in DOMAIN back : back[k].op = "load" /\ back[k].at = a}
InRam(r) == [a \in Area |-> IF Loads(a) = {} THEN r[a] ELSE back[Newest(Loads(a))].content]
Reads(f) == {k \in DOMAIN back : back[k].op = "read" /\ f \in DOMAIN back[k].values}
Arrived(f, v) == IF Reads(f) = {} THEN v ELSE back[Newest(Reads(f))].values[f]
InRegs(m) ==
  [m EXCEPT !.used = Arrived("used", @), !.size = Arrived("size", @), !.rest = Arrived("rest", @),
            !.ready = Arrived("ready", @), !.chip = Arrived("chip", @), !.bypass = Arrived("bypass", @)]

\* A sync, after the code before it has made the mirrors m and r.  The answers are
\* processed first.  When it fails, some of the commands may have been sent.
Synced(m, r) ==
  /\ mirror' = InRegs(m) /\ ram' = InRam(r) /\ back' = <<>>
  /\ UNCHANGED <<adjusted, info, dev, runs>>
Sent(m, r, cmds) ==
  /\ Synced(m, r)
  /\ wire' = wire \o cmds /\ Advance(Tail(todo)) /\ UNCHANGED failures
NotSent(m, r, parts) ==
  /\ failures < MaxFailures /\ failures' = failures + 1
  /\ Synced(m, r)
  /\ \E p \in parts : wire' = wire \o p
  /\ Abandon
Sync(m, r, cmds, parts) == Sent(m, r, cmds) \/ NotSent(m, r, parts)

AtStep(op) == todo # <<>> /\ Head(todo).op = op
None == {<<>>}

\* Code between two syncs that changes the mirrors at most.
Local(m, r) == mirror' = m /\ ram' = r /\ UNCHANGED <<adjusted, link, dev, runs>>
Continues(m, r) == Local(m, r) /\ Advance(Tail(todo)) /\ UNCHANGED info
Breaks(m, r) == Local(m, r) /\ Abandon /\ UNCHANGED info

\* rdcu_syncing
Wait ==
  /\ AtStep("wait") /\ wire = <<>>
  /\ mirror' = InRegs(mirror) /\ ram' = InRam(ram) /\ back' = <<>>
  /\ Advance(Tail(todo))
  /\ UNCHANGED <<adjusted, info, wire, failures, dev, runs>>

\* last_info->cmp_err; and the value rdcu_read_sram returns for the output buffer,
\* the number of bytes, is taken for an error.
Fail == AtStep("fail") /\ Breaks(mirror, ram)
Output == AtStep("output") /\ Breaks(mirror, ram)

Read1(fields) == <<[op |-> "read", fields |-> fields]>>

\* rdcu_cmp_cfg_is_invalid, then the mode of the last compression is asked for.
CheckAndReadUsed ==
  /\ AtStep("used")
  /\ IF ask.cfg.refused = "check" THEN Breaks(mirror, ram)
     ELSE Sync(mirror, ram, Read1({"used"}), None)

\* Mutant of Interrupts: the mode that is about to be set decides.
InterruptsNext == ask.cfg.mode = "raw"

\* rdcu_get_compression_mode() == CMP_MODE_RAW
Interrupts == Used(mirror.used).mode = "raw"

\* The result of rdcu_interrupt_compression is not looked at.
Workaround ==
  /\ AtStep("workaround")
  /\ Local(mirror, ram)
  /\ todo' = If(Interrupts, rdcu_interrupt_compression("interrupt")) \o Tail(todo)
  /\ ask' = [ask EXCEPT !.spoilt =
               @ \cup (IF Used(mirror.used).mode = Used(Latest).mode THEN {} ELSE {"blind"})]
  /\ UNCHANGED info

\* The setters change the mirror up to the one that refuses its value.  Then the
\* parameters are synced, in this order.
Written == <<"mode", "data", "model", "samples", "new", "buf">>
SetAndSync ==
  /\ AtStep("parameters")
  /\ LET set == [mirror EXCEPT !.reg = RegsOf(ask.cfg)]
         Write(n) == <<[op |-> "write",
                        values |-> [r \in {Written[k] : k \in 1 .. n} |-> set.reg[r]]]>>
         parts == {<<>>} \cup {Write(n) : n \in 1 .. 5}
     IN IF ask.cfg.refused = "setter"
        THEN Breaks([mirror EXCEPT !.reg.mode = set.reg.mode, !.reg.data = set.reg.data], ram)
        ELSE Sync(set, ram, Write(6), parts)

\* Mutant of Ctrl: the bit is not cleared.
Ctrl_kept(bit) ==
  LET bits == mirror.ctrl \cup {bit}
      cmds == <<[op |-> "ctrl", bits |-> bits]>>
  IN Sync([mirror EXCEPT !.ctrl = bits], ram, cmds, None)

\* A bit of the control register is set, synced and cleared; when the sync fails
\* it stays.
Ctrl(bit) ==
  LET bits == mirror.ctrl \cup {bit}
      cmds == <<[op |-> "ctrl", bits |-> bits]>>
  IN \/ Sent([mirror EXCEPT !.ctrl = bits \ {bit}], ram, cmds)
     \/ NotSent([mirror EXCEPT !.ctrl = bits], ram, None)

Control == \E bit \in {"start", "stop"} : AtStep(bit) /\ Ctrl(bit)

StoreCmd(a, content) == <<[op |-> "store", at |-> a, content |-> content]>>
LoadCmd(a) == <<[op |-> "load", at |-> a]>>

\* rdcu_write_sram_16 to the mirror, then rdcu_sync_mirror_to_sram
Store ==
  /\ AtStep("store")
  /\ LET step == Head(todo)
         put == [ram EXCEPT ![step.at] = Content(step.what, ask.nr)]
         cmds == StoreCmd(step.at, InRam(put)[step.at])
         parts == {<<>>, StoreCmd(step.at, Part)}
     IN Sync(mirror, put, cmds, parts)

\* The same with rdcu_sync_sram_mirror_parallel, which refuses overlapping ranges.
Exchanged ==
  /\ AtStep("swap")
  /\ LET step == Head(todo)
         put == [ram EXCEPT ![step.at] = Content(step.what, ask.nr)]
         cmds == LoadCmd(step.from) \o StoreCmd(step.at, InRam(put)[step.at])
         parts == {<<>>, LoadCmd(step.from), LoadCmd(step.from) \o StoreCmd(step.at, Part)}
     IN IF step.at = step.from THEN Breaks(mirror, put) ELSE Sync(mirror, put, cmds, parts)

LoadBack ==
  /\ AtStep("load")
  /\ Sync(mirror, ram, LoadCmd(Head(todo).at), None)

\* Mutant of Size: no correction.
SizeRead(m) == m.size

\* The sizes in raw mode, which the compressor does not update for few samples
Size(m) == IF Used(m.used).mode = "raw" /\ Used(m.rest).samples < 3 THEN m.rest ELSE m.size

\* The registers of the information, and how far their syncs come.
ReadInfo ==
  /\ AtStep("info")
  /\ Sync(mirror, ram, Read1({"used", "size", "rest"}),
          {<<>>, Read1({"used"}), Read1({"used", "size"})})

ReadStatus ==
  /\ AtStep("status")
  /\ Sync(mirror, ram, Read1({"ready"}), None)

\* What is in the mirror goes to the caller.
Give ==
  \/ /\ AtStep("give_info")
     /\ info' = Info(mirror.used, Size(mirror), mirror.rest)
     /\ Local(mirror, ram) /\ Advance(Tail(todo))
  \/ \E op \in {"give", "give_status"} : AtStep(op) /\ Continues(mirror, ram)

\* The control register of a chip is written and read back, with the status.
EdacSync ==
  \E do \in {"bypass", "normal"} :
    /\ AtStep(do)
    /\ LET chip == Head(todo).chip
           cmds == <<[op |-> "edac", do |-> do, chip |-> chip],
                     [op |-> "edac", do |-> "show", chip |-> chip]>>
       IN Sync(mirror, ram, cmds \o Read1({"chip", "bypass"}),
               {SubSeq(cmds, 1, n) : n \in 0 .. 2})

EdacVerify ==
  \E do \in {"bypass", "normal"} :
    LET verify == IF do = "bypass" THEN "is_bypassed" ELSE "is_normal"
        chip == Head(todo).chip
        expected == /\ mirror.chip = chip
                    /\ IF do = "normal" THEN ~mirror.bypass ELSE chip \in Hidden \/ mirror.bypass
    IN /\ AtStep(verify)
       /\ IF expected
          THEN /\ Local(mirror, ram) /\ UNCHANGED info
               /\ Advance(Edac(do, verify, chip + 1) \o Tail(todo))
          ELSE Breaks(mirror, ram)

\* Bits of the word are flipped in the mirror and the word is written back.
Inject ==
  /\ AtStep("flip")
  /\ LET a == Head(todo).at
         flipped == [ram EXCEPT ![a] = Flip(@)]
     IN Sync(mirror, flipped, StoreCmd(a, InRam(flipped)[a]), None)

-----------------------------------------------------------------------------
(* The callers *)

\* One call at a time, and, as a bound, none before the commands of the last one
\* have reached the RDCU.  But for the status and an interrupt the callers wait for
\* the signal of the RDCU that a compression has ended.
Running == dev.state \in {"active", "stuck"}

Begin(steps) ==
  /\ todo = <<>> /\ wire = <<>>
  /\ todo' = steps
  /\ UNCHANGED <<adjusted, info, mirror, ram, link, dev, runs>>

Ask(call, c, i, before, steps) ==
  /\ ~Running /\ ask.nr < MaxAsks /\ Latest < MaxRuns
  /\ Begin(steps)
  /\ ask' = [nr |-> ask.nr + 1, call |-> call, is |-> "running", cfg |-> c, last |-> i.rest,
             before |-> before, spoilt |-> IF mirror.ctrl = {} THEN {} ELSE {"left"}]

\* A caller that is told the truth passes the information of the last compression.
Known == info # NoInfo /\ (adjusted => info.rest = Latest)

Calls ==
  \/ \E c \in Cfgs :
       \/ Ask("compress", c, NoInfo, Nothing, rdcu_compress_data(c))
       \/ Ask("parallel", c, NoInfo, Nothing, rdcu_compress_data_parallel(c, NoInfo))
       \/ Known /\ Ask("parallel", c, info, Nothing, rdcu_compress_data_parallel(c, info))
       \/ Ask("inject", c, NoInfo, dev.sram[c.buf], rdcu_inject_edac_error(c, c.buf))
  \/ ~Running /\ Begin(rdcu_read_cmp_info) /\ UNCHANGED ask
  \/ adjusted /\ Begin(rdcu_read_cmp_status) /\ UNCHANGED ask
  \/ /\ ~Running /\ Known /\ UNCHANGED ask
     /\ \/ Begin(Read(Used(info.rest).buf))
        \/ model_mode_is_used(Used(info.used).mode) /\ Begin(Read(Used(info.rest).new))
  \/ Running /\ Latest < MaxRuns /\ Begin(rdcu_interrupt_compression("call")) /\ UNCHANGED ask

\* rdcu_rmap_sync_status between two calls
Poll ==
  /\ todo = <<>> /\ back # <<>>
  /\ mirror' = InRegs(mirror) /\ ram' = InRam(ram) /\ back' = <<>>
  /\ UNCHANGED <<adjusted, host, wire, failures, dev, runs>>

-----------------------------------------------------------------------------
(* The RDCU *)

\* The run n, started with the registers r, ends.  The sizes in raw mode are not updated for few samples.
Ended(d, r, n, whole) ==
  LET made(what) == IF whole THEN Content(what, n) ELSE Part IN
  [d EXCEPT
        !.state = "ready",
        !.size = IF r.mode = "raw" /\ r.samples < 3 THEN @ ELSE n,
        !.sram = [a \in Area |-> IF a = r.buf THEN made("stream")
                                 ELSE IF a = r.new /\ r.mode = "model" THEN made("new")
                                 ELSE @[a]],
        !.raw = r.mode = "raw"]

\* An interrupt ends what is running, and the aftermath of a raw mode.
Stopped(d) == [(IF d.state \in {"active", "stuck"} THEN Ended(d, Used(Latest), Latest, FALSE) ELSE d)
                 EXCEPT !.raw = FALSE]

\* In another mode after a raw one the compressor gets stuck.
Started(d) ==
  IF d.state \in {"active", "stuck"} THEN d
  ELSE [d EXCEPT !.state = IF d.raw /\ d.reg.mode # "raw" THEN "stuck" ELSE "active",
                 !.loaded = {}]

Begun(before, d, cut) ==
  Append(before, [ask |-> ask.nr, left |-> "left" \in ask.spoilt, reg |-> d.reg,
                  data |-> d.sram[d.reg.data], model |-> d.sram[d.reg.model],
                  saved |-> d.loaded, cut |-> cut])
CutShort == IF Running THEN [runs EXCEPT ![Latest].cut = TRUE] ELSE runs

Command(op) ==
  /\ wire # <<>> /\ Head(wire).op = op /\ wire' = Tail(wire)
  /\ UNCHANGED <<adjusted, host, mirror, ram, failures>>
Silently == UNCHANGED <<back, runs>>

TakeWrite ==
  /\ Command("write") /\ Silently
  /\ dev' = [dev EXCEPT !.reg = [r \in Reg |-> IF r \in DOMAIN Head(wire).values
                                       THEN Head(wire).values[r] ELSE @[r]]]

\* Both bits at once, when one was left: the order is not known.
TakeCtrl ==
  /\ Command("ctrl") /\ UNCHANGED back
  /\ LET bits == Head(wire).bits IN
     \/ bits = {"stop"} /\ dev' = Stopped(dev) /\ runs' = CutShort
     \/ /\ bits = {"start"} /\ dev' = Started(dev)
        /\ runs' = IF Running THEN runs ELSE Begun(runs, dev, FALSE)
     \/ /\ bits = {"start", "stop"}
        /\ dev' = Started(Stopped(dev)) /\ runs' = Begun(CutShort, Stopped(dev), FALSE)
     \/ /\ bits = {"start", "stop"}
        /\ IF Running THEN dev' = Stopped(dev) /\ runs' = CutShort
           ELSE /\ runs' = Begun(runs, dev, TRUE)
                /\ dev' = [Ended(Started(dev), dev.reg, Latest + 1, FALSE) EXCEPT !.raw = FALSE]

TakeStore ==
  /\ Command("store") /\ Silently
  /\ dev' = [dev EXCEPT !.sram[Head(wire).at] = Head(wire).content,
                        !.injected = dev.bypass = 1 .. Chips]

TakeLoad ==
  /\ Command("load") /\ UNCHANGED runs
  /\ LET a == Head(wire).at IN
     /\ back' = Append(back, [op |-> "load", at |-> a, content |-> dev.sram[a]])
     /\ dev' = [dev EXCEPT !.loaded = @ \cup {dev.sram[a]}]

Field(f) ==
  CASE f = "size" -> dev.size
    [] f \in {"used", "rest"} -> IF Running THEN Latest - 1 ELSE Latest
    [] f = "ready" -> dev.state = "ready"
    [] f = "chip" -> dev.chip
    [] f = "bypass" -> dev.chip \in dev.bypass \ Hidden

TakeRead ==
  /\ Command("read") /\ UNCHANGED <<runs, dev>>
  /\ back' = Append(back, [op |-> "read", values |-> [f \in Head(wire).fields |-> Field(f)]])

TakeEdac ==
  /\ Command("edac") /\ Silently
  /\ LET c == Head(wire).chip IN
     dev' = CASE Head(wire).do = "bypass" -> [dev EXCEPT !.bypass = @ \cup {c}]
              [] Head(wire).do = "normal" -> [dev EXCEPT !.bypass = @ \ {c}]
              [] Head(wire).do = "show" -> [dev EXCEPT !.chip = c]

Finish ==
  /\ dev.state = "active" /\ dev' = Ended(dev, Used(Latest), Latest, TRUE)
  /\ UNCHANGED <<adjusted, host, mirror, ram, link, runs>>

-----------------------------------------------------------------------------
Steps ==
  \/ Wait \/ Fail \/ Output \/ CheckAndReadUsed \/ Workaround \/ SetAndSync
  \/ Control \/ Store \/ Exchanged \/ LoadBack \/ ReadInfo \/ ReadStatus \/ Give
  \/ EdacSync \/ EdacVerify \/ Inject

Device == TakeWrite \/ TakeCtrl \/ TakeStore \/ TakeLoad \/ TakeRead \/ TakeEdac \/ Finish

Next == Steps \/ Calls \/ Poll \/ Device

Spec == Init /\ [][Next]_vars

-----------------------------------------------------------------------------
(* Correctness *)

\* The model is the one the last run has updated, already in its place.
Reuses ==
  /\ ask.last > 0 /\ model_mode_is_used(Used(ask.last).mode)
  /\ ask.cfg.model = Used(ask.last).new /\ ask.cfg.samples = Used(ask.last).samples

\* The run n ran with the registers of one call, that before the running one.
Follows(n) ==
  /\ n > 0 /\ runs[n].ask = ask.nr - 1 /\ ~runs[n].left
  /\ \E c \in Cfgs : c.refused = "no" /\ runs[n].reg = RegsOf(c)

\* The starts of this call, taken or on their way
Starts == Cardinality({n \in DOMAIN runs : runs[n].ask = ask.nr})
          + Cardinality({k \in DOMAIN wire : wire[k].op = "ctrl" /\ "start" \in wire[k].bits})
Is(call, is) == ask.call = call /\ ask.is = is
Ours == Latest > 0 /\ runs[Latest].ask = ask.nr
Whole == ask.spoilt \subseteq {"blind"}

\* A call that succeeds starts the compressor once, one that fails not at all, and
\* the compressor has the registers of that call and no other; where rdcu_syncing
\* waits, data and model are those of the call, too, or the model is the one the
\* last compression has updated in its place, if that was the call before; it is not
\* looked at when another call wrote there.  Excepted are parallel calls whose
\* registers could not be set, which nobody looks at, and calls with a bit left in
\* the control register by a sync that failed.
StartedAsAsked ==
  ask.nr > 0 /\ Whole =>
    /\ Starts <= 1
    /\ Is("compress", "ok") \/ Is("parallel", "ok") => Starts = 1
    /\ Is("compress", "error") \/ Is("parallel", "error") => Starts = 0
    /\ Ours => runs[Latest].reg = RegsOf(ask.cfg)
    /\ Ours /\ adjusted =>
         /\ ask.cfg.input => runs[Latest].data = Content("data", ask.nr)
         /\ ask.cfg.model_buf /\ model_mode_is_used(ask.cfg.mode) =>
              \/ runs[Latest].model = Content("model", ask.nr)
              \/ Reuses /\ (Follows(ask.last) => runs[Latest].model = Content("new", ask.last))

\* The compressor gets stuck in a mode behind a raw one only when the interrupt that
\* works around its bug could not be sent, or when rdcu_syncing does not wait and
\* the mode was looked at before it had arrived, or in a parallel call whose registers
\* were skipped, if a bit that was left had started the compressor before.
NeverStuck ==
  dev.state = "stuck" =>
    \/ "left" \in ask.spoilt
    \/ ~adjusted /\ ask.spoilt # {}
    \/ "skipped" \in ask.spoilt /\ Latest > 1 /\ runs[Latest - 1].left

\* When a compression is started in parallel with the reading of the last one, the
\* bitstream and the updated model of the last one have been read out of the SRAM
\* by then, whatever the new one overwrites; unless another call came in between, or
\* the last one ran with registers of two calls.  The data, which are written before
\* the updated model is read, must not go where that is: nobody checks it.
SavedFirst ==
  LET n == ask.last
      exchanged == /\ ask.cfg.model_buf /\ ~Reuses
                   /\ ask.cfg.input => ask.cfg.data # runs[n].reg.new
                   /\ model_mode_is_used(ask.cfg.mode) /\ model_mode_is_used(runs[n].reg.mode)
  IN Ours /\ n = Latest - 1 /\ Follows(n) /\ "left" \notin ask.spoilt =>
       /\ ask.cfg.input => Content("stream", n) \in runs[Latest].saved
       /\ exchanged => Content("new", n) \in runs[Latest].saved

\* Where rdcu_syncing waits, what the mirror gives to the caller is of the last
\* compression, the sizes that the compressor did not update included, a buffer is
\* what the SRAM holds, and a compressor said to be ready is.
ReadsRight ==
  adjusted =>
    /\ AtStep("give_info") =>
         Info(mirror.used, Size(mirror), mirror.rest) = Info(Latest, Latest, Latest)
    /\ AtStep("give_status") => (mirror.ready => dev.state = "ready")
    /\ AtStep("give") => ram[Head(todo).at] = dev.sram[Head(todo).at]

\* After an error was injected the word is what the SRAM held, with the bits flipped
\* and written while every chip was in bypass, and no chip is left in bypass.
InjectRight ==
  Is("inject", "ok") /\ "left" \notin ask.spoilt =>
    /\ dev.sram[ask.cfg.buf] = Flip(ask.before)
    /\ dev.injected /\ dev.bypass = {}
=============================================================================
