------------------------------ MODULE RdcuRegs ------------------------------
(***************************************************************************)
(* The registers of lib/rdcu_compress/rdcu_ctrl.c: every setter and getter *)
(* of the local mirror, the command each rdcu_sync_* function sends        *)
(* (rdcu_cmd.c), the packet that becomes of it (rdcu_rmap.c, rmap.c), and  *)
(* the way of the answer back into the mirror.                             *)
(*                                                                         *)
(* A register is the set of its bits that are 1; the members of the mirror *)
(* have their names in struct rdcu_mirror, the registers of the RDCU those *)
(* in rdcu_cmd.h.  Byte order is that of the target, big endian.           *)
(***************************************************************************)
EXTENDS Integers, Sequences, TLC, RmapPacket
LOCAL INSTANCE FiniteSets
LOCAL INSTANCE SequencesExt

CONSTANTS Focus,     \* sets of registers a behaviour may be about
          BoardKeys, \* arguments of rdcu_set_rdcu_board_reset_keyword
          Patterns,  \* contents the status registers of the RDCU may have
          Paths,     \* pairs of destination and return path
          Slots,     \* size of the transaction log
          MaxOps     \* bound on the calls of a behaviour

BitsOf(n) == {b \in 0 .. 24 : (n \div 2 ^ b) % 2 = 1}
Bytes(bits) ==
  [i \in 1 .. 4 |-> FoldLeft(LAMBDA n, b : n + (IF 32 - 8 * i + b \in bits THEN 2 ^ b ELSE 0),
                             0, <<0, 1, 2, 3, 4, 5, 6, 7>>)]
FromWord(bytes) == {b \in 0 .. 31 : (bytes[4 - b \div 8] \div 2 ^ (b % 8)) % 2 = 1}

-----------------------------------------------------------------------------
(* Registers of the RDCU and members of the mirror, in the order in which    *)
(* both headers list them.                                                   *)

\* Addresses: the highest byte, and the other three.
Icd ==
  <<[name |-> "FPGA_VERSION", addr |-> <<16, 0>>], [name |-> "RDCU_STATUS", addr |-> <<16, 4>>],
    [name |-> "LVDS_CORE_STATUS", addr |-> <<16, 8>>],
    [name |-> "SPW_LINK_STATUS", addr |-> <<16, 12>>],
    [name |-> "SPW_ERR_CNTRS", addr |-> <<16, 16>>],
    [name |-> "RMAP_LAST_ERR", addr |-> <<16, 20>>],
    [name |-> "RMAP_NO_REPLY_ERR_CNTRS", addr |-> <<16, 24>>],
    [name |-> "RMAP_PCKT_ERR_CNTRS", addr |-> <<16, 28>>],
    [name |-> "ADC_VALUES_1", addr |-> <<16, 32>>], [name |-> "ADC_VALUES_2", addr |-> <<16, 36>>],
    [name |-> "ADC_VALUES_3", addr |-> <<16, 40>>], [name |-> "ADC_VALUES_4", addr |-> <<16, 44>>],
    [name |-> "ADC_STATUS", addr |-> <<16, 48>>], [name |-> "COMPR_STATUS", addr |-> <<16, 56>>],
    [name |-> "RDCU_RESET", addr |-> <<16, 64>>], [name |-> "SPW_LINK_CTRL", addr |-> <<16, 68>>],
    [name |-> "LVDS_CTRL", addr |-> <<16, 72>>], [name |-> "CORE_CTRL", addr |-> <<16, 76>>],
    [name |-> "ADC_CTRL", addr |-> <<16, 80>>], [name |-> "COMPR_CTRL", addr |-> <<16, 88>>],
    [name |-> "COMPR_PARAM_1", addr |-> <<17, 0>>], [name |-> "COMPR_PARAM_2", addr |-> <<17, 4>>],
    [name |-> "ADAPTIVE_PARAM_1", addr |-> <<17, 8>>],
    [name |-> "ADAPTIVE_PARAM_2", addr |-> <<17, 12>>],
    [name |-> "DATA_START_ADDR", addr |-> <<17, 16>>],
    [name |-> "MODEL_START_ADDR", addr |-> <<17, 20>>], [name |-> "NUM_SAMPLES", addr |-> <<17, 24>>],
    [name |-> "UPDATED_MODEL_START_ADDR", addr |-> <<17, 28>>],
    [name |-> "COMPR_DATA_BUF_START_ADDR", addr |-> <<17, 32>>],
    [name |-> "COMPR_DATA_BUF_LEN", addr |-> <<17, 36>>],
    [name |-> "USED_COMPR_PARAM_1", addr |-> <<17, 48>>],
    [name |-> "USED_COMPR_PARAM_2", addr |-> <<17, 52>>],
    [name |-> "COMPR_DATA_START_ADDR", addr |-> <<17, 56>>],
    [name |-> "COMPR_DATA_SIZE", addr |-> <<17, 60>>],
    [name |-> "COMPR_DATA_ADAPTIVE_1_SIZE", addr |-> <<17, 64>>],
    [name |-> "COMPR_DATA_ADAPTIVE_2_SIZE", addr |-> <<17, 68>>],
    [name |-> "COMPR_ERROR", addr |-> <<17, 72>>],
    [name |-> "USED_UPDATED_MODEL_START_ADDR", addr |-> <<17, 76>>],
    [name |-> "USED_NUMBER_OF_SAMPLES", addr |-> <<17, 80>>],
    [name |-> "SRAM_EDAC_CTRL", addr |-> <<1, 0>>], [name |-> "SRAM_EDAC_STATUS", addr |-> <<1, 8>>]>>

\* struct rdcu_mirror
Members ==
  <<"fpga_version", "rdcu_status", "lvds_core_status", "spw_link_status", "spw_err_cntrs",
    "rmap_last_err", "rmap_no_reply_err_cntrs", "rmap_pckt_err_cntrs", "adc_values_1",
    "adc_values_2", "adc_values_3", "adc_values_4", "adc_status", "compr_status", "rdcu_reset",
    "spw_link_ctrl", "lvds_ctrl", "core_ctrl", "adc_ctrl", "compr_ctrl", "compressor_param1",
    "compressor_param2", "adaptive_param1", "adaptive_param2", "data_start_addr",
    "model_start_addr", "num_samples", "new_model_start_addr", "compr_data_buf_start_addr",
    "compr_data_buf_len", "used_param1", "used_param2", "compr_data_start_addr",
    "compr_data_size", "compr_data_adaptive_1_size", "compr_data_adaptive_2_size",
    "compr_error", "new_model_addr_used", "samples_used", "sram_edac_ctrl", "sram_edac_status">>

\* The register of the RDCU a member of the mirror is the copy of.
CopyOf(m) == Icd[CHOOSE i \in DOMAIN Members : Members[i] = m].name

AddressOf(name) == Icd[CHOOSE i \in DOMAIN Icd : Icd[i].name = name].addr

-----------------------------------------------------------------------------
(* The fields of the registers *)

\* What a setter does: a value v is refused unless it lies in min .. max and is a
\* multiple of align; the bits in clear become 0, then those of v, shifted, 1.
Field(reg, at, clear, min, max, align) ==
  [reg |-> reg, at |-> at, clear |-> clear, min |-> min, max |-> max, align |-> align]

\* The pairs of a function that sets one bit and one that clears it.
Flag(reg, at) == Field(reg, at, {at}, 0, 1, 1)

ResetSetters ==
  [rdcu_board_reset_keyword |-> Field("rdcu_reset", 24, 24 .. 27, 0, 255, 1),
   rdcu_bus_reset |-> Flag("rdcu_reset", 12), rdcu_rmap_error_cntr_reset |-> Flag("rdcu_reset", 9),
   rdcu_spw_error_cntr_reset |-> Flag("rdcu_reset", 8), rdcu_board_reset |-> Flag("rdcu_reset", 1)]

\* A link above 7 is refused.
LinkSetters ==
  [spw_link_run_clkdiv |-> Field("spw_link_ctrl", 8, 8 .. 13, 0, 49, 1),
   lvds_link_0 |-> Flag("lvds_ctrl", 0), lvds_link_7 |-> Flag("lvds_ctrl", 7),
   rmap_target_logical_address |-> Field("core_ctrl", 24, 24 .. 31, 0, 255, 1),
   rmap_target_cmd_key |-> Field("core_ctrl", 16, 16 .. 23, 0, 255, 1),
   adc_logic_reset |-> Flag("adc_ctrl", 1), adc_logic_enabled |-> Flag("adc_ctrl", 0)]

ControlSetters ==
  [rdcu_interrupt |-> Flag("compr_ctrl", 8), data_compr_interrupt |-> Flag("compr_ctrl", 1),
   data_compr_start |-> Flag("compr_ctrl", 0)]

\* Mutant of ParamSetters: the bits of the old weighting parameter stay.
ParamSettersNoClear ==
  [noise_bits_rounded |-> Field("compressor_param1", 16, 16 .. 17, 0, 3, 1),
   weighting_param |-> Field("compressor_param1", 8, 8 .. 11, 0, 16, 1),
   compression_mode |-> Field("compressor_param1", 0, 0 .. 7, 0, 4, 1),
   spillover_threshold |-> Field("compressor_param2", 8, 8 .. 17, 2, 1023, 1),
   golomb_param |-> Field("compressor_param2", 0, 0 .. 5, 1, 63, 1)]

ParamSetters ==
  [noise_bits_rounded |-> Field("compressor_param1", 16, 16 .. 17, 0, 3, 1),
   weighting_param |-> Field("compressor_param1", 8, 8 .. 12, 0, 16, 1),
   compression_mode |-> Field("compressor_param1", 0, 0 .. 7, 0, 4, 1),
   spillover_threshold |-> Field("compressor_param2", 8, 8 .. 17, 2, 1023, 1),
   golomb_param |-> Field("compressor_param2", 0, 0 .. 5, 1, 63, 1)]

AdaptiveSetters ==
  [adaptive_1_spillover_threshold |-> Field("adaptive_param1", 8, 8 .. 17, 2, 1023, 1),
   adaptive_1_golomb_param |-> Field("adaptive_param1", 0, 0 .. 5, 1, 63, 1),
   adaptive_2_spillover_threshold |-> Field("adaptive_param2", 8, 8 .. 17, 2, 1023, 1),
   adaptive_2_golomb_param |-> Field("adaptive_param2", 0, 0 .. 5, 1, 63, 1)]

MaxAddr == 2 ^ 24 - 1
AddressField(reg) == Field(reg, 0, 0 .. 23, 0, MaxAddr, 4)
CountField(reg) == Field(reg, 0, 0 .. 23, 0, MaxAddr, 1)

AddressSetters ==
  [data_start_addr |-> AddressField("data_start_addr"),
   model_start_addr |-> AddressField("model_start_addr"),
   num_samples |-> CountField("num_samples"),
   new_model_start_addr |-> AddressField("new_model_start_addr"),
   compr_data_buf_start_addr |-> AddressField("compr_data_buf_start_addr"),
   compr_data_buf_len |-> CountField("compr_data_buf_len")]

EdacSetters ==
  [sub_chip_die_addr |-> Field("sram_edac_ctrl", 12, 12 .. 15, 0, 15, 1),
   ctrl_reg_read_op |-> Flag("sram_edac_ctrl", 9), bypass |-> Flag("sram_edac_ctrl", 8),
   scrub_info |-> Field("sram_edac_ctrl", 0, 0 .. 7, 0, 255, 1)]

Setters == ResetSetters @@ LinkSetters @@ ControlSetters @@ ParamSetters @@ AdaptiveSetters
           @@ AddressSetters @@ EdacSetters

\* What a getter returns: so many bits of a member of the mirror.
Part(reg, at, width) == [reg |-> reg, at |-> at, width |-> width]

IdentGetters ==
  [fpga_version |-> Part("fpga_version", 0, 16),
   rdcu_status_board_serial_number |-> Part("rdcu_status", 12, 4),
   rdcu_status_fpga_core_power_good |-> Part("rdcu_status", 6, 1),
   rdcu_status_core_power_good |-> Part("rdcu_status", 5, 1),
   rdcu_status_io_power_good |-> Part("rdcu_status", 4, 1),
   rdcu_status_reset_by_register |-> Part("rdcu_status", 1, 1),
   rdcu_status_power_on_reset |-> Part("rdcu_status", 0, 1)]

LinkGetters ==
  [rmap_target_logical_address |-> Part("lvds_core_status", 24, 8),
   rmap_target_cmd_key |-> Part("lvds_core_status", 16, 8),
   lvds_link_0 |-> Part("lvds_core_status", 0, 1), lvds_link_7 |-> Part("lvds_core_status", 7, 1),
   spw_empty_pckt_cnt |-> Part("spw_link_status", 16, 8),
   spw_run_clk_div |-> Part("spw_link_status", 8, 6),
   spw_lnk_run_state |-> Part("spw_link_status", 8, 1),
   spw_lnk_credit_errs |-> Part("spw_link_status", 24, 8),
   spw_lnk_escape_errs |-> Part("spw_link_status", 16, 8),
   spw_lnk_parity_errs |-> Part("spw_link_status", 8, 8),
   spw_lnk_disconnect_errs |-> Part("spw_link_status", 0, 8)]

RmapGetters ==
  [rmap_last_error_user_code |-> Part("rmap_last_err", 8, 8),
   rmap_last_error_standard_code |-> Part("rmap_last_err", 0, 8),
   rmap_incomplete_hdrs |-> Part("rmap_no_reply_err_cntrs", 24, 8),
   rmap_recv_reply_pckts |-> Part("rmap_no_reply_err_cntrs", 8, 8),
   recv_non_rmap_pckts |-> Part("rmap_no_reply_err_cntrs", 0, 8),
   rmap_pckt_errs |-> Part("rmap_pckt_err_cntrs", 24, 8),
   rmap_oper_errs |-> Part("rmap_pckt_err_cntrs", 16, 8),
   rmap_cmd_auth_errs |-> Part("rmap_pckt_err_cntrs", 8, 8),
   rmap_hdr_errs |-> Part("rmap_pckt_err_cntrs", 0, 8)]

\* Any other id: 0xFFFF
AdcGetters ==
  [adc_value_1 |-> Part("adc_values_1", 0, 16), adc_value_2 |-> Part("adc_values_1", 16, 16),
   adc_value_3 |-> Part("adc_values_2", 0, 16), adc_value_4 |-> Part("adc_values_2", 16, 16),
   adc_value_5 |-> Part("adc_values_3", 0, 16), adc_value_6 |-> Part("adc_values_3", 16, 16),
   adc_value_7 |-> Part("adc_values_4", 0, 16), adc_value_8 |-> Part("adc_values_4", 16, 16),
   valid_adc_values |-> Part("adc_status", 4, 1), adc_logic_reset |-> Part("adc_status", 1, 1),
   adc_logic_enabled |-> Part("adc_status", 0, 1)]

StatusGetters ==
  [rdcu_interrupt_enabled |-> Part("compr_status", 8, 1),
   compr_status_valid |-> Part("compr_status", 5, 1), data_compr_ready |-> Part("compr_status", 4, 1),
   data_compr_interrupted |-> Part("compr_status", 1, 1),
   data_compr_active |-> Part("compr_status", 0, 1)]

\* Mutant of UsedGetters: the threshold is taken from the bits of the Golomb parameter.
UsedGettersLow ==
  [compression_mode |-> Part("used_param1", 0, 8), noise_bits_rounded |-> Part("used_param1", 16, 2),
   weighting_param |-> Part("used_param1", 8, 5), spillover_threshold |-> Part("used_param2", 6, 10),
   golomb_param |-> Part("used_param2", 0, 6),
   compr_data_start_addr |-> Part("compr_data_start_addr", 0, 24)]

UsedGetters ==
  [compression_mode |-> Part("used_param1", 0, 8), noise_bits_rounded |-> Part("used_param1", 16, 2),
   weighting_param |-> Part("used_param1", 8, 5), spillover_threshold |-> Part("used_param2", 8, 10),
   golomb_param |-> Part("used_param2", 0, 6),
   compr_data_start_addr |-> Part("compr_data_start_addr", 0, 24)]

SizeGetters ==
  [compr_data_size_bit |-> Part("compr_data_size", 0, 32),
   compr_data_adaptive_1_size_bit |-> Part("compr_data_adaptive_1_size", 0, 32),
   compr_data_adaptive_2_size_bit |-> Part("compr_data_adaptive_2_size", 0, 32),
   compr_error |-> Part("compr_error", 0, 10), new_model_addr_used |-> Part("new_model_addr_used", 0, 24),
   samples_used |-> Part("samples_used", 0, 24)]

EdacGetters ==
  [sub_chip_die_addr |-> Part("sram_edac_status", 12, 4), bypass |-> Part("sram_edac_status", 8, 1),
   scrub_info |-> Part("sram_edac_ctrl", 0, 8)]

Getters == IdentGetters @@ LinkGetters @@ RmapGetters @@ AdcGetters @@ StatusGetters
           @@ UsedGetters @@ SizeGetters @@ EdacGetters

-----------------------------------------------------------------------------
(* The commands *)

\* Mutant of ReadCommandsStatus: one register for two sets of counters.
ReadCommandsStatusTwice ==
  [fpga_version |-> "FPGA_VERSION", rdcu_status |-> "RDCU_STATUS",
   lvds_core_status |-> "LVDS_CORE_STATUS", spw_link_status |-> "SPW_LINK_STATUS",
   spw_err_cntrs |-> "SPW_ERR_CNTRS", rmap_last_err |-> "RMAP_LAST_ERR",
   rmap_no_reply_err_cntrs |-> "RMAP_LAST_ERR", rmap_pckt_err_cntrs |-> "RMAP_PCKT_ERR_CNTRS"]

\* rdcu_read_cmd_*: the register of the RDCU each command reads.
ReadCommandsStatus ==
  [fpga_version |-> "FPGA_VERSION", rdcu_status |-> "RDCU_STATUS",
   lvds_core_status |-> "LVDS_CORE_STATUS", spw_link_status |-> "SPW_LINK_STATUS",
   spw_err_cntrs |-> "SPW_ERR_CNTRS", rmap_last_err |-> "RMAP_LAST_ERR",
   rmap_no_reply_err_cntrs |-> "RMAP_NO_REPLY_ERR_CNTRS",
   rmap_pckt_err_cntrs |-> "RMAP_PCKT_ERR_CNTRS"]

ReadCommandsAdc ==
  [adc_values_1 |-> "ADC_VALUES_1", adc_values_2 |-> "ADC_VALUES_2",
   adc_values_3 |-> "ADC_VALUES_3", adc_values_4 |-> "ADC_VALUES_4",
   adc_status |-> "ADC_STATUS", compr_status |-> "COMPR_STATUS"]

ReadCommandsUsed ==
  [used_param1 |-> "USED_COMPR_PARAM_1", used_param2 |-> "USED_COMPR_PARAM_2",
   compr_data_start_addr |-> "COMPR_DATA_START_ADDR", compr_data_size |-> "COMPR_DATA_SIZE",
   compr_data_adaptive_1_size |-> "COMPR_DATA_ADAPTIVE_1_SIZE",
   compr_data_adaptive_2_size |-> "COMPR_DATA_ADAPTIVE_2_SIZE",
   compr_error |-> "COMPR_ERROR", new_model_addr_used |-> "USED_UPDATED_MODEL_START_ADDR",
   samples_used |-> "USED_NUMBER_OF_SAMPLES"]

\* rdcu_write_cmd_*
WriteCommandsControl ==
  [rdcu_reset |-> "RDCU_RESET", spw_link_ctrl |-> "SPW_LINK_CTRL", lvds_ctrl |-> "LVDS_CTRL",
   core_ctrl |-> "CORE_CTRL", adc_ctrl |-> "ADC_CTRL", compr_ctrl |-> "COMPR_CTRL"]

WriteCommandsParam ==
  [compressor_param1 |-> "COMPR_PARAM_1", compressor_param2 |-> "COMPR_PARAM_2",
   adaptive_param1 |-> "ADAPTIVE_PARAM_1", adaptive_param2 |-> "ADAPTIVE_PARAM_2",
   data_start_addr |-> "DATA_START_ADDR", model_start_addr |-> "MODEL_START_ADDR",
   num_samples |-> "NUM_SAMPLES", new_model_start_addr |-> "UPDATED_MODEL_START_ADDR",
   compr_data_buf_start_addr |-> "COMPR_DATA_BUF_START_ADDR",
   compr_data_buf_len |-> "COMPR_DATA_BUF_LEN"]

CommandsEdac == [sram_edac_ctrl |-> "SRAM_EDAC_CTRL", sram_edac_status |-> "SRAM_EDAC_STATUS"]

Commands == ReadCommandsStatus @@ ReadCommandsAdc @@ ReadCommandsUsed
            @@ WriteCommandsControl @@ WriteCommandsParam @@ CommandsEdac

\* The rdcu_sync_* functions send the command of the register in their name, and
\* give the member of that name: to be filled by the answer or, where four bytes
\* of data go with it, as the data.
SyncedByRead ==
  {"fpga_version", "rdcu_status", "lvds_core_status", "spw_link_status", "spw_err_cntrs",
   "rmap_last_err", "rmap_no_reply_err_cntrs", "rmap_pckt_err_cntrs"}

\* rdcu_sync_adc_values takes one of the characters '1' to '4' and refuses the
\* numbers 1 to 4; and the two status registers behind it.
SyncedAdc == {"adc_values_1", "adc_values_2", "adc_values_3", "adc_values_4",
              "adc_status", "compr_status"}

SyncedControl == {"rdcu_reset", "spw_link_ctrl", "lvds_ctrl", "core_ctrl", "adc_ctrl", "compr_ctrl"}

SyncedParam ==
  {"compressor_param1", "compressor_param2", "adaptive_param1", "adaptive_param2",
   "data_start_addr", "model_start_addr", "num_samples", "new_model_start_addr",
   "compr_data_buf_start_addr", "compr_data_buf_len"}

SyncedUsed ==
  {"used_param1", "used_param2", "compr_data_start_addr", "compr_data_size",
   "compr_data_adaptive_1_size", "compr_data_adaptive_2_size", "compr_error",
   "new_model_addr_used", "samples_used"}

SyncedEdac == {"sram_edac_ctrl"}
SyncedEdacStatus == {"sram_edac_status"}

ReadRegisters == SyncedByRead \cup SyncedAdc \cup SyncedUsed \cup SyncedEdacStatus
WriteRegisters == SyncedControl \cup SyncedParam \cup SyncedEdac

\* Control fields the RDCU shows in a status register, at the same place.
Shown ==
  <<[field |-> "rmap_target_logical_address", getter |-> "rmap_target_logical_address"],
    [field |-> "rmap_target_cmd_key", getter |-> "rmap_target_cmd_key"],
    [field |-> "lvds_link_0", getter |-> "lvds_link_0"],
    [field |-> "lvds_link_7", getter |-> "lvds_link_7"],
    [field |-> "spw_link_run_clkdiv", getter |-> "spw_run_clk_div"],
    [field |-> "adc_logic_reset", getter |-> "adc_logic_reset"],
    [field |-> "adc_logic_enabled", getter |-> "adc_logic_enabled"],
    [field |-> "rdcu_interrupt", getter |-> "rdcu_interrupt_enabled"],
    [field |-> "noise_bits_rounded", getter |-> "noise_bits_rounded"],
    [field |-> "weighting_param", getter |-> "weighting_param"],
    [field |-> "compression_mode", getter |-> "compression_mode"],
    [field |-> "spillover_threshold", getter |-> "spillover_threshold"],
    [field |-> "golomb_param", getter |-> "golomb_param"],
    [field |-> "num_samples", getter |-> "samples_used"],
    [field |-> "new_model_start_addr", getter |-> "new_model_addr_used"],
    [field |-> "sub_chip_die_addr", getter |-> "sub_chip_die_addr"],
    [field |-> "bypass", getter |-> "bypass"]>>

ShowsIn(f, m) == \E s \in 1 .. Len(Shown) : Shown[s].field = f /\ Getters[Shown[s].getter].reg = m

-----------------------------------------------------------------------------
VARIABLES focus,   \* the registers this behaviour is about
          path,    \* destination and return path
          mirror,  \* *rdcu, the local copy
          regs,    \* the registers of the RDCU
          log,     \* transaction log: the member a slot's answer goes to, or "free"
          out,     \* packets on the way to the RDCU
          in,      \* packets on the way back
          want,    \* history: the last value accepted for a field
          stage,   \* history: how far this value has come: "set", "sent", "read"
          asked,   \* history: registers read since they last changed in the RDCU
          refused, \* history: the RDCU has refused a command
          sizes,   \* history: sizes rmap_build_hdr returned for the last command
          ops      \* calls so far, bounded by MaxOps

vars == <<focus, path, mirror, regs, log, out, in, want, stage, asked, refused, sizes, ops>>

Fields == {f \in DOMAIN Setters : Setters[f].reg \in focus}

DeviceRegs == {CopyOf(m) : m \in focus}

Init ==
  /\ focus \in Focus
  /\ path \in Paths /\ PathAccepted(path.dst) /\ ReplyPathAccepted(path.reply)
  /\ mirror = [m \in focus |-> {}]
  /\ regs = [n \in DeviceRegs |-> {}]
  /\ log = [s \in Slots |-> "free"]
  /\ out = <<>> /\ in = <<>>
  /\ want = [f \in Fields |-> {}] /\ stage = [f \in Fields |-> "read"]
  /\ asked = {} /\ refused = FALSE /\ sizes = <<0, 0>> /\ ops = 0

Calls == ops < MaxOps /\ ops' = ops + 1

\* The setters
Accepted(f, v) == v >= f.min /\ v <= f.max /\ v % f.align = 0

Set(name, v) ==
  LET f == Setters[name]
  IN  /\ Calls /\ name \in Fields
      /\ IF Accepted(f, v)
         THEN /\ mirror' = [mirror EXCEPT ![f.reg] = (@ \ f.clear) \cup {b + f.at : b \in BitsOf(v)}]
              /\ want' = [want EXCEPT ![name] = BitsOf(v)]
              /\ stage' = [stage EXCEPT ![name] = "set"]
         ELSE UNCHANGED <<mirror, want, stage>>
      /\ UNCHANGED <<focus, path, regs, log, out, in, asked, refused, sizes>>

\* The getters
Get(g) == {b - g.at : b \in mirror[g.reg] \cap g.at .. g.at + g.width - 1}

\* rdcu_gen_cmd
Packet(m, slot) ==
  [path |-> path.dst, dst |-> 254, rpath |-> path.reply, src |-> 80, key |-> 209, tr_id |-> slot,
   cmd |-> IF m \in ReadRegisters THEN RMAP_READ_ADDR_INC ELSE RMAP_WRITE_ADDR_INC_VERIFY_REPLY,
   addr |-> AddressOf(Commands[m]), data_len |-> 4]

\* rdcu_sync for one register; it processes no answers when none has arrived.
Sync(m) ==
  /\ Calls /\ m \in focus \cap (ReadRegisters \cup WriteRegisters) /\ in = <<>>
  /\ \E slot \in Slots :
       LET pkt == Packet(m, slot)
           hdr == rmap_build_hdr(pkt)
           data == IF m \in WriteRegisters THEN Bytes(mirror[m]) ELSE <<>>
       IN  /\ log[slot] = "free" /\ \A s \in Slots : s < slot => log[s] # "free"
           /\ log' = [log EXCEPT ![slot] = m]
           /\ out' = Append(out, rdcu_package(hdr, Len(pkt.path), data))
           /\ sizes' = <<HdrSize(pkt), Len(hdr)>>
  /\ stage' = [f \in Fields |-> IF Setters[f].reg = m /\ stage[f] = "set" THEN "sent"
                                ELSE IF ShowsIn(f, m) /\ stage[f] = "sent" THEN "read"
                                ELSE stage[f]]
  /\ asked' = IF m \in ReadRegisters THEN asked \cup {m} ELSE asked
  /\ UNCHANGED <<focus, path, mirror, regs, in, want, refused>>

\* rdcu_process_rx, as rdcu_rmap_sync_status calls it, for one packet
Receive ==
  /\ in # <<>>
  /\ in' = Tail(in)
  /\ LET rp == rmap_pkt_from_buffer(Head(in))
         known == rp.tr_id \in Slots /\ log[rp.tr_id] # "free"
         valid == rp.data # <<>> /\ rmap_crc8(rp.data) = rp.data_crc
     IN  /\ log' = IF known THEN [log EXCEPT ![rp.tr_id] = "free"] ELSE log
         /\ mirror' = IF known /\ valid
                      THEN [mirror EXCEPT ![log[rp.tr_id]] = FromWord(rp.data)] ELSE mirror
  /\ UNCHANGED <<focus, path, regs, out, want, stage, asked, refused, sizes, ops>>

-----------------------------------------------------------------------------
(* The link and the RDCU, not in src/ *)

\* The bits of which register show in which other one.
Shows == {<<"CORE_CTRL", "LVDS_CORE_STATUS", 16 .. 31>>, <<"LVDS_CTRL", "LVDS_CORE_STATUS", 0 .. 7>>,
          <<"SPW_LINK_CTRL", "SPW_LINK_STATUS", 8 .. 13>>, <<"ADC_CTRL", "ADC_STATUS", 0 .. 1>>,
          <<"COMPR_CTRL", "COMPR_STATUS", {8}>>, <<"COMPR_PARAM_1", "USED_COMPR_PARAM_1", 0 .. 31>>,
          <<"COMPR_PARAM_2", "USED_COMPR_PARAM_2", 0 .. 31>>,
          <<"NUM_SAMPLES", "USED_NUMBER_OF_SAMPLES", 0 .. 23>>,
          <<"UPDATED_MODEL_START_ADDR", "USED_UPDATED_MODEL_START_ADDR", 0 .. 23>>,
          <<"SRAM_EDAC_CTRL", "SRAM_EDAC_STATUS", {8, 12, 13, 14, 15}>>}

\* The registers after the register name was written.
Written(name, word) ==
  [n \in DeviceRegs |->
     IF n = name THEN word
     ELSE LET bits == UNION {s[3] : s \in {t \in Shows : t[1] = name /\ t[2] = n}}
          IN  (regs[n] \ bits) \cup (word \cap bits)]

\* The target takes a command whose CRCs are right, carries it out and replies
\* to the return path, which the routers take off on the way back.
Execute ==
  /\ out # <<>>
  /\ out' = Tail(out)
  /\ LET p == SubSeq(Head(out), Len(path.dst) + 1, Len(Head(out)))
         rlen == 4 * (At(p, 2) % 4)
         hdr == Slice(p, 0, SIZE_CMD + rlen)
         body == SubSeq(p, SIZE_CMD + rlen + 2, Len(p))
         write == (At(p, 2) \div 32) % 2 = 1
         tid == Slice(p, rlen + 5, 2)
         addr == <<At(p, rlen + 8), FromBytes(Slice(p, rlen + 9, 3))>>
         named == {n \in DeviceRegs : AddressOf(n) = addr}
         good == /\ rmap_crc8(hdr) = At(p, SIZE_CMD + rlen) /\ named # {}
                 /\ write => Len(body) = 5 /\ rmap_crc8(Slice(body, 0, 4)) = At(body, 4)
         name == CHOOSE n \in named : TRUE
         start == <<At(p, rlen + 4), RMAP_PROTOCOL_ID, (At(p, 2) % 64) - (At(p, 2) % 4), 0, At(p, 0)>> \o tid
         reply == IF write THEN start ELSE start \o <<0, 0, 0, 4>>
         data == Bytes(regs[name])
     IN  IF ~good THEN refused' = TRUE /\ UNCHANGED <<regs, in, asked>>
         ELSE /\ UNCHANGED refused
              /\ regs' = IF write THEN Written(name, FromWord(body)) ELSE regs
              /\ in' = Append(in, reply \o <<rmap_crc8(reply)>>
                                  \o IF write THEN <<>> ELSE data \o <<rmap_crc8(data)>>)
              /\ asked' = {m \in asked : regs'[CopyOf(m)] = regs[CopyOf(m)]}
  /\ UNCHANGED <<focus, path, mirror, log, want, stage, sizes, ops>>

\* The RDCU changes a status register that shows no control field.
StatusChange(m, word) ==
  /\ m \in focus \cap ReadRegisters /\ out = <<>> /\ in = <<>>
  /\ \A s \in Shows : s[2] # CopyOf(m)
  /\ Calls
  /\ regs' = [regs EXCEPT ![CopyOf(m)] = word]
  /\ asked' = asked \ {m}
  /\ UNCHANGED <<focus, path, mirror, log, out, in, want, stage, refused, sizes>>

\* Arguments at and beyond the limits
Inputs(f) == {v \in {0, 1, 2, 5, f.min, f.max, f.max + 1, f.max - (f.max % f.align)} :
                v <= 255 \/ f.max # 255}

Next ==
  \/ \E f \in Fields :
       \E v \in IF f = "rdcu_board_reset_keyword" THEN BoardKeys ELSE Inputs(Setters[f]) : Set(f, v)
  \/ \E m \in focus : Sync(m)
  \/ Receive
  \/ Execute
  \/ \E m \in focus, word \in Patterns : StatusChange(m, word)

Spec == Init /\ [][Next]_vars
-----------------------------------------------------------------------------
(* Correctness *)

\* The bits of a field, as many as its greatest value needs
FieldBits(f) == {f.at + b : b \in {c \in 0 .. 23 : 2 ^ c <= f.max}}

\* Every field of every register holds the last value its setter accepted, whatever
\* the other setters did in between: no setter disturbs a field of its neighbours
\* or leaves bits of an old value behind.
FieldsKept ==
  \A f \in Fields :
    LET s == Setters[f] IN {b - s.at : b \in mirror[s.reg] \cap FieldBits(s)} = want[f]

NoPending == \A s \in Slots : log[s] = "free"

\* A setting that was sent, and whose status register was read after that, is what
\* the getter returns: setter, command, address, packet, answer and getter agree
\* on the place of each field.
SettingsReadBack ==
  NoPending =>
    \A i \in 1 .. Len(Shown) :
      /\ Shown[i].field \in Fields /\ stage[Shown[i].field] = "read"
      /\ Getters[Shown[i].getter].reg \in focus
      => Get(Getters[Shown[i].getter]) = want[Shown[i].field]

\* When nothing is pending, a register that was read since it last changed is in
\* its own place in the mirror.
ReadsArrive == NoPending => \A m \in asked : mirror[m] = regs[CopyOf(m)]

\* The RDCU finds every command well formed, whatever the paths, and every answer
\* finds its transaction: nothing on a link without faults leaves one open.  The
\* buffer for a command has the size of the header written to it.
CommandsAnswered ==
  /\ ~refused /\ sizes[1] = sizes[2]
  /\ \A s \in Slots : log[s] # "free" => out # <<>> \/ in # <<>>
=============================================================================
