---------------------------- MODULE DataProducts ----------------------------
(***************************************************************************)
(* The science data products: which fields the samples of a product have,  *)
(* in which order the software compressor (lib/icu_compress/cmp_icu.c)     *)
(* encodes them and the decompressor (lib/decompress/decmp.c) decodes      *)
(* them, with which of the six parameter pairs of a configuration, which   *)
(* pairs are checked (lib/common/cmp_support.c), which the chunk type      *)
(* provides, and which fields the byte order conversion turns around       *)
(* (lib/common/cmp_data_types.c).  The encoders, the decoders and the      *)
(* conversions are separate functions in the code and separate definitions *)
(* here, each under the name of its function; whether they fit together is *)
(* what EntityRoundTrip is about.  Data types are named by the last words  *)
(* of their enumerators.                                                   *)
(***************************************************************************)
EXTENDS Integers, Sequences

\* The members of union cmp_cfg that share a place: cmp_par_1 is both
\* cmp_par_imagette and cmp_par_exp_flags, and so on.
IMAGETTE == 1
EXP_FLAGS == 1
FX == 2
OFFSET_MEAN == 2
NCOB == 3
OFFSET_VARIANCE == 3
EFX == 4
AUX_MEAN == 4
ECOB == 5
AUX_VARIANCE == 5
FX_COB_VARIANCE == 6
PIXELS_ERROR == 6
Pair == 1 .. 6

\* A field as one setup codes it: its parameter pair and max_data_bits.
Coded(field, pair, bits) == <<[field |-> field, pair |-> pair, bits |-> bits]>>

flags8 == Coded("exp_flags", EXP_FLAGS, 8)
flags24 == Coded("exp_flags", EXP_FLAGS, 24)
fx == Coded("fx", FX, 32)
efx == Coded("efx", EFX, 32)
ncob == Coded("ncob_x", NCOB, 32) \o Coded("ncob_y", NCOB, 32)
ecob == Coded("ecob_x", ECOB, 32) \o Coded("ecob_y", ECOB, 32)
fx_variance == Coded("fx_variance", FX_COB_VARIANCE, 32)
cob_variance == Coded("cob_x_variance", FX_COB_VARIANCE, 32)
                \o Coded("cob_y_variance", FX_COB_VARIANCE, 32)
outlier_pixels == Coded("outlier_pixels", PIXELS_ERROR, 16)

ap_imagettes == {"imagette_adaptive", "sat_imagette_adaptive", "f_cam_imagette_adaptive"}
imagettes == {"imagette", "sat_imagette", "f_cam_imagette"} \cup ap_imagettes
fx_cobs == {"s_fx", "s_fx_efx", "s_fx_ncob", "s_fx_efx_ncob_ecob",
            "l_fx", "l_fx_efx", "l_fx_ncob", "l_fx_efx_ncob_ecob",
            "f_fx", "f_fx_efx", "f_fx_ncob", "f_fx_efx_ncob_ecob"}

-----------------------------------------------------------------------------
(* The encoders *)

compress_imagette == Coded("imagette", IMAGETTE, 16)
compress_s_fx == flags8 \o fx
compress_s_fx_efx == flags8 \o fx \o efx
compress_s_fx_ncob == flags8 \o fx \o ncob

compress_s_fx_efx_ncob_ecob == flags8 \o fx \o ncob \o efx \o ecob
compress_l_fx == flags24 \o fx \o fx_variance
compress_l_fx_efx == flags24 \o fx \o efx \o fx_variance
compress_l_fx_ncob == flags24 \o fx \o ncob \o fx_variance \o cob_variance
compress_l_fx_efx_ncob_ecob ==
  flags24 \o fx \o ncob \o efx \o ecob \o fx_variance \o cob_variance
compress_offset == Coded("mean", OFFSET_MEAN, 32) \o Coded("variance", OFFSET_VARIANCE, 32)
compress_background ==
  Coded("mean", AUX_MEAN, 32) \o Coded("variance", AUX_VARIANCE, 32) \o outlier_pixels
compress_smearing ==
  Coded("mean", AUX_MEAN, 32) \o Coded("variance_mean", AUX_VARIANCE, 32) \o outlier_pixels

\* The encoder compress_data_internal() calls; none for the fast cadence.
Encoder(data_type) ==
  CASE data_type \in imagettes -> compress_imagette
    [] data_type = "s_fx" -> compress_s_fx
    [] data_type = "s_fx_efx" -> compress_s_fx_efx
    [] data_type = "s_fx_ncob" -> compress_s_fx_ncob
    [] data_type = "s_fx_efx_ncob_ecob" -> compress_s_fx_efx_ncob_ecob
    [] data_type = "l_fx" -> compress_l_fx
    [] data_type = "l_fx_efx" -> compress_l_fx_efx
    [] data_type = "l_fx_ncob" -> compress_l_fx_ncob
    [] data_type = "l_fx_efx_ncob_ecob" -> compress_l_fx_efx_ncob_ecob
    [] data_type \in {"offset", "f_cam_offset"} -> compress_offset
    [] data_type \in {"background", "f_cam_background"} -> compress_background
    [] data_type = "smearing" -> compress_smearing
    [] OTHER -> <<>>

-----------------------------------------------------------------------------
(* The decoders *)

decompress_imagette == Coded("imagette", IMAGETTE, 16)
decompress_s_fx == flags8 \o fx
decompress_s_fx_efx == flags8 \o fx \o efx
decompress_s_fx_ncob == flags8 \o fx \o ncob
decompress_s_fx_efx_ncob_ecob == flags8 \o fx \o ncob \o efx \o ecob
decompress_l_fx == flags24 \o fx \o fx_variance
decompress_l_fx_efx == flags24 \o fx \o efx \o fx_variance
decompress_l_fx_ncob == flags24 \o fx \o ncob \o fx_variance \o cob_variance
decompress_l_fx_efx_ncob_ecob ==
  flags24 \o fx \o ncob \o efx \o ecob \o fx_variance \o cob_variance
decompress_offset == Coded("mean", OFFSET_MEAN, 32) \o Coded("variance", OFFSET_VARIANCE, 32)
decompress_background ==
  Coded("mean", AUX_MEAN, 32) \o Coded("variance", AUX_VARIANCE, 32) \o outlier_pixels
decompress_smearing ==
  Coded("mean", AUX_MEAN, 32) \o Coded("variance_mean", AUX_VARIANCE, 32) \o outlier_pixels

\* The decoder decompressed_data_internal() calls.
Decoder(data_type) ==
  CASE data_type \in imagettes -> decompress_imagette
    [] data_type = "s_fx" -> decompress_s_fx
    [] data_type = "s_fx_efx" -> decompress_s_fx_efx
    [] data_type = "s_fx_ncob" -> decompress_s_fx_ncob
    [] data_type = "s_fx_efx_ncob_ecob" -> decompress_s_fx_efx_ncob_ecob
    [] data_type = "l_fx" -> decompress_l_fx
    [] data_type = "l_fx_efx" -> decompress_l_fx_efx
    [] data_type = "l_fx_ncob" -> decompress_l_fx_ncob
    [] data_type = "l_fx_efx_ncob_ecob" -> decompress_l_fx_efx_ncob_ecob
    [] data_type \in {"offset", "f_cam_offset"} -> decompress_offset
    [] data_type \in {"background", "f_cam_background"} -> decompress_background
    [] data_type = "smearing" -> decompress_smearing
    [] OTHER -> <<>>

-----------------------------------------------------------------------------
(* Collections and their samples *)

convert_subservice_to_cmp_data_type(subservice) ==
  CASE subservice = 3 -> "imagette"
    [] subservice = 4 -> "sat_imagette"
    [] subservice = 5 -> "offset"
    [] subservice = 6 -> "background"
    [] subservice = 7 -> "smearing"
    [] subservice = 9 -> "s_fx"
    [] subservice = 10 -> "s_fx_efx"
    [] subservice = 11 -> "s_fx_ncob"
    [] subservice = 12 -> "s_fx_efx_ncob_ecob"
    [] subservice = 13 -> "l_fx"
    [] subservice = 14 -> "l_fx_efx"
    [] subservice = 15 -> "l_fx_ncob"
    [] subservice = 16 -> "l_fx_efx_ncob_ecob"
    [] subservice = 17 -> "f_fx"
    [] subservice = 18 -> "f_fx_efx"
    [] subservice = 19 -> "f_fx_ncob"
    [] subservice = 20 -> "f_fx_efx_ncob_ecob"
    [] subservice = 1 -> "f_cam_imagette"
    [] subservice = 2 -> "f_cam_offset"
    [] subservice = 25 -> "f_cam_background"
    [] OTHER -> "unknown"

cmp_col_get_chunk_type(subservice) ==
  CASE subservice = 3 -> "ncam_imagette"
    [] subservice = 4 -> "sat_imagette"
    [] subservice \in {5, 6} -> "offset_background"
    [] subservice = 7 -> "smearing"
    [] subservice \in 9 .. 12 -> "short_cadence"
    [] subservice \in 13 .. 16 -> "long_cadence"
    [] subservice \in {1, 2, 25} -> "f_chain"
    [] OTHER -> "unknown"

\* The packed structs of cmp_data_types.h, in bytes; 0 if there is none.
size_of_a_sample(data_type) ==
  CASE data_type \in imagettes -> 2
    [] data_type \in {"offset", "f_cam_offset"} -> 8
    [] data_type \in {"background", "f_cam_background", "smearing"} -> 10
    [] data_type = "s_fx" -> 5
    [] data_type = "s_fx_efx" -> 9
    [] data_type = "s_fx_ncob" -> 13
    [] data_type = "s_fx_efx_ncob_ecob" -> 29
    [] data_type = "l_fx" -> 11
    [] data_type = "l_fx_efx" -> 15
    [] data_type = "l_fx_ncob" -> 27
    [] data_type = "l_fx_efx_ncob_ecob" -> 43
    [] data_type = "f_fx" -> 4
    [] data_type = "f_fx_efx" -> 8
    [] data_type = "f_fx_ncob" -> 12
    [] data_type = "f_fx_efx_ncob_ecob" -> 24
    [] OTHER -> 0

\* The members of a sample, the structs of cmp_data_types.h.
Members(data_type) ==
  CASE data_type \in imagettes -> {"imagette"}
    [] data_type \in {"offset", "f_cam_offset"} -> {"mean", "variance"}
    [] data_type \in {"background", "f_cam_background"} -> {"mean", "variance", "outlier_pixels"}
    [] data_type = "smearing" -> {"mean", "variance_mean", "outlier_pixels"}
    [] data_type = "s_fx" -> {"exp_flags", "fx"}
    [] data_type = "s_fx_efx" -> {"exp_flags", "fx", "efx"}
    [] data_type = "s_fx_ncob" -> {"exp_flags", "fx", "ncob_x", "ncob_y"}
    [] data_type = "s_fx_efx_ncob_ecob" ->
         {"exp_flags", "fx", "ncob_x", "ncob_y", "efx", "ecob_x", "ecob_y"}
    [] data_type = "l_fx" -> {"exp_flags", "fx", "fx_variance"}
    [] data_type = "l_fx_efx" -> {"exp_flags", "fx", "efx", "fx_variance"}
    [] data_type = "l_fx_ncob" ->
         {"exp_flags", "fx", "ncob_x", "ncob_y", "fx_variance", "cob_x_variance",
          "cob_y_variance"}
    [] data_type = "l_fx_efx_ncob_ecob" ->
         {"exp_flags", "fx", "ncob_x", "ncob_y", "efx", "ecob_x", "ecob_y",
          "fx_variance", "cob_x_variance", "cob_y_variance"}

\* Those of more than one byte: the flags of the short cadence are a uint8_t.
WideMembers(data_type) ==
  IF data_type \in {"s_fx", "s_fx_efx", "s_fx_ncob", "s_fx_efx_ncob_ecob"}
  THEN Members(data_type) \ {"exp_flags"} ELSE Members(data_type)

-----------------------------------------------------------------------------
(* Byte order: the fields whose bytes are turned around.  The flags of the *)
(* short cadence are one byte.                                             *)

be_to_cpus_16 == {"imagette"}
be_to_cpus_offset == {"mean", "variance"}

\* Mutant of be_to_cpus_background: the 16-bit field is forgotten.
be_to_cpus_background_32 == {"mean", "variance"}

be_to_cpus_background == {"mean", "variance", "outlier_pixels"}
be_to_cpus_smearing == {"mean", "variance_mean", "outlier_pixels"}
be_to_cpus_s_fx == {"fx"}
be_to_cpus_s_fx_efx == {"fx", "efx"}
be_to_cpus_s_fx_ncob == {"fx", "ncob_x", "ncob_y"}
be_to_cpus_s_fx_efx_ncob_ecob == {"fx", "ncob_x", "ncob_y", "efx", "ecob_x", "ecob_y"}
be_to_cpus_l_fx == {"exp_flags", "fx", "fx_variance"}
be_to_cpus_l_fx_efx == {"exp_flags", "fx", "efx", "fx_variance"}
be_to_cpus_l_fx_ncob ==
  {"exp_flags", "fx", "ncob_x", "ncob_y", "fx_variance", "cob_x_variance", "cob_y_variance"}
be_to_cpus_l_fx_efx_ncob_ecob ==
  {"exp_flags", "fx", "ncob_x", "ncob_y", "efx", "ecob_x", "ecob_y",
   "fx_variance", "cob_x_variance", "cob_y_variance"}

\* The conversion be_to_cpu_data_type() calls for a type chunks may hold.
Turned(data_type) ==
  CASE data_type \in imagettes -> be_to_cpus_16
    [] data_type \in {"offset", "f_cam_offset"} -> be_to_cpus_offset
    [] data_type \in {"background", "f_cam_background"} -> be_to_cpus_background
    [] data_type = "smearing" -> be_to_cpus_smearing
    [] data_type = "s_fx" -> be_to_cpus_s_fx
    [] data_type = "s_fx_efx" -> be_to_cpus_s_fx_efx
    [] data_type = "s_fx_ncob" -> be_to_cpus_s_fx_ncob
    [] data_type = "s_fx_efx_ncob_ecob" -> be_to_cpus_s_fx_efx_ncob_ecob
    [] data_type = "l_fx" -> be_to_cpus_l_fx
    [] data_type = "l_fx_efx" -> be_to_cpus_l_fx_efx
    [] data_type = "l_fx_ncob" -> be_to_cpus_l_fx_ncob
    [] data_type = "l_fx_efx_ncob_ecob" -> be_to_cpus_l_fx_efx_ncob_ecob

-----------------------------------------------------------------------------
(* Parameters *)

\* cmp_cfg_fx_cob_get_need_pars
NeededPars(data_type) ==
  {FX} \cup
  (IF data_type \notin {"f_fx", "f_fx_efx", "f_fx_ncob", "f_fx_efx_ncob_ecob"}
   THEN {EXP_FLAGS} ELSE {}) \cup
  (IF data_type \in {"s_fx_ncob", "s_fx_efx_ncob_ecob", "l_fx_ncob", "l_fx_efx_ncob_ecob",
                     "f_fx_ncob", "f_fx_efx_ncob_ecob"} THEN {NCOB} ELSE {}) \cup
  (IF data_type \in {"s_fx_efx", "s_fx_efx_ncob_ecob", "l_fx_efx", "l_fx_efx_ncob_ecob",
                     "f_fx_efx", "f_fx_efx_ncob_ecob"} THEN {EFX} ELSE {}) \cup
  (IF data_type \in {"s_fx_efx_ncob_ecob", "l_fx_efx_ncob_ecob", "f_fx_efx_ncob_ecob"}
   THEN {ECOB} ELSE {}) \cup
  (IF data_type \in {"l_fx", "l_fx_efx", "l_fx_ncob", "l_fx_efx_ncob_ecob"}
   THEN {FX_COB_VARIANCE} ELSE {})

\* The pairs cmp_cfg_aux_is_invalid looks at.
AuxPars(data_type) ==
  IF data_type \in {"offset", "f_cam_offset"} THEN {OFFSET_MEAN, OFFSET_VARIANCE}
  ELSE {AUX_MEAN, AUX_VARIANCE, PIXELS_ERROR}

\* Mutant of CheckedPars: the flags are not looked at.
CheckedParsNoFlags(data_type) ==
  IF data_type \in imagettes THEN {IMAGETTE}
  ELSE IF data_type \in fx_cobs THEN NeededPars(data_type) \ {EXP_FLAGS}
  ELSE AuxPars(data_type)

\* The pairs the checks of a configuration look at.
CheckedPars(data_type) ==
  IF data_type \in imagettes THEN {IMAGETTE}
  ELSE IF data_type \in fx_cobs THEN NeededPars(data_type)
  ELSE AuxPars(data_type)

\* init_cmp_cfg_from_cmp_par: the member of struct cmp_par a pair is taken
\* from, and the used bits its spillover threshold is calculated for.
ParOf(chunk_type) ==
  CASE chunk_type = "ncam_imagette" -> Coded("nc_imagette", IMAGETTE, 16)
    [] chunk_type = "sat_imagette" -> Coded("saturated_imagette", IMAGETTE, 16)
    [] chunk_type = "short_cadence" ->
         Coded("s_exp_flags", EXP_FLAGS, 8) \o Coded("s_fx", FX, 32)
         \o Coded("s_ncob", NCOB, 32) \o Coded("s_efx", EFX, 32) \o Coded("s_ecob", ECOB, 32)
    [] chunk_type = "long_cadence" ->
         Coded("l_exp_flags", EXP_FLAGS, 24) \o Coded("l_fx", FX, 32)
         \o Coded("l_ncob", NCOB, 32) \o Coded("l_efx", EFX, 32) \o Coded("l_ecob", ECOB, 32)
         \o Coded("l_fx_cob_variance", FX_COB_VARIANCE, 32)
    [] chunk_type = "offset_background" ->
         Coded("nc_offset_mean", OFFSET_MEAN, 32)
         \o Coded("nc_offset_variance", OFFSET_VARIANCE, 32)
         \o Coded("nc_background_mean", AUX_MEAN, 32)
         \o Coded("nc_background_variance", AUX_VARIANCE, 32)
         \o Coded("nc_background_outlier_pixels", PIXELS_ERROR, 16)
    [] chunk_type = "smearing" ->
         Coded("smearing_mean", AUX_MEAN, 32) \o Coded("smearing_variance_mean", AUX_VARIANCE, 32)
         \o Coded("smearing_outlier_pixels", PIXELS_ERROR, 16)
    [] chunk_type = "f_chain" ->
         Coded("fc_imagette", IMAGETTE, 16) \o Coded("fc_offset_mean", OFFSET_MEAN, 32)
         \o Coded("fc_offset_variance", OFFSET_VARIANCE, 32)
         \o Coded("fc_background_mean", AUX_MEAN, 32)
         \o Coded("fc_background_variance", AUX_VARIANCE, 32)
         \o Coded("fc_background_outlier_pixels", PIXELS_ERROR, 16)

MAX_NON_IMA_GOLOMB_PAR == 65535

ilog_2(x) == CHOOSE l \in 0 .. 16 : 2 ^ l <= x /\ x < 2 ^ (l + 1)

Cutoff(golomb_par) == 2 * 2 ^ ilog_2(golomb_par) - golomb_par

\* cmp_icu_max_spill
MaxSpill(golomb_par) ==
  IF golomb_par \notin 1 .. MAX_NON_IMA_GOLOMB_PAR THEN 0
  ELSE (31 - ilog_2(golomb_par)) * golomb_par + Cutoff(golomb_par) - 15 - 1

\* cmp_get_spill, cmp_best_zero_spill
Spill(golomb_par, zero, bits) ==
  LET best == bits * golomb_par + Cutoff(golomb_par)
  IN  IF MaxSpill(golomb_par) = 0 THEN 0
      ELSE IF zero /\ best < MaxSpill(golomb_par) THEN best ELSE MaxSpill(golomb_par)

\* cmp_pars_are_invalid, outside raw mode
ParsAreValid(golomb_par, spill) ==
  golomb_par \in 1 .. MAX_NON_IMA_GOLOMB_PAR /\ spill \in 2 .. MaxSpill(golomb_par)
=============================================================================
