-------------------------- MODULE MCEntityRoundTrip --------------------------
(* Small chunks of every type for EntityRoundTrip: two collections, of two   *)
(* samples and of one, each data type a chunk may hold in one of them, an    *)
(* empty collection, and one RDCU input.                                     *)
EXTENDS EntityRoundTrip

Collection(sub, n) == [sub |-> sub, n |-> n]

\* Values that differ in reading, sample and field, and are small.
FieldNumber(f) ==
  CHOOSE k \in 1 .. 15 :
    f = <<"imagette", "mean", "variance", "variance_mean", "outlier_pixels", "exp_flags", "fx",
          "efx", "ncob_x", "ncob_y", "ecob_x", "ecob_y", "fx_variance", "cob_x_variance",
          "cob_y_variance">>[k]
MCReading(r, k, j, f) == 100 * r + 37 * (r % 2) + 41 * k + 18 * j + 3 * FieldNumber(f)

MemberNames ==
  {"nc_imagette", "saturated_imagette", "s_exp_flags", "s_fx", "s_ncob", "s_efx", "s_ecob",
   "l_exp_flags", "l_fx", "l_ncob", "l_efx", "l_ecob", "l_fx_cob_variance",
   "nc_offset_mean", "nc_offset_variance", "nc_background_mean", "nc_background_variance",
   "nc_background_outlier_pixels", "smearing_mean", "smearing_variance_mean",
   "smearing_outlier_pixels", "fc_imagette", "fc_offset_mean", "fc_offset_variance",
   "fc_background_mean", "fc_background_variance", "fc_background_outlier_pixels"}

\* Every pair of a chunk type has its own parameter.
Good ==
  [m \in MemberNames \cup {"model_value"} |->
     CASE m = "model_value" -> 8
       [] m \in {"s_exp_flags", "l_exp_flags", "nc_imagette", "saturated_imagette",
                 "fc_imagette"} -> 3
       [] m \in {"s_fx", "l_fx", "nc_offset_mean", "fc_offset_mean"} -> 8
       [] m \in {"s_ncob", "l_ncob", "nc_offset_variance", "fc_offset_variance"} -> 300
       [] m \in {"s_efx", "l_efx", "nc_background_mean", "fc_background_mean",
                 "smearing_mean"} -> 17
       [] m \in {"s_ecob", "l_ecob", "nc_background_variance", "fc_background_variance",
                 "smearing_variance_mean"} -> 65535
       [] OTHER -> 5]

\* Parameters only some data types need are not set.
Bare == [Good EXCEPT !["s_exp_flags"] = 0, !["s_ecob"] = 0, !["l_exp_flags"] = 0,
                     !["fc_imagette"] = 0, !["nc_background_mean"] = 65536]
Heavy == [Good EXCEPT !["model_value"] = 17]
Huge == [Good EXCEPT !["model_value"] = 256]

Sets(layout, par, cpu, cpu2, updates) ==
  {[layout |-> layout, rdcu |-> FALSE, par |-> par, icu |-> cpu, ground |-> cpu2,
    update |-> u] : u \in updates}

All == {"none", "separate", "in_place"}
Off == {"none"}
In == {"in_place"}
Sep == {"separate"}

MCSettings ==
  Sets(<<Collection(3, 2), Collection(3, 1)>>, Good, "little", "big", All)
  \cup Sets(<<Collection(4, 1), Collection(4, 0)>>, Good, "big", "little", In)
  \cup Sets(<<Collection(5, 2), Collection(6, 1)>>, Good, "little", "big", In)
  \cup Sets(<<Collection(7, 2)>>, Good, "big", "little", Sep)
  \cup Sets(<<Collection(9, 1), Collection(12, 2)>>, Good, "little", "big", Sep)
  \cup Sets(<<Collection(10, 2), Collection(11, 1)>>, Good, "big", "little", In)
  \cup Sets(<<Collection(13, 1), Collection(16, 2)>>, Good, "little", "little", In)
  \cup Sets(<<Collection(14, 2), Collection(15, 1)>>, Good, "big", "big", Sep)
  \cup Sets(<<Collection(1, 2), Collection(2, 1)>>, Good, "big", "little", In)
  \cup Sets(<<Collection(25, 2)>>, Good, "little", "big", Sep)
  \cup Sets(<<Collection(9, 1)>>, Bare, "little", "big", Off)
  \cup Sets(<<Collection(13, 1)>>, Bare, "little", "big", Off)
  \cup Sets(<<Collection(5, 1), Collection(6, 1)>>, Bare, "little", "big", Off)
  \cup Sets(<<Collection(2, 1)>>, Bare, "little", "big", Sep)
  \cup Sets(<<Collection(4, 1)>>, Heavy, "little", "big", In)
  \cup Sets(<<Collection(4, 1)>>, Huge, "little", "big", Off)
  \cup {[s EXCEPT !.rdcu = TRUE] :
          s \in Sets(<<Collection(3, 2)>>, Good, "little", "big", All)}

Rdcu(mode, model_value, round, golomb_par, spill, ap) ==
  [cmp_mode |-> mode, model_value |-> model_value, round |-> round,
   golomb_par |-> golomb_par, spill |-> spill,
   ap1_golomb_par |-> ap, ap1_spill |-> 1000 + ap, ap2_golomb_par |-> ap + 1,
   ap2_spill |-> 2000 + ap]

MCRdcuConfigs ==
  {Rdcu(CMP_MODE_RAW, 0, 0, 0, 0, 0), Rdcu(CMP_MODE_DIFF_ZERO, 300, 0, 3, 20, 7),
   Rdcu(CMP_MODE_DIFF_MULTI, 5, 2, 300, 20, 7), Rdcu(CMP_MODE_MODEL_ZERO, 16, 1, 7, 20, 255),
   Rdcu(CMP_MODE_MODEL_MULTI, 11, 2, 255, 5000, 7), Rdcu(CMP_MODE_MODEL_MULTI, 17, 0, 4, 20, 7)}

MCShorter(len) == {len - 1}
MCVersion == <<43981, 258>>
MCStamps == {<<0, 4660, 22136, 65535>>, <<1, 0, 0, 0>>}
MCIds == {<<513, 254>>}
=============================================================================
