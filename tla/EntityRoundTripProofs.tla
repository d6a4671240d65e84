----------------------- MODULE EntityRoundTripProofs ------------------------
(************************************************************************************)
(* Proofs about the sender of EntityRoundTrip, for any settings of any layout,      *)
(* any samples, timestamps, identifiers and configurations: the parameters of       *)
(* every code word were checked, and the header of a finished entity reads as it    *)
(* was written.  First the facts about the operators: the encoders of the data      *)
(* types, the decoder as their inverse, the layout of a chunk, the buffers, and     *)
(* the bytes of the header; then the invariant SenderInv and its steps.             *)
(************************************************************************************)
EXTENDS EntityRoundTrip, Arith, FiniteSetTheorems, TLAPS

-----------------------------------------------------------------------------
(* Data products *)

\* The data types a chunk may hold.
Types ==
  {"imagette", "sat_imagette", "offset", "background", "smearing", "s_fx", "s_fx_efx",
   "s_fx_ncob", "s_fx_efx_ncob_ecob", "l_fx", "l_fx_efx", "l_fx_ncob", "l_fx_efx_ncob_ecob",
   "f_cam_imagette", "f_cam_offset", "f_cam_background"}

\* A subservice that has a chunk type has a data type.
LEMMA KnownTypes ==
  ASSUME NEW sub \in Nat, cmp_col_get_chunk_type(sub) # "unknown"
  PROVE  convert_subservice_to_cmp_data_type(sub) \in Types
<1>1. sub \in {3, 4, 5, 6, 7, 9, 10, 11, 12, 13, 14, 15, 16, 1, 2, 25}
  BY DEF cmp_col_get_chunk_type
<1> QED
  BY <1>1 DEF convert_subservice_to_cmp_data_type, Types

\* The names of the members of the samples.
Names ==
  {"imagette", "mean", "variance", "variance_mean", "outlier_pixels", "exp_flags", "fx", "efx",
   "ncob_x", "ncob_y", "ecob_x", "ecob_y", "fx_variance", "cob_x_variance", "cob_y_variance"}

Entry == [field : Names, pair : Pair, bits : Nat]

\* What an order of fields is about.
Order(s, fields, pairs) ==
  /\ s \in Seq(Entry) /\ Len(s) > 0
  /\ \A e \in 1 .. Len(s) : s[e].field \in fields /\ s[e].pair \in pairs
  /\ \A f \in fields : \E e \in 1 .. Len(s) : s[e].field = f

\* One value coded makes an encoder of one member and one pair of parameters.
LEMMA CodedOrder ==
  ASSUME NEW f \in Names, NEW p \in Pair, NEW b \in Nat
  PROVE  Order(Coded(f, p, b), {f}, {p})
BY DEF Order, Coded, Entry

\* Encoders put one behind the other visit the members of both.
LEMMA ConcatOrder ==
  ASSUME NEW s, NEW t, NEW F, NEW G, NEW P, NEW Q, Order(s, F, P), Order(t, G, Q)
  PROVE  Order(s \o t, F \cup G, P \cup Q)
<1>1. /\ s \in Seq(Entry) /\ t \in Seq(Entry) /\ Len(s) \in Nat /\ Len(t) \in Nat
      /\ Len(s) > 0 /\ Len(t) > 0
  BY DEF Order
<1>2. s \o t \in Seq(Entry) /\ Len(s \o t) = Len(s) + Len(t)
  BY <1>1
<1>3. \A e \in 1 .. Len(s) : (s \o t)[e] = s[e]
  BY <1>1
<1>4. \A e \in 1 .. Len(t) : (s \o t)[Len(s) + e] = t[e]
  BY <1>1
<1>5. ASSUME NEW e \in 1 .. Len(s \o t)
      PROVE  (s \o t)[e].field \in F \cup G /\ (s \o t)[e].pair \in P \cup Q
  <2>1. CASE e <= Len(s)
    BY <1>1, <1>2, <1>3, <2>1 DEF Order
  <2>2. CASE e > Len(s)
    <3>1. e - Len(s) \in 1 .. Len(t) /\ Len(s) + (e - Len(s)) = e
      BY <1>1, <1>2, <2>2
    <3>2. (s \o t)[e] = t[e - Len(s)]
      BY <1>4, <3>1
    <3> QED
      BY <3>1, <3>2 DEF Order
  <2> QED
    BY <1>1, <1>2, <2>1, <2>2
<1>6. ASSUME NEW f \in F \cup G PROVE \E e \in 1 .. Len(s \o t) : (s \o t)[e].field = f
  <2>1. CASE f \in F
    <3>1. PICK e \in 1 .. Len(s) : s[e].field = f
      BY <2>1 DEF Order
    <3> QED
      BY <1>1, <1>2, <1>3, <3>1
  <2>2. CASE f \in G
    <3>1. PICK e \in 1 .. Len(t) : t[e].field = f
      BY <2>2 DEF Order
    <3>2. Len(s) + e \in 1 .. Len(s \o t)
      BY <1>1, <1>2, <3>1
    <3> QED
      BY <1>4, <3>1, <3>2
  <2> QED
    BY <2>1, <2>2
<1> QED
  BY <1>1, <1>2, <1>5, <1>6 DEF Order

\* An encoder that uses some pairs of parameters uses no others.
LEMMA OrderWeaker ==
  ASSUME NEW s, NEW F, NEW P, NEW G, NEW Q, Order(s, F, P), F = G, P \subseteq Q
  PROVE  Order(s, G, Q)
BY DEF Order

\* The groups of fields the encoders are built of.
LEMMA Groups ==
  /\ Order(flags8, {"exp_flags"}, {EXP_FLAGS}) /\ Order(flags24, {"exp_flags"}, {EXP_FLAGS})
  /\ Order(fx, {"fx"}, {FX}) /\ Order(efx, {"efx"}, {EFX})
  /\ Order(ncob, {"ncob_x", "ncob_y"}, {NCOB}) /\ Order(ecob, {"ecob_x", "ecob_y"}, {ECOB})
  /\ Order(fx_variance, {"fx_variance"}, {FX_COB_VARIANCE})
  /\ Order(cob_variance, {"cob_x_variance", "cob_y_variance"}, {FX_COB_VARIANCE})
  /\ Order(outlier_pixels, {"outlier_pixels"}, {PIXELS_ERROR})
<1> USE DEF EXP_FLAGS, FX, EFX, NCOB, ECOB, FX_COB_VARIANCE, PIXELS_ERROR, Names
<1>1. \A f \in Names, p \in 1 .. 6, b \in Nat : Order(Coded(f, p, b), {f}, {p})
  BY CodedOrder DEF Pair
<1>2. \A f, g \in Names, p \in 1 .. 6, b \in Nat :
        Order(Coded(f, p, b) \o Coded(g, p, b), {f, g}, {p})
  <2> SUFFICES ASSUME NEW f \in Names, NEW g \in Names, NEW p \in 1 .. 6, NEW b \in Nat
               PROVE  Order(Coded(f, p, b) \o Coded(g, p, b), {f, g}, {p})
    OBVIOUS
  <2>1. Order(Coded(f, p, b) \o Coded(g, p, b), {f} \cup {g}, {p} \cup {p})
    BY <1>1, ConcatOrder
  <2>2. {f} \cup {g} = {f, g} /\ {p} \cup {p} = {p}
    OBVIOUS
  <2> QED
    BY <2>1, <2>2
<1>3. Order(flags8, {"exp_flags"}, {EXP_FLAGS})
  BY <1>1 DEF flags8
<1>4. Order(flags24, {"exp_flags"}, {EXP_FLAGS})
  BY <1>1 DEF flags24
<1>5. Order(fx, {"fx"}, {FX})
  BY <1>1 DEF fx
<1>6. Order(efx, {"efx"}, {EFX})
  BY <1>1 DEF efx
<1>7. Order(ncob, {"ncob_x", "ncob_y"}, {NCOB})
  BY <1>2 DEF ncob
<1>8. Order(ecob, {"ecob_x", "ecob_y"}, {ECOB})
  BY <1>2 DEF ecob
<1>9. Order(fx_variance, {"fx_variance"}, {FX_COB_VARIANCE})
  BY <1>1 DEF fx_variance
<1>10. Order(cob_variance, {"cob_x_variance", "cob_y_variance"}, {FX_COB_VARIANCE})
  BY <1>2 DEF cob_variance
<1>11. Order(outlier_pixels, {"outlier_pixels"}, {PIXELS_ERROR})
  BY <1>1 DEF outlier_pixels
<1> QED
  BY <1>3, <1>4, <1>5, <1>6, <1>7, <1>8, <1>9, <1>10, <1>11

\* The encoder of each data type visits every member of it once, with the parameters
\* checked.
LEMMA Order_s_fx == Order(compress_s_fx, Members("s_fx"), NeededPars("s_fx"))
<1>1. Order(flags8 \o fx, {"exp_flags"} \cup {"fx"}, {EXP_FLAGS} \cup {FX})
  BY Groups, ConcatOrder
<1>2. Order(flags8 \o fx, {"exp_flags", "fx"}, {EXP_FLAGS, FX})
  BY <1>1, OrderWeaker
<1>3. {"exp_flags", "fx"} = Members("s_fx")
  BY DEF Members, imagettes, ap_imagettes
<1>4. {EXP_FLAGS, FX} \subseteq NeededPars("s_fx")
  BY DEF NeededPars, EXP_FLAGS, FX, EFX, NCOB, ECOB, FX_COB_VARIANCE
<1> QED
  BY <1>2, <1>3, <1>4, OrderWeaker DEF compress_s_fx

\* The same for S_FX_EFX.
LEMMA Order_s_fx_efx == Order(compress_s_fx_efx, Members("s_fx_efx"), NeededPars("s_fx_efx"))
<1>1. Order(flags8 \o fx, {"exp_flags"} \cup {"fx"}, {EXP_FLAGS} \cup {FX})
  BY Groups, ConcatOrder
<1>2. Order(flags8 \o fx, {"exp_flags", "fx"}, {EXP_FLAGS, FX})
  BY <1>1, OrderWeaker
<1>3. Order(flags8 \o fx \o efx, {"exp_flags", "fx"} \cup {"efx"}, {EXP_FLAGS, FX} \cup {EFX})
  BY Groups, ConcatOrder, <1>2
<1>4. Order(flags8 \o fx \o efx, {"exp_flags", "fx", "efx"}, {EXP_FLAGS, FX, EFX})
  BY <1>3, OrderWeaker
<1>5. {"exp_flags", "fx", "efx"} = Members("s_fx_efx")
  BY DEF Members, imagettes, ap_imagettes
<1>6. {EXP_FLAGS, FX, EFX} \subseteq NeededPars("s_fx_efx")
  BY DEF NeededPars, EXP_FLAGS, FX, EFX, NCOB, ECOB, FX_COB_VARIANCE
<1> QED
  BY <1>4, <1>5, <1>6, OrderWeaker DEF compress_s_fx_efx

\* The same for S_FX_NCOB.
LEMMA Order_s_fx_ncob == Order(compress_s_fx_ncob, Members("s_fx_ncob"), NeededPars("s_fx_ncob"))
<1>1. Order(flags8 \o fx, {"exp_flags"} \cup {"fx"}, {EXP_FLAGS} \cup {FX})
  BY Groups, ConcatOrder
<1>2. Order(flags8 \o fx, {"exp_flags", "fx"}, {EXP_FLAGS, FX})
  BY <1>1, OrderWeaker
<1>3. Order(flags8 \o fx \o ncob,
            {"exp_flags", "fx"} \cup {"ncob_x", "ncob_y"}, {EXP_FLAGS, FX} \cup {NCOB})
  BY Groups, ConcatOrder, <1>2
<1>4. Order(flags8 \o fx \o ncob, {"exp_flags", "fx", "ncob_x", "ncob_y"}, {EXP_FLAGS, FX, NCOB})
  BY <1>3, OrderWeaker
<1>5. {"exp_flags", "fx", "ncob_x", "ncob_y"} = Members("s_fx_ncob")
  BY DEF Members, imagettes, ap_imagettes
<1>6. {EXP_FLAGS, FX, NCOB} \subseteq NeededPars("s_fx_ncob")
  BY DEF NeededPars, EXP_FLAGS, FX, EFX, NCOB, ECOB, FX_COB_VARIANCE
<1> QED
  BY <1>4, <1>5, <1>6, OrderWeaker DEF compress_s_fx_ncob

\* The same for S_FX_EFX_NCOB_ECOB.
LEMMA Order_s_fx_efx_ncob_ecob ==
  Order(compress_s_fx_efx_ncob_ecob, Members("s_fx_efx_ncob_ecob"), NeededPars("s_fx_efx_ncob_ecob"))
<1>1. Order(flags8 \o fx, {"exp_flags"} \cup {"fx"}, {EXP_FLAGS} \cup {FX})
  BY Groups, ConcatOrder
<1>2. Order(flags8 \o fx, {"exp_flags", "fx"}, {EXP_FLAGS, FX})
  BY <1>1, OrderWeaker
<1>3. Order(flags8 \o fx \o ncob,
            {"exp_flags", "fx"} \cup {"ncob_x", "ncob_y"}, {EXP_FLAGS, FX} \cup {NCOB})
  BY Groups, ConcatOrder, <1>2
<1>4. Order(flags8 \o fx \o ncob, {"exp_flags", "fx", "ncob_x", "ncob_y"}, {EXP_FLAGS, FX, NCOB})
  BY <1>3, OrderWeaker
<1>5. Order(flags8 \o fx \o ncob \o efx,
            {"exp_flags", "fx", "ncob_x", "ncob_y"} \cup {"efx"}, {EXP_FLAGS, FX, NCOB} \cup {EFX})
  BY Groups, ConcatOrder, <1>4
<1>6. Order(flags8 \o fx \o ncob \o efx,
            {"exp_flags", "fx", "ncob_x", "ncob_y", "efx"}, {EXP_FLAGS, FX, NCOB, EFX})
  BY <1>5, OrderWeaker
<1>7. Order(flags8 \o fx \o ncob \o efx \o ecob,
            {"exp_flags", "fx", "ncob_x", "ncob_y", "efx"} \cup {"ecob_x", "ecob_y"},
            {EXP_FLAGS, FX, NCOB, EFX} \cup {ECOB})
  BY Groups, ConcatOrder, <1>6
<1>8. Order(flags8 \o fx \o ncob \o efx \o ecob,
            {"exp_flags", "fx", "ncob_x", "ncob_y", "efx", "ecob_x", "ecob_y"},
            {EXP_FLAGS, FX, NCOB, EFX, ECOB})
  BY <1>7, OrderWeaker
<1>9. {"exp_flags", "fx", "ncob_x", "ncob_y", "efx", "ecob_x", "ecob_y"} = Members("s_fx_efx_ncob_ecob")
  BY DEF Members, imagettes, ap_imagettes
<1>10. {EXP_FLAGS, FX, NCOB, EFX, ECOB} \subseteq NeededPars("s_fx_efx_ncob_ecob")
  BY DEF NeededPars, EXP_FLAGS, FX, EFX, NCOB, ECOB, FX_COB_VARIANCE
<1> QED
  BY <1>8, <1>9, <1>10, OrderWeaker DEF compress_s_fx_efx_ncob_ecob

\* The same for L_FX.
LEMMA Order_l_fx == Order(compress_l_fx, Members("l_fx"), NeededPars("l_fx"))
<1>1. Order(flags24 \o fx, {"exp_flags"} \cup {"fx"}, {EXP_FLAGS} \cup {FX})
  BY Groups, ConcatOrder
<1>2. Order(flags24 \o fx, {"exp_flags", "fx"}, {EXP_FLAGS, FX})
  BY <1>1, OrderWeaker
<1>3. Order(flags24 \o fx \o fx_variance,
            {"exp_flags", "fx"} \cup {"fx_variance"}, {EXP_FLAGS, FX} \cup {FX_COB_VARIANCE})
  BY Groups, ConcatOrder, <1>2
<1>4. Order(flags24 \o fx \o fx_variance,
            {"exp_flags", "fx", "fx_variance"}, {EXP_FLAGS, FX, FX_COB_VARIANCE})
  BY <1>3, OrderWeaker
<1>5. {"exp_flags", "fx", "fx_variance"} = Members("l_fx")
  BY DEF Members, imagettes, ap_imagettes
<1>6. {EXP_FLAGS, FX, FX_COB_VARIANCE} \subseteq NeededPars("l_fx")
  BY DEF NeededPars, EXP_FLAGS, FX, EFX, NCOB, ECOB, FX_COB_VARIANCE
<1> QED
  BY <1>4, <1>5, <1>6, OrderWeaker DEF compress_l_fx

\* The same for L_FX_EFX.
LEMMA Order_l_fx_efx == Order(compress_l_fx_efx, Members("l_fx_efx"), NeededPars("l_fx_efx"))
<1>1. Order(flags24 \o fx, {"exp_flags"} \cup {"fx"}, {EXP_FLAGS} \cup {FX})
  BY Groups, ConcatOrder
<1>2. Order(flags24 \o fx, {"exp_flags", "fx"}, {EXP_FLAGS, FX})
  BY <1>1, OrderWeaker
<1>3. Order(flags24 \o fx \o efx, {"exp_flags", "fx"} \cup {"efx"}, {EXP_FLAGS, FX} \cup {EFX})
  BY Groups, ConcatOrder, <1>2
<1>4. Order(flags24 \o fx \o efx, {"exp_flags", "fx", "efx"}, {EXP_FLAGS, FX, EFX})
  BY <1>3, OrderWeaker
<1>5. Order(flags24 \o fx \o efx \o fx_variance,
            {"exp_flags", "fx", "efx"} \cup {"fx_variance"},
            {EXP_FLAGS, FX, EFX} \cup {FX_COB_VARIANCE})
  BY Groups, ConcatOrder, <1>4
<1>6. Order(flags24 \o fx \o efx \o fx_variance,
            {"exp_flags", "fx", "efx", "fx_variance"}, {EXP_FLAGS, FX, EFX, FX_COB_VARIANCE})
  BY <1>5, OrderWeaker
<1>7. {"exp_flags", "fx", "efx", "fx_variance"} = Members("l_fx_efx")
  BY DEF Members, imagettes, ap_imagettes
<1>8. {EXP_FLAGS, FX, EFX, FX_COB_VARIANCE} \subseteq NeededPars("l_fx_efx")
  BY DEF NeededPars, EXP_FLAGS, FX, EFX, NCOB, ECOB, FX_COB_VARIANCE
<1> QED
  BY <1>6, <1>7, <1>8, OrderWeaker DEF compress_l_fx_efx

\* The same for L_FX_NCOB.
LEMMA Order_l_fx_ncob == Order(compress_l_fx_ncob, Members("l_fx_ncob"), NeededPars("l_fx_ncob"))
<1>1. Order(flags24 \o fx, {"exp_flags"} \cup {"fx"}, {EXP_FLAGS} \cup {FX})
  BY Groups, ConcatOrder
<1>2. Order(flags24 \o fx, {"exp_flags", "fx"}, {EXP_FLAGS, FX})
  BY <1>1, OrderWeaker
<1>3. Order(flags24 \o fx \o ncob,
            {"exp_flags", "fx"} \cup {"ncob_x", "ncob_y"}, {EXP_FLAGS, FX} \cup {NCOB})
  BY Groups, ConcatOrder, <1>2
<1>4. Order(flags24 \o fx \o ncob, {"exp_flags", "fx", "ncob_x", "ncob_y"}, {EXP_FLAGS, FX, NCOB})
  BY <1>3, OrderWeaker
<1>5. Order(flags24 \o fx \o ncob \o fx_variance,
            {"exp_flags", "fx", "ncob_x", "ncob_y"} \cup {"fx_variance"},
            {EXP_FLAGS, FX, NCOB} \cup {FX_COB_VARIANCE})
  BY Groups, ConcatOrder, <1>4
<1>6. Order(flags24 \o fx \o ncob \o fx_variance,
            {"exp_flags", "fx", "ncob_x", "ncob_y", "fx_variance"},
            {EXP_FLAGS, FX, NCOB, FX_COB_VARIANCE})
  BY <1>5, OrderWeaker
<1>7. Order(flags24 \o fx \o ncob \o fx_variance \o cob_variance,
            {"exp_flags", "fx", "ncob_x", "ncob_y", "fx_variance"} \cup {"cob_x_variance",
            "cob_y_variance"}, {EXP_FLAGS, FX, NCOB, FX_COB_VARIANCE} \cup {FX_COB_VARIANCE})
  BY Groups, ConcatOrder, <1>6
<1>8. Order(flags24 \o fx \o ncob \o fx_variance \o cob_variance,
            {"exp_flags", "fx", "ncob_x", "ncob_y", "fx_variance", "cob_x_variance",
            "cob_y_variance"}, {EXP_FLAGS, FX, NCOB, FX_COB_VARIANCE})
  BY <1>7, OrderWeaker
<1>9. {"exp_flags", "fx", "ncob_x", "ncob_y", "fx_variance", "cob_x_variance", "cob_y_variance"} = Members("l_fx_ncob")
  BY DEF Members, imagettes, ap_imagettes
<1>10. {EXP_FLAGS, FX, NCOB, FX_COB_VARIANCE} \subseteq NeededPars("l_fx_ncob")
  BY DEF NeededPars, EXP_FLAGS, FX, EFX, NCOB, ECOB, FX_COB_VARIANCE
<1> QED
  BY <1>8, <1>9, <1>10, OrderWeaker DEF compress_l_fx_ncob

\* The same for L_FX_EFX_NCOB_ECOB.
LEMMA Order_l_fx_efx_ncob_ecob ==
  Order(compress_l_fx_efx_ncob_ecob, Members("l_fx_efx_ncob_ecob"), NeededPars("l_fx_efx_ncob_ecob"))
<1>1. Order(flags24 \o fx, {"exp_flags"} \cup {"fx"}, {EXP_FLAGS} \cup {FX})
  BY Groups, ConcatOrder
<1>2. Order(flags24 \o fx, {"exp_flags", "fx"}, {EXP_FLAGS, FX})
  BY <1>1, OrderWeaker
<1>3. Order(flags24 \o fx \o ncob,
            {"exp_flags", "fx"} \cup {"ncob_x", "ncob_y"}, {EXP_FLAGS, FX} \cup {NCOB})
  BY Groups, ConcatOrder, <1>2
<1>4. Order(flags24 \o fx \o ncob, {"exp_flags", "fx", "ncob_x", "ncob_y"}, {EXP_FLAGS, FX, NCOB})
  BY <1>3, OrderWeaker
<1>5. Order(flags24 \o fx \o ncob \o efx,
            {"exp_flags", "fx", "ncob_x", "ncob_y"} \cup {"efx"}, {EXP_FLAGS, FX, NCOB} \cup {EFX})
  BY Groups, ConcatOrder, <1>4
<1>6. Order(flags24 \o fx \o ncob \o efx,
            {"exp_flags", "fx", "ncob_x", "ncob_y", "efx"}, {EXP_FLAGS, FX, NCOB, EFX})
  BY <1>5, OrderWeaker
<1>7. Order(flags24 \o fx \o ncob \o efx \o ecob,
            {"exp_flags", "fx", "ncob_x", "ncob_y", "efx"} \cup {"ecob_x", "ecob_y"},
            {EXP_FLAGS, FX, NCOB, EFX} \cup {ECOB})
  BY Groups, ConcatOrder, <1>6
<1>8. Order(flags24 \o fx \o ncob \o efx \o ecob,
            {"exp_flags", "fx", "ncob_x", "ncob_y", "efx", "ecob_x", "ecob_y"},
            {EXP_FLAGS, FX, NCOB, EFX, ECOB})
  BY <1>7, OrderWeaker
<1>9. Order(flags24 \o fx \o ncob \o efx \o ecob \o fx_variance,
            {"exp_flags", "fx", "ncob_x", "ncob_y", "efx", "ecob_x",
            "ecob_y"} \cup {"fx_variance"}, {EXP_FLAGS, FX, NCOB, EFX, ECOB} \cup {FX_COB_VARIANCE})
  BY Groups, ConcatOrder, <1>8
<1>10. Order(flags24 \o fx \o ncob \o efx \o ecob \o fx_variance,
             {"exp_flags", "fx", "ncob_x", "ncob_y", "efx", "ecob_x", "ecob_y", "fx_variance"},
             {EXP_FLAGS, FX, NCOB, EFX, ECOB, FX_COB_VARIANCE})
  BY <1>9, OrderWeaker
<1>11. Order(flags24 \o fx \o ncob \o efx \o ecob \o fx_variance \o cob_variance,
             {"exp_flags", "fx", "ncob_x", "ncob_y", "efx", "ecob_x", "ecob_y",
             "fx_variance"} \cup {"cob_x_variance", "cob_y_variance"},
             {EXP_FLAGS, FX, NCOB, EFX, ECOB, FX_COB_VARIANCE} \cup {FX_COB_VARIANCE})
  BY Groups, ConcatOrder, <1>10
<1>12. Order(flags24 \o fx \o ncob \o efx \o ecob \o fx_variance \o cob_variance,
             {"exp_flags", "fx", "ncob_x", "ncob_y", "efx", "ecob_x", "ecob_y", "fx_variance",
             "cob_x_variance", "cob_y_variance"}, {EXP_FLAGS, FX, NCOB, EFX, ECOB, FX_COB_VARIANCE})
  BY <1>11, OrderWeaker
<1>13. {"exp_flags", "fx", "ncob_x", "ncob_y", "efx", "ecob_x", "ecob_y", "fx_variance", "cob_x_variance", "cob_y_variance"} = Members("l_fx_efx_ncob_ecob")
  BY DEF Members, imagettes, ap_imagettes
<1>14. {EXP_FLAGS, FX, NCOB, EFX, ECOB, FX_COB_VARIANCE} \subseteq NeededPars("l_fx_efx_ncob_ecob")
  BY DEF NeededPars, EXP_FLAGS, FX, EFX, NCOB, ECOB, FX_COB_VARIANCE
<1> QED
  BY <1>12, <1>13, <1>14, OrderWeaker DEF compress_l_fx_efx_ncob_ecob

\* The same for the imagettes.
LEMMA Order_imagettes ==
  ASSUME NEW t \in imagettes
  PROVE  Order(compress_imagette, Members(t), {IMAGETTE})
<1>1. Order(compress_imagette, {"imagette"}, {IMAGETTE})
  BY CodedOrder DEF compress_imagette, IMAGETTE, Pair, Names
<1> QED
  BY <1>1 DEF Members, imagettes, ap_imagettes

\* The same for the offsets.
LEMMA Order_offset ==
  ASSUME NEW t \in {"offset", "f_cam_offset"}
  PROVE  Order(compress_offset, Members(t), AuxPars(t))
<1>1. /\ Order(Coded("mean", OFFSET_MEAN, 32), {"mean"}, {OFFSET_MEAN})
      /\ Order(Coded("variance", OFFSET_VARIANCE, 32), {"variance"}, {OFFSET_VARIANCE})
  BY CodedOrder DEF OFFSET_MEAN, OFFSET_VARIANCE, Pair, Names
<1>2. Order(compress_offset, {"mean"} \cup {"variance"}, {OFFSET_MEAN} \cup {OFFSET_VARIANCE})
  BY <1>1, ConcatOrder DEF compress_offset
<1>3. {"mean"} \cup {"variance"} = Members(t)
  BY DEF Members, imagettes, ap_imagettes
<1>4. {OFFSET_MEAN} \cup {OFFSET_VARIANCE} \subseteq AuxPars(t)
  BY DEF AuxPars
<1> QED
  BY <1>2, <1>3, <1>4, OrderWeaker

\* The same for the backgrounds.
LEMMA Order_background ==
  ASSUME NEW t \in {"background", "f_cam_background"}
  PROVE  Order(compress_background, Members(t), AuxPars(t))
<1>1. /\ Order(Coded("mean", AUX_MEAN, 32), {"mean"}, {AUX_MEAN})
      /\ Order(Coded("variance", AUX_VARIANCE, 32), {"variance"}, {AUX_VARIANCE})
  BY CodedOrder DEF AUX_MEAN, AUX_VARIANCE, Pair, Names
<1>2. Order(Coded("mean", AUX_MEAN, 32) \o Coded("variance", AUX_VARIANCE, 32),
            {"mean"} \cup {"variance"}, {AUX_MEAN} \cup {AUX_VARIANCE})
  BY <1>1, ConcatOrder
<1>3. Order(compress_background, ({"mean"} \cup {"variance"}) \cup {"outlier_pixels"},
            ({AUX_MEAN} \cup {AUX_VARIANCE}) \cup {PIXELS_ERROR})
  BY <1>2, Groups, ConcatOrder DEF compress_background
<1>4. ({"mean"} \cup {"variance"}) \cup {"outlier_pixels"} = Members(t)
  BY DEF Members, imagettes, ap_imagettes
<1>5. ({AUX_MEAN} \cup {AUX_VARIANCE}) \cup {PIXELS_ERROR} \subseteq AuxPars(t)
  BY DEF AuxPars
<1> QED
  BY <1>3, <1>4, <1>5, OrderWeaker

\* The same for the smearing.
LEMMA Order_smearing == Order(compress_smearing, Members("smearing"), AuxPars("smearing"))
<1>1. /\ Order(Coded("mean", AUX_MEAN, 32), {"mean"}, {AUX_MEAN})
      /\ Order(Coded("variance_mean", AUX_VARIANCE, 32), {"variance_mean"}, {AUX_VARIANCE})
  BY CodedOrder DEF AUX_MEAN, AUX_VARIANCE, Pair, Names
<1>2. Order(Coded("mean", AUX_MEAN, 32) \o Coded("variance_mean", AUX_VARIANCE, 32),
            {"mean"} \cup {"variance_mean"}, {AUX_MEAN} \cup {AUX_VARIANCE})
  BY <1>1, ConcatOrder
<1>3. Order(compress_smearing, ({"mean"} \cup {"variance_mean"}) \cup {"outlier_pixels"},
            ({AUX_MEAN} \cup {AUX_VARIANCE}) \cup {PIXELS_ERROR})
  BY <1>2, Groups, ConcatOrder DEF compress_smearing
<1>4. ({"mean"} \cup {"variance_mean"}) \cup {"outlier_pixels"} = Members("smearing")
  BY DEF Members, imagettes, ap_imagettes
<1>5. ({AUX_MEAN} \cup {AUX_VARIANCE}) \cup {PIXELS_ERROR} \subseteq AuxPars("smearing")
  BY DEF AuxPars
<1> QED
  BY <1>3, <1>4, <1>5, OrderWeaker

fx_types == {"s_fx", "s_fx_efx", "s_fx_ncob", "s_fx_efx_ncob_ecob",
             "l_fx", "l_fx_efx", "l_fx_ncob", "l_fx_efx_ncob_ecob"}

\* The encoder of a type codes each of its fields, with pairs that are checked.
LEMMA EncoderOrder ==
  ASSUME NEW t \in Types
  PROVE  Order(Encoder(t), Members(t), CheckedPars(t))
<1>1. CASE t \in imagettes
  BY <1>1, Order_imagettes DEF Encoder, CheckedPars, imagettes, ap_imagettes
<1>2. CASE t \in {"offset", "f_cam_offset"}
  <2>1. Encoder(t) = compress_offset /\ CheckedPars(t) = AuxPars(t)
    BY <1>2 DEF Encoder, CheckedPars, imagettes, ap_imagettes, fx_cobs
  <2> QED
    BY <1>2, <2>1, Order_offset
<1>3. CASE t \in {"background", "f_cam_background"}
  <2>1. Encoder(t) = compress_background /\ CheckedPars(t) = AuxPars(t)
    BY <1>3 DEF Encoder, CheckedPars, imagettes, ap_imagettes, fx_cobs
  <2> QED
    BY <1>3, <2>1, Order_background
<1>4. CASE t = "smearing"
  <2>1. Encoder(t) = compress_smearing /\ CheckedPars(t) = AuxPars(t)
    BY <1>4 DEF Encoder, CheckedPars, imagettes, ap_imagettes, fx_cobs
  <2> QED
    BY <1>4, <2>1, Order_smearing
<1>5. CASE t \in fx_types
  <2>1. CheckedPars(t) = NeededPars(t)
    BY <1>5 DEF CheckedPars, imagettes, ap_imagettes, fx_cobs, fx_types
  <2>2. /\ t = "s_fx" => Encoder(t) = compress_s_fx
        /\ t = "s_fx_efx" => Encoder(t) = compress_s_fx_efx
        /\ t = "s_fx_ncob" => Encoder(t) = compress_s_fx_ncob
        /\ t = "s_fx_efx_ncob_ecob" => Encoder(t) = compress_s_fx_efx_ncob_ecob
        /\ t = "l_fx" => Encoder(t) = compress_l_fx
        /\ t = "l_fx_efx" => Encoder(t) = compress_l_fx_efx
        /\ t = "l_fx_ncob" => Encoder(t) = compress_l_fx_ncob
        /\ t = "l_fx_efx_ncob_ecob" => Encoder(t) = compress_l_fx_efx_ncob_ecob
    BY <1>5 DEF Encoder, imagettes, ap_imagettes, fx_types
  <2> QED
    BY <1>5, <2>1, <2>2, Order_s_fx, Order_s_fx_efx, Order_s_fx_ncob, Order_s_fx_efx_ncob_ecob,
       Order_l_fx, Order_l_fx_efx, Order_l_fx_ncob, Order_l_fx_efx_ncob_ecob DEF fx_types
<1> QED
  BY <1>1, <1>2, <1>3, <1>4, <1>5 DEF Types, imagettes, fx_types

\* The decoder takes the fields in the same order.
LEMMA DecoderOrder ==
  ASSUME NEW t \in Types
  PROVE  Decoder(t) = Encoder(t)
BY DEF Decoder, Encoder, Types,
       compress_imagette, compress_s_fx, compress_s_fx_efx, compress_s_fx_ncob,
       compress_s_fx_efx_ncob_ecob, compress_l_fx, compress_l_fx_efx, compress_l_fx_ncob,
       compress_l_fx_efx_ncob_ecob, compress_offset, compress_background, compress_smearing,
       decompress_imagette, decompress_s_fx, decompress_s_fx_efx, decompress_s_fx_ncob,
       decompress_s_fx_efx_ncob_ecob, decompress_l_fx, decompress_l_fx_efx, decompress_l_fx_ncob,
       decompress_l_fx_efx_ncob_ecob, decompress_offset, decompress_background,
       decompress_smearing

\* The conversion turns around what the copy did.
LEMMA ConversionFits ==
  ASSUME NEW t \in Types
  PROVE  Turned(t) = WideMembers(t) /\ size_of_a_sample(t) \in Nat \ {0}
<1>1. size_of_a_sample(t) \in Nat \ {0}
  BY DEF size_of_a_sample, Types, imagettes, ap_imagettes
<1>2. Turned(t) = WideMembers(t)
  <2>1. CASE t \in imagettes
    BY <2>1 DEF Turned, WideMembers, Members, imagettes, ap_imagettes, be_to_cpus_16
  <2>2. CASE t \in {"offset", "f_cam_offset"}
    BY <2>2 DEF Turned, WideMembers, Members, imagettes, ap_imagettes, be_to_cpus_offset
  <2>3. CASE t \in {"background", "f_cam_background"}
    BY <2>3 DEF Turned, WideMembers, Members, imagettes, ap_imagettes, be_to_cpus_background
  <2>4. CASE t = "smearing"
    BY <2>4 DEF Turned, WideMembers, Members, imagettes, ap_imagettes, be_to_cpus_smearing
  <2>5. CASE t = "s_fx"
    BY <2>5 DEF Turned, WideMembers, Members, imagettes, ap_imagettes, be_to_cpus_s_fx
  <2>6. CASE t = "s_fx_efx"
    BY <2>6 DEF Turned, WideMembers, Members, imagettes, ap_imagettes, be_to_cpus_s_fx_efx
  <2>7. CASE t = "s_fx_ncob"
    BY <2>7 DEF Turned, WideMembers, Members, imagettes, ap_imagettes, be_to_cpus_s_fx_ncob
  <2>8. CASE t = "s_fx_efx_ncob_ecob"
    BY <2>8 DEF Turned, WideMembers, Members, imagettes, ap_imagettes,
                be_to_cpus_s_fx_efx_ncob_ecob
  <2>9. CASE t = "l_fx"
    BY <2>9 DEF Turned, WideMembers, Members, imagettes, ap_imagettes, be_to_cpus_l_fx
  <2>10. CASE t = "l_fx_efx"
    BY <2>10 DEF Turned, WideMembers, Members, imagettes, ap_imagettes, be_to_cpus_l_fx_efx
  <2>11. CASE t = "l_fx_ncob"
    BY <2>11 DEF Turned, WideMembers, Members, imagettes, ap_imagettes, be_to_cpus_l_fx_ncob
  <2>12. CASE t = "l_fx_efx_ncob_ecob"
    BY <2>12 DEF Turned, WideMembers, Members, imagettes, ap_imagettes,
                 be_to_cpus_l_fx_efx_ncob_ecob
  <2> QED
    BY <2>1, <2>2, <2>3, <2>4, <2>5, <2>6, <2>7, <2>8, <2>9, <2>10, <2>11, <2>12
    DEF Types, imagettes
<1> QED
  BY <1>1, <1>2

-----------------------------------------------------------------------------
(* Samples *)

\* n samples of a data type.
Samples(t, n) == [1 .. n -> [Members(t) -> Int]]

\* Turning the bytes of the members round twice gives the samples back.
LEMMA TurnTwice ==
  ASSUME NEW cpu, NEW t, NEW n \in Nat, NEW data \in Samples(t, n), NEW fields
  PROVE  Turn(cpu, Turn(cpu, data, fields), fields) = data
<1>1. CASE cpu = "big"
  BY <1>1 DEF Turn
<1>2. CASE cpu # "big"
  <2> DEFINE one == Turn(cpu, data, fields)
             two == Turn(cpu, one, fields)
  <2>1. DOMAIN data = 1 .. n /\ \A j \in 1 .. n : data[j] \in [Members(t) -> Int]
    BY DEF Samples
  <2>2. /\ DOMAIN one = 1 .. n
        /\ \A j \in 1 .. n : one[j] = [f \in Members(t) |->
              IF f \in fields THEN Swapped(data[j][f]) ELSE data[j][f]]
    BY <1>2, <2>1 DEF Turn
  <2>3. /\ DOMAIN two = 1 .. n
        /\ \A j \in 1 .. n : two[j] = [f \in DOMAIN one[j] |->
              IF f \in fields THEN Swapped(one[j][f]) ELSE one[j][f]]
        /\ two = [j \in DOMAIN one |-> two[j]]
    BY <1>2, <2>2 DEF Turn
  <2>4. ASSUME NEW j \in 1 .. n PROVE two[j] = data[j]
    <3>1. DOMAIN one[j] = Members(t)
      BY <2>2
    <3>2. \A f \in Members(t) : data[j][f] \in Int /\ two[j][f] = data[j][f]
      BY <2>1, <2>2, <2>3, <3>1 DEF Swapped
    <3>3. two[j] = [f \in Members(t) |-> two[j][f]]
      BY <2>3, <3>1
    <3>4. data[j] = [f \in Members(t) |-> data[j][f]]
      BY <2>1
    <3> QED
      BY <3>2, <3>3, <3>4
  <2>5. two = [j \in 1 .. n |-> two[j]]
    BY <2>2, <2>3
  <2>6. data = [j \in 1 .. n |-> data[j]]
    BY DEF Samples
  <2> HIDE DEF two
  <2>7. two = data
    BY <2>4, <2>5, <2>6
  <2> QED
    BY <1>2, <2>7 DEF two, one
<1> QED
  BY <1>1, <1>2

\* What is copied into the entity or out of it is what was there.
LEMMA ConvertedIsThere ==
  ASSUME NEW cpu, NEW t \in Types, NEW n \in Nat, NEW data \in Samples(t, n)
  PROVE  Converted(cpu, data, t) = data
<1>1. Turned(t) = WideMembers(t)
  BY ConversionFits
<1> QED
  BY <1>1, TurnTwice DEF Converted

\* A configuration, as far as its mode and parameters are concerned.
Cfg(c) ==
  /\ c.cmp_mode \in Nat /\ c.model_value \in Nat /\ c.round \in Nat
  /\ c.par \in [Pair -> Nat] /\ c.spill \in [Pair -> Nat]

\* Rounding what was rounded changes nothing.
LEMMA RoundingTypes ==
  ASSUME NEW c, c.round \in 0 .. 3, NEW v \in Int
  PROVE  /\ RoundFwd(c, v) \in Int /\ RoundInv(c, v) \in Int
         /\ RoundFwd(c, RoundInv(c, v)) = v
<1>1. CASE c.round = 0
  BY <1>1 DEF RoundFwd, RoundInv
<1>2. CASE c.round = 1
  BY <1>2 DEF RoundFwd, RoundInv
<1>3. CASE c.round = 2
  BY <1>3 DEF RoundFwd, RoundInv
<1>4. CASE c.round = 3
  BY <1>4 DEF RoundFwd, RoundInv
<1> QED
  BY <1>1, <1>2, <1>3, <1>4

\* What the ground will have of samples.
LossySamples(c, data) ==
  [j \in DOMAIN data |-> [f \in DOMAIN data[j] |-> RoundInv(c, RoundFwd(c, data[j][f]))]]

\* The samples of the ground: every value rounded.
LEMMA LossyTypes ==
  ASSUME NEW c, c.round \in 0 .. 3, NEW t, NEW n \in Nat, NEW data \in Samples(t, n)
  PROVE  /\ LossySamples(c, data) \in Samples(t, n)
         /\ \A j \in 1 .. n : \A f \in Members(t) :
              LossySamples(c, data)[j][f] = RoundInv(c, RoundFwd(c, data[j][f]))
<1>1. DOMAIN data = 1 .. n /\ \A j \in 1 .. n : data[j] \in [Members(t) -> Int]
  BY DEF Samples
<1>2. \A j \in 1 .. n : DOMAIN data[j] = Members(t) /\ \A f \in Members(t) : data[j][f] \in Int
  BY <1>1
<1>3. \A v \in Int : RoundInv(c, RoundFwd(c, v)) \in Int
  BY RoundingTypes
<1>4. \A j \in 1 .. n : LossySamples(c, data)[j] =
                 [f \in Members(t) |-> RoundInv(c, RoundFwd(c, data[j][f]))]
  BY <1>1, <1>2 DEF LossySamples
<1>5. \A j \in 1 .. n : LossySamples(c, data)[j] \in [Members(t) -> Int]
  BY <1>2, <1>3, <1>4
<1> QED
  BY <1>1, <1>4, <1>5 DEF LossySamples, Samples

\* Without rounding it is the samples.
LEMMA Lossless ==
  ASSUME NEW c, c.round = 0, NEW t, NEW n \in Nat, NEW data \in Samples(t, n)
  PROVE  LossySamples(c, data) = data
<1>1. \A v \in Int : RoundInv(c, RoundFwd(c, v)) = v
  BY DEF RoundInv, RoundFwd
<1>2. DOMAIN data = 1 .. n /\ data = [j \in 1 .. n |-> data[j]]
      /\ \A j \in 1 .. n : data[j] \in [Members(t) -> Int]
  BY DEF Samples
<1>3. ASSUME NEW j \in 1 .. n PROVE LossySamples(c, data)[j] = data[j]
  <2>1. DOMAIN data[j] = Members(t) /\ data[j] = [f \in Members(t) |-> data[j][f]]
        /\ \A f \in Members(t) : data[j][f] \in Int
    BY <1>2
  <2>2. LossySamples(c, data)[j] = [f \in Members(t) |-> RoundInv(c, RoundFwd(c, data[j][f]))]
    BY <1>2, <2>1 DEF LossySamples
  <2> QED
    BY <1>1, <2>1, <2>2
<1>4. LossySamples(c, data) = [j \in 1 .. n |-> LossySamples(c, data)[j]]
  BY <1>2 DEF LossySamples
<1> QED
  BY <1>2, <1>3, <1>4

\* An updated model is a model.
LEMMA UpModelsTypes ==
  ASSUME NEW c, c.round \in 0 .. 3, c.model_value \in Nat, NEW t, NEW n \in Nat,
         NEW data \in Samples(t, n), NEW model \in Samples(t, n)
  PROVE  UpModels(c, data, model) \in Samples(t, n)
<1>1. DOMAIN data = 1 .. n
      /\ \A j \in 1 .. n : data[j] \in [Members(t) -> Int] /\ model[j] \in [Members(t) -> Int]
  BY DEF Samples
<1>2. \A d, m \in Int : UpModel(c, d, m) \in Int
  <2>1. \A d \in Int : RoundInv(c, RoundFwd(c, d)) \in Int
    BY RoundingTypes
  <2> QED
    BY <2>1 DEF UpModel, MAX_MODEL_VALUE
<1>3. \A j \in 1 .. n : UpSample(c, data[j], model[j]) \in [Members(t) -> Int]
  BY <1>1, <1>2 DEF UpSample
<1> QED
  BY <1>1, <1>3 DEF UpModels, Samples

\* The decoder updates the model as the encoder does.
LEMMA UpModelsAgree ==
  ASSUME NEW c, NEW d, c.round \in 0 .. 3, d.round = c.round, d.model_value = c.model_value,
         NEW t, NEW n \in Nat, NEW data \in Samples(t, n), NEW model
  PROVE  UpModels(d, LossySamples(c, data), model) = UpModels(c, data, model)
<1>1. \A v \in Int : RoundFwd(c, v) \in Int
                     /\ RoundFwd(c, RoundInv(c, RoundFwd(c, v))) = RoundFwd(c, v)
  BY RoundingTypes
<1>2. \A v : RoundFwd(d, v) = RoundFwd(c, v) /\ RoundInv(d, v) = RoundInv(c, v)
  BY DEF RoundFwd, RoundInv
<1>3. \A v \in Int : \A m :
        UpModel(d, RoundInv(c, RoundFwd(c, v)), m) = UpModel(c, v, m)
  BY <1>1, <1>2 DEF UpModel
<1>4. DOMAIN data = 1 .. n
      /\ \A j \in 1 .. n : DOMAIN data[j] = Members(t)
                           /\ \A f \in Members(t) : data[j][f] \in Int
  BY DEF Samples
<1>5. LossySamples(c, data) \in Samples(t, n)
      /\ \A j \in 1 .. n : \A f \in Members(t) :
           LossySamples(c, data)[j][f] = RoundInv(c, RoundFwd(c, data[j][f]))
  BY LossyTypes
<1> DEFINE lossy == LossySamples(c, data)
<1>6. DOMAIN lossy = 1 .. n /\ \A j \in 1 .. n : DOMAIN lossy[j] = Members(t)
  BY <1>5 DEF Samples
<1>7. \A j \in 1 .. n : \A f \in Members(t) : lossy[j][f] = RoundInv(c, RoundFwd(c, data[j][f]))
  BY <1>5
<1> HIDE DEF lossy
<1>8. ASSUME NEW j \in 1 .. n
      PROVE  UpSample(d, lossy[j], model[j]) = UpSample(c, data[j], model[j])
  BY <1>3, <1>4, <1>6, <1>7 DEF UpSample
<1>9. UpModels(d, lossy, model) = UpModels(c, data, model)
  BY <1>4, <1>6, <1>8 DEF UpModels
<1> QED
  BY <1>9 DEF lossy

-----------------------------------------------------------------------------
(* Code words *)

\* A sequence with a value behind it, as a function.
LEMMA AppendIs ==
  ASSUME NEW n \in Nat, NEW s, s = [x \in 1 .. n |-> s[x]], Len(s) = n, NEW v
  PROVE  Append(s, v) = [x \in 1 .. n + 1 |-> IF x <= n THEN s[x] ELSE v]
<1> DEFINE S == {s[x] : x \in 1 .. n} \cup {v}
<1>1. s \in [1 .. n -> S] /\ v \in S
  OBVIOUS
<1> HIDE DEF S
<1>2. s \in Seq(S)
  BY <1>1
<1> QED
  BY <1>1, <1>2

\* The code word of field number e of sample j.
CodeWordOf(c, t, data, model, j, e) ==
  [setup |-> Setup(c, Encoder(t)[e]),
   delta |-> RoundFwd(c, data[j][Encoder(t)[e].field])
             - RoundFwd(c, ModelOf(c, data, model, j, Encoder(t)[e].field))]

\* The code words of all samples, one sample behind the other.
LEMMA EncodeForm ==
  ASSUME NEW c, NEW t \in Types, NEW n \in Nat, NEW data \in Samples(t, n), NEW model
  PROVE  /\ Len(Encoder(t)) \in Nat \ {0} /\ n * Len(Encoder(t)) \in Nat
         /\ Encode(c, t, data, model) =
              [q \in 1 .. n * Len(Encoder(t)) |->
                 CodeWordOf(c, t, data, model, ((q - 1) \div Len(Encoder(t))) + 1,
                       ((q - 1) % Len(Encoder(t))) + 1)]
<1>1. Len(Encoder(t)) \in Nat \ {0}
  BY EncoderOrder DEF Order
<1>2. Len(data) = n /\ DOMAIN data = 1 .. n
  BY DEF Samples
<1>3. n * Len(Encoder(t)) \in Nat
  BY <1>1, Products
<1> QED
  BY <1>1, <1>2, <1>3 DEF Encode, CodeWordOf

\* The place of the code word of each member of each sample.
LEMMA EncodeIs ==
  ASSUME NEW c, NEW t \in Types, NEW n \in Nat, NEW data \in Samples(t, n), NEW model
  PROVE  /\ DOMAIN Encode(c, t, data, model) = 1 .. n * Len(Encoder(t))
         /\ Len(Encode(c, t, data, model)) = n * Len(Encoder(t))
         /\ \A j \in 1 .. n, e \in 1 .. Len(Encoder(t)) :
              /\ (j - 1) * Len(Encoder(t)) + e \in 1 .. n * Len(Encoder(t))
              /\ Encode(c, t, data, model)[(j - 1) * Len(Encoder(t)) + e] =
                   CodeWordOf(c, t, data, model, j, e)
<1> DEFINE L == Len(Encoder(t))
           words == Encode(c, t, data, model)
<1>1. L \in Nat \ {0} /\ n * L \in Nat
  BY EncodeForm
<1>2. words = [q \in 1 .. n * L |-> CodeWordOf(c, t, data, model, ((q - 1) \div L) + 1, ((q - 1) % L) + 1)]
  BY EncodeForm
<1> HIDE DEF L, words
<1>3. DOMAIN words = 1 .. n * L /\ Len(words) = n * L
  BY <1>1, <1>2
<1>4. ASSUME NEW j \in 1 .. n, NEW e \in 1 .. L
      PROVE  (j - 1) * L + e \in 1 .. n * L
             /\ words[(j - 1) * L + e] = CodeWordOf(c, t, data, model, j, e)
  <2>1. j - 1 \in Nat /\ e - 1 \in 0 .. L - 1 /\ L \in Nat \ {0}
    BY <1>1
  <2>2. PICK x \in Nat : x = (j - 1) * L
    BY <1>1, <2>1, Products
  <2>3. (j - 1) * L + L <= n * L
    BY <1>1, <2>1, Products
  <2>4. x + e \in 1 .. n * L
    BY <1>1, <2>2, <2>3
  <2>5. ((j - 1) * L + (e - 1)) \div L = j - 1 /\ ((j - 1) * L + (e - 1)) % L = e - 1
    <3>1. PICK a \in Int, r \in 0 .. L - 1 : a = j - 1 /\ r = e - 1
      BY <2>1
    <3>2. (a * L + r) \div L = a /\ (a * L + r) % L = r
      BY <2>1, DivModUnique
    <3> QED
      BY <3>1, <3>2
  <2>6. (x + e) - 1 = x + (e - 1)
    BY <2>2
  <2>7. (((x + e) - 1) \div L) + 1 = j /\ (((x + e) - 1) % L) + 1 = e
    BY <2>2, <2>5, <2>6
  <2> QED
    BY <1>2, <2>2, <2>4, <2>7
<1> QED
  BY <1>3, <1>4 DEF L, words

\* Nothing but the samples is encoded.
LEMMA EncodedWords ==
  ASSUME NEW c, NEW t \in Types, NEW n \in Nat, NEW data \in Samples(t, n), NEW model,
         NEW q \in DOMAIN Encode(c, t, data, model)
  PROVE  \E j \in 1 .. n, e \in 1 .. Len(Encoder(t)) :
           Encode(c, t, data, model)[q] = CodeWordOf(c, t, data, model, j, e)
<1> DEFINE L == Len(Encoder(t))
           words == Encode(c, t, data, model)
<1>1. L \in Nat \ {0} /\ n * L \in Nat
  BY EncodeForm
<1>2. words = [x \in 1 .. n * L |-> CodeWordOf(c, t, data, model, ((x - 1) \div L) + 1, ((x - 1) % L) + 1)]
  BY EncodeForm
<1>3. q \in DOMAIN words
  OBVIOUS
<1> HIDE DEF L, words
<1>4. q \in 1 .. n * L
  BY <1>2, <1>3
<1>5. PICK y \in Nat : y = (q - 1) \div L
  BY <1>1, <1>4, Division
<1>6. (q - 1) % L \in 0 .. L - 1 /\ q - 1 = y * L + ((q - 1) % L)
  BY <1>1, <1>4, <1>5, Division
<1>7. y * L \in Nat /\ y * L < n * L
  BY <1>1, <1>4, <1>5, <1>6, Products
<1>8. y < n
  BY <1>1, <1>5, <1>7, Products
<1>9. y + 1 \in 1 .. n /\ ((q - 1) % L) + 1 \in 1 .. L
  BY <1>1, <1>5, <1>6, <1>8
<1>10. \E j \in 1 .. n, e \in 1 .. L : words[q] = CodeWordOf(c, t, data, model, j, e)
  BY <1>2, <1>4, <1>5, <1>9
<1> QED
  BY <1>10 DEF L, words

\* Two configurations that code the samples of a type alike.
Alike(c, d, t) ==
  /\ d.cmp_mode = c.cmp_mode /\ d.round = c.round
  /\ \A k \in CheckedPars(t) : d.par[k] = c.par[k] /\ d.spill[k] = c.spill[k]

\* A decoder of the other configuration.
Value(d, t, words, model, before, j, f) ==
  LET order == Decoder(t)
      e == CHOOSE e \in DOMAIN order : order[e].field = f
      w == words[(j - 1) * Len(order) + e]
  IN  IF w.setup = Setup(d, order[e])
      THEN RoundInv(d, w.delta + RoundFwd(d, ModelOf(d, before, model, j, f)))
      ELSE Garbage

\* A decoder reads the rounded residual and adds its own model.
LEMMA ValueIs ==
  ASSUME NEW c, NEW d, NEW t \in Types, Alike(c, d, t),
         NEW n \in Nat, NEW data \in Samples(t, n), NEW m, NEW model, NEW before,
         NEW j \in 1 .. n, NEW f \in Members(t)
  PROVE  Value(d, t, Encode(c, t, data, m), model, before, j, f) =
           RoundInv(c, (RoundFwd(c, data[j][f]) - RoundFwd(c, ModelOf(c, data, m, j, f)))
                       + RoundFwd(c, ModelOf(c, before, model, j, f)))
<1> DEFINE order == Encoder(t)
           e == CHOOSE e \in DOMAIN order : order[e].field = f
           words == Encode(c, t, data, m)
<1>1. Order(order, Members(t), CheckedPars(t)) /\ Decoder(t) = order
  BY EncoderOrder, DecoderOrder
<1>2. DOMAIN order = 1 .. Len(order) /\ Len(order) \in Nat
  BY <1>1 DEF Order
<1>3. e \in 1 .. Len(order) /\ order[e].field = f
  BY <1>1, <1>2 DEF Order
<1>4. order[e].pair \in CheckedPars(t)
  BY <1>1, <1>3 DEF Order
<1>5. words[(j - 1) * Len(order) + e] = CodeWordOf(c, t, data, m, j, e)
  <2>1. \A x \in 1 .. n, y \in 1 .. Len(order) :
          words[(x - 1) * Len(order) + y] = CodeWordOf(c, t, data, m, x, y)
    BY EncodeIs
  <2> HIDE DEF words, e
  <2> QED
    BY <1>3, <2>1
<1>6. Setup(d, order[e]) = Setup(c, order[e])
  BY <1>4 DEF Setup, Alike
<1>7. \A v : RoundFwd(d, v) = RoundFwd(c, v) /\ RoundInv(d, v) = RoundInv(c, v)
  BY DEF RoundFwd, RoundInv, Alike
<1>8. ModelOf(d, before, model, j, f) = ModelOf(c, before, model, j, f)
  BY DEF ModelOf, Alike
<1> HIDE DEF words
<1>9. Value(d, t, words, model, before, j, f) =
        IF CodeWordOf(c, t, data, m, j, e).setup = Setup(d, order[e])
        THEN RoundInv(d, CodeWordOf(c, t, data, m, j, e).delta
                         + RoundFwd(d, ModelOf(d, before, model, j, f)))
        ELSE Garbage
  BY <1>1, <1>5 DEF Value
<1>10. /\ CodeWordOf(c, t, data, m, j, e).setup = Setup(c, order[e])
       /\ CodeWordOf(c, t, data, m, j, e).delta =
            RoundFwd(c, data[j][f]) - RoundFwd(c, ModelOf(c, data, m, j, f))
  BY <1>3 DEF CodeWordOf
<1> QED
  BY <1>6, <1>7, <1>8, <1>9, <1>10 DEF words

\* What the decoder makes of every sample, with those before it.
Yields(d, t, words, model, n, target) ==
  /\ DOMAIN target = 1 .. n /\ target = [j \in 1 .. n |-> target[j]]
  /\ \A j \in 1 .. n :
       target[j] = [f \in Members(t) |->
                      Value(d, t, words, model, [x \in 1 .. j - 1 |-> target[x]], j, f)]

\* A decoder that finds each sample from those before it gives them all.
LEMMA DecodeIs ==
  ASSUME NEW d, NEW t, NEW words, NEW model, NEW n \in Nat, NEW target,
         Yields(d, t, words, model, n, target)
  PROVE  Decode(d, t, words, model, n) = target
<1>0. /\ DOMAIN target = 1 .. n /\ target = [j \in 1 .. n |-> target[j]]
      /\ \A j \in 1 .. n :
           target[j] = [f \in Members(t) |->
                          Value(d, t, words, model, [x \in 1 .. j - 1 |-> target[x]], j, f)]
  BY Zenon DEF Yields
<1> DEFINE Rec(g) == g = [j \in 0 .. n |->
             IF j = 0 THEN <<>>
             ELSE Append(g[j - 1],
                         [f \in Members(t) |-> Value(d, t, words, model, g[j - 1], j, f)])]
           first == [j \in 0 .. n |-> [x \in 1 .. j |-> target[x]]]
<1>1. \A j \in 0 .. n : first[j] = [x \in 1 .. j |-> target[x]]
  OBVIOUS
<1>2. first[0] = <<>>
  BY <1>1
<1>3. ASSUME NEW j \in 1 .. n
      PROVE  first[j] = Append(first[j - 1], target[j])
             /\ target[j] = [f \in Members(t) |-> Value(d, t, words, model, first[j - 1], j, f)]
  <2>1. j - 1 \in 0 .. n /\ j \in 0 .. n /\ j - 1 \in Nat
    OBVIOUS
  <2>2. first[j - 1] = [x \in 1 .. j - 1 |-> target[x]] /\ first[j] = [x \in 1 .. j |-> target[x]]
    BY <1>1, <2>1
  <2>3. Len(first[j - 1]) = j - 1
    BY <2>1, <2>2
  <2>4. Append(first[j - 1], target[j]) =
          [x \in 1 .. (j - 1) + 1 |-> IF x <= j - 1 THEN first[j - 1][x] ELSE target[j]]
    <3>1. \A q, v : q = [x \in 1 .. j - 1 |-> q[x]] /\ Len(q) = j - 1 =>
                    Append(q, v) = [x \in 1 .. (j - 1) + 1 |-> IF x <= j - 1 THEN q[x] ELSE v]
      BY <2>1, AppendIs
    <3> QED
      BY <2>2, <2>3, <3>1
  <2>5. [x \in 1 .. (j - 1) + 1 |-> IF x <= j - 1 THEN first[j - 1][x] ELSE target[j]] =
        [x \in 1 .. j |-> target[x]]
    BY <2>1, <2>2
  <2>6. target[j] = [f \in Members(t) |-> Value(d, t, words, model, first[j - 1], j, f)]
    BY <1>0, <2>2
  <2> QED
    BY <2>2, <2>4, <2>5, <2>6
<1> HIDE DEF first
<1>4. Rec(first)
  <2>1. DOMAIN first = 0 .. n /\ first = [j \in 0 .. n |-> first[j]]
    BY DEF first
  <2>2. ASSUME NEW j \in 0 .. n
        PROVE first[j] = IF j = 0 THEN <<>>
             ELSE Append(first[j - 1],
                         [f \in Members(t) |-> Value(d, t, words, model, first[j - 1], j, f)])
    <3>1. CASE j = 0
      BY <1>2, <3>1
    <3>2. CASE j # 0
      <4>1. j \in 1 .. n
        BY <3>2
      <4> QED
        BY <1>3, <3>2, <4>1
    <3> QED
      BY <3>1, <3>2
  <2> QED
    BY <2>1, <2>2
<1>5. ASSUME NEW g, Rec(g) PROVE g[n] = first[n]
  <2> DEFINE T == {j \in Nat : j <= n => g[j] = first[j]}
  <2>1. 0 \in T
    <3>1. 0 \in 0 .. n
      OBVIOUS
    <3> QED
      BY <1>2, <1>5, <3>1
  <2>2. ASSUME NEW j \in T PROVE j + 1 \in T
    <3> SUFFICES ASSUME j + 1 <= n PROVE g[j + 1] = first[j + 1]
      OBVIOUS
    <3>1. j \in Nat /\ j + 1 \in 1 .. n /\ (j + 1) - 1 = j /\ j + 1 \in 0 .. n /\ j + 1 # 0
      OBVIOUS
    <3>2. g[j] = first[j]
      BY <3>1
    <3>3. g[j + 1] = Append(g[j], [f \in Members(t) |-> Value(d, t, words, model, g[j], j + 1, f)])
      BY <1>5, <3>1
    <3>4. first[j + 1] = Append(first[j], target[j + 1])
          /\ target[j + 1] = [f \in Members(t) |->
                                Value(d, t, words, model, first[j], j + 1, f)]
      BY <1>3, <3>1
    <3> QED
      BY <3>2, <3>3, <3>4
  <2>3. T = Nat
    <3> HIDE DEF T
    <3>1. T \in SUBSET Nat
      BY DEF T
    <3> QED
      BY <2>1, <2>2, <3>1, Induction
  <2> QED
    BY <2>3
<1>6. \E g : Rec(g)
  BY <1>4
<1>7. Rec(CHOOSE g : Rec(g))
  BY <1>6
<1>8. Decode(d, t, words, model, n) = (CHOOSE g : Rec(g))[n]
  BY DEF Decode, Value
<1>9. first[n] = target
  BY <1>0 DEF first
<1> QED
  BY <1>5, <1>7, <1>8, <1>9

\* What was encoded with a model is decoded with this model.
LEMMA DecodeInverse ==
  ASSUME NEW c, NEW d, NEW t \in Types, Alike(c, d, t), c.round \in 0 .. 3,
         NEW n \in Nat, NEW data \in Samples(t, n), NEW m \in Samples(t, n)
  PROVE  Decode(d, t, Encode(c, t, data, m), m, n) = LossySamples(c, data)
<1> DEFINE words == Encode(c, t, data, m)
           target == LossySamples(c, data)
<1>1. /\ target \in Samples(t, n)
      /\ \A j \in 1 .. n : \A f \in Members(t) : target[j][f] = RoundInv(c, RoundFwd(c, data[j][f]))
  BY LossyTypes
<1>2. \A j \in 1 .. n : \A f \in Members(t) : data[j][f] \in Int /\ m[j][f] \in Int
  BY DEF Samples
<1>3. \A v \in Int : RoundFwd(c, v) \in Int /\ RoundInv(c, v) \in Int
                     /\ RoundFwd(c, RoundInv(c, RoundFwd(c, v))) = RoundFwd(c, v)
  BY RoundingTypes
<1>4. \A j \in 1 .. n : \A f \in Members(t) : \A before :
        Value(d, t, words, m, before, j, f) =
          RoundInv(c, (RoundFwd(c, data[j][f]) - RoundFwd(c, ModelOf(c, data, m, j, f)))
                      + RoundFwd(c, ModelOf(c, before, m, j, f)))
  BY ValueIs
<1> HIDE DEF words, target
<1>5. ASSUME NEW j \in 1 .. n, NEW f \in Members(t)
      PROVE  Value(d, t, words, m, [x \in 1 .. j - 1 |-> target[x]], j, f) = target[j][f]
  <2> DEFINE before == [x \in 1 .. j - 1 |-> target[x]]
  <2>1. /\ ModelOf(c, data, m, j, f) \in Int
        /\ RoundFwd(c, ModelOf(c, before, m, j, f)) = RoundFwd(c, ModelOf(c, data, m, j, f))
    <3>1. CASE model_mode_is_used(c.cmp_mode)
      BY <1>2, <3>1 DEF ModelOf
    <3>2. CASE ~ model_mode_is_used(c.cmp_mode) /\ j = 1
      BY <3>2 DEF ModelOf
    <3>3. CASE ~ model_mode_is_used(c.cmp_mode) /\ j # 1
      <4>1. j - 1 \in 1 .. n /\ j - 1 \in 1 .. j - 1
        BY <3>3
      <4>2. before[j - 1] = target[j - 1]
        BY <4>1
      <4> HIDE DEF before
      <4>3. /\ ModelOf(c, data, m, j, f) = data[j - 1][f]
            /\ ModelOf(c, before, m, j, f) = before[j - 1][f]
        BY <3>3 DEF ModelOf
      <4> QED
        BY <1>1, <1>2, <1>3, <4>1, <4>2, <4>3
    <3> QED
      BY <3>1, <3>2, <3>3
  <2> HIDE DEF before
  <2>2. RoundFwd(c, data[j][f]) \in Int /\ RoundFwd(c, ModelOf(c, data, m, j, f)) \in Int
    BY <1>2, <1>3, <2>1
  <2>3. (RoundFwd(c, data[j][f]) - RoundFwd(c, ModelOf(c, data, m, j, f)))
          + RoundFwd(c, ModelOf(c, before, m, j, f)) = RoundFwd(c, data[j][f])
    BY <2>1, <2>2
  <2>4. Value(d, t, words, m, before, j, f) = target[j][f]
    BY <1>1, <1>4, <2>3
  <2> QED
    BY <2>4 DEF before
<1>6. \A j \in 1 .. n : target[j] = [f \in Members(t) |-> target[j][f]]
  BY <1>1 DEF Samples
<1>7. DOMAIN target = 1 .. n /\ target = [j \in 1 .. n |-> target[j]]
  BY <1>1 DEF Samples
<1>8. \A j \in 1 .. n : target[j] = [f \in Members(t) |->
          Value(d, t, words, m, [x \in 1 .. j - 1 |-> target[x]], j, f)]
  <2> SUFFICES ASSUME NEW j \in 1 .. n
               PROVE  target[j] = [f \in Members(t) |->
                        Value(d, t, words, m, [x \in 1 .. j - 1 |-> target[x]], j, f)]
    OBVIOUS
  <2>1. PICK before : before = [x \in 1 .. j - 1 |-> target[x]]
    OBVIOUS
  <2>2. \A f \in Members(t) : Value(d, t, words, m, before, j, f) = target[j][f]
    BY <1>5, <2>1
  <2>3. target[j] = [f \in Members(t) |-> Value(d, t, words, m, before, j, f)]
    BY <1>6, <2>2
  <2> QED
    BY <2>1, <2>3
<1>9. Yields(d, t, words, m, n, target)
  BY <1>7, <1>8, Zenon DEF Yields
<1>10. Decode(d, t, words, m, n) = target
  BY <1>9, DecodeIs
<1> QED
  BY <1>10 DEF words, target

\* Outside model mode no model is used.
LEMMA EncodeNoModel ==
  ASSUME NEW c, ~ model_mode_is_used(c.cmp_mode), NEW t, NEW data, NEW m1, NEW m2
  PROVE  Encode(c, t, data, m1) = Encode(c, t, data, m2)
BY DEF Encode, ModelOf

\* Whatever model is used, samples are decoded.
LEMMA DecodeTypes ==
  ASSUME NEW c, NEW d, NEW t \in Types, Alike(c, d, t), c.round \in 0 .. 3,
         NEW n \in Nat, NEW data \in Samples(t, n), NEW m1 \in Samples(t, n),
         NEW m2 \in Samples(t, n)
  PROVE  Decode(d, t, Encode(c, t, data, m1), m2, n) \in Samples(t, n)
<1>1. CASE ~ model_mode_is_used(c.cmp_mode)
  <2>1. Encode(c, t, data, m1) = Encode(c, t, data, m2)
    BY <1>1, EncodeNoModel
  <2>2. Decode(d, t, Encode(c, t, data, m2), m2, n) = LossySamples(c, data)
    BY DecodeInverse
  <2> QED
    BY <2>1, <2>2, LossyTypes
<1>2. CASE model_mode_is_used(c.cmp_mode)
  <2> DEFINE words == Encode(c, t, data, m1)
             v(j, f) == RoundInv(c, (RoundFwd(c, data[j][f]) - RoundFwd(c, m1[j][f]))
                                    + RoundFwd(c, m2[j][f]))
             target == [j \in 1 .. n |-> [f \in Members(t) |-> v(j, f)]]
  <2>1. \A j \in 1 .. n : \A f \in Members(t) :
          data[j][f] \in Int /\ m1[j][f] \in Int /\ m2[j][f] \in Int
    BY DEF Samples
  <2>2. \A x \in Int : RoundFwd(c, x) \in Int /\ RoundInv(c, x) \in Int
    BY RoundingTypes
  <2>3. \A j \in 1 .. n : \A f \in Members(t) : v(j, f) \in Int
    BY <2>1, <2>2
  <2>4. \A j \in 1 .. n : \A f \in Members(t) : \A before :
          Value(d, t, words, m2, before, j, f) = v(j, f)
    <3> SUFFICES ASSUME NEW j \in 1 .. n, NEW f \in Members(t), NEW before
                 PROVE  Value(d, t, words, m2, before, j, f) = v(j, f)
      OBVIOUS
    <3>1. ModelOf(c, data, m1, j, f) = m1[j][f] /\ ModelOf(c, before, m2, j, f) = m2[j][f]
      BY <1>2 DEF ModelOf
    <3>2. Value(d, t, words, m2, before, j, f) =
          RoundInv(c, (RoundFwd(c, data[j][f]) - RoundFwd(c, ModelOf(c, data, m1, j, f)))
                      + RoundFwd(c, ModelOf(c, before, m2, j, f)))
      BY ValueIs
    <3> QED
      BY <3>1, <3>2
  <2> HIDE DEF words, v
  <2>5. target \in Samples(t, n)
    BY <2>3 DEF Samples
  <2>6. /\ DOMAIN target = 1 .. n /\ target = [j \in 1 .. n |-> target[j]]
        /\ \A j \in 1 .. n : target[j] = [f \in Members(t) |-> v(j, f)]
    OBVIOUS
  <2>7. \A j \in 1 .. n : target[j] = [f \in Members(t) |->
          Value(d, t, words, m2, [x \in 1 .. j - 1 |-> target[x]], j, f)]
    <3> SUFFICES ASSUME NEW j \in 1 .. n
                 PROVE  target[j] = [f \in Members(t) |->
                        Value(d, t, words, m2, [x \in 1 .. j - 1 |-> target[x]], j, f)]
      OBVIOUS
    <3>1. PICK before : before = [x \in 1 .. j - 1 |-> target[x]]
      OBVIOUS
    <3>2. \A f \in Members(t) : Value(d, t, words, m2, before, j, f) = v(j, f)
      BY <2>4
    <3>3. target[j] = [f \in Members(t) |-> Value(d, t, words, m2, before, j, f)]
      BY <2>6, <3>2
    <3> QED
      BY <3>1, <3>3
  <2> HIDE DEF target
  <2>8. Yields(d, t, words, m2, n, target)
    BY <2>6, <2>7, Zenon DEF Yields
  <2>9. Decode(d, t, words, m2, n) = target
    BY <2>8, DecodeIs
  <2> QED
    BY <2>5, <2>9 DEF words
<1> QED
  BY <1>1, <1>2

\* The decoder finds all of them.
LEMMA LongEnough ==
  ASSUME NEW c, NEW t \in Types, NEW n \in Nat, NEW data \in Samples(t, n), NEW m
  PROVE  ~ TooShort(t, Encode(c, t, data, m), n)
<1>1. Len(Encode(c, t, data, m)) = n * Len(Encoder(t))
  BY EncodeIs
<1>2. Len(Encoder(t)) \in Nat
  BY EncoderOrder DEF Order
<1>3. n * Len(Encoder(t)) \in Nat
  BY <1>2, Products
<1> QED
  BY <1>1, <1>3, DecoderOrder DEF TooShort

\* Every code word has parameters that were checked.
LEMMA EncodeChecked ==
  ASSUME NEW c, NEW t \in Types, SpecificValid(c, t), c.cmp_mode # CMP_MODE_RAW,
         NEW n \in Nat, NEW data \in Samples(t, n), NEW m
  PROVE  \A q \in DOMAIN Encode(c, t, data, m) :
           LET w == Encode(c, t, data, m)[q].setup IN ParsAreValid(w.par, w.spill)
<1>1. SUFFICES ASSUME NEW q \in DOMAIN Encode(c, t, data, m)
               PROVE  ParsAreValid(Encode(c, t, data, m)[q].setup.par,
                                   Encode(c, t, data, m)[q].setup.spill)
  OBVIOUS
<1>2. \A x \in DOMAIN Encode(c, t, data, m) :
        \E j \in 1 .. n, e \in 1 .. Len(Encoder(t)) :
          Encode(c, t, data, m)[x] = CodeWordOf(c, t, data, m, j, e)
  BY EncodedWords
<1>3. \E j \in 1 .. n, e \in 1 .. Len(Encoder(t)) :
        Encode(c, t, data, m)[q] = CodeWordOf(c, t, data, m, j, e)
  BY <1>2, Zenon
<1>4. PICK j \in 1 .. n, e \in 1 .. Len(Encoder(t)) :
        Encode(c, t, data, m)[q] = CodeWordOf(c, t, data, m, j, e)
  BY <1>3, Zenon
<1>5. Encoder(t)[e].pair \in CheckedPars(t)
  BY EncoderOrder DEF Order
<1>6. /\ CodeWordOf(c, t, data, m, j, e).setup.par = c.par[Encoder(t)[e].pair]
      /\ CodeWordOf(c, t, data, m, j, e).setup.spill = c.spill[Encoder(t)[e].pair]
  BY DEF CodeWordOf, Setup
<1> QED
  BY <1>4, <1>5, <1>6 DEF SpecificValid

-----------------------------------------------------------------------------
(* The layout of a chunk, for a setting s *)

Count(s) == Len(s.layout)
TypeOf(s, k) == IF s.rdcu THEN "imagette" ELSE convert_subservice_to_cmp_data_type(s.layout[k].sub)
LengthOf(s, k) == s.layout[k].n * size_of_a_sample(TypeOf(s, k))
HeaderOf(s) == IF s.rdcu THEN 0 ELSE COLLECTION_HDR_SIZE

\* f is the offsets of the collections, and the size of the chunk.
IsOffsets(s, f) ==
  /\ f \in [1 .. Count(s) + 1 -> Nat] /\ f[1] = 0
  /\ \A k \in 1 .. Count(s) : f[k + 1] = f[k] + HeaderOf(s) + LengthOf(s, k)
Offsets(s) == CHOOSE f : IsOffsets(s, f)

\* The layout of a chunk: known types, and samples of a size.
LEMMA Layout ==
  ASSUME NEW s \in Settings
  PROVE  /\ Count(s) \in Nat \ {0} /\ DOMAIN s.layout = 1 .. Count(s)
         /\ s.rdcu \in BOOLEAN /\ (s.rdcu => Count(s) = 1)
         /\ \A k \in 1 .. Count(s) :
              /\ s.layout[k].sub \in Nat /\ s.layout[k].n \in Nat
              /\ TypeOf(s, k) \in Types /\ LengthOf(s, k) \in Nat
              /\ size_of_a_sample(TypeOf(s, k)) \in Nat \ {0}
         /\ HeaderOf(s) \in Nat
<1>1. /\ s.layout \in Seq([sub : Nat, n : Nat]) /\ s.layout # <<>> /\ s.rdcu \in BOOLEAN
      /\ s.rdcu => Len(s.layout) = 1
      /\ \A k \in DOMAIN s.layout : cmp_col_get_chunk_type(s.layout[k].sub) # "unknown"
  BY SettingsAssumption
<1>2. Count(s) \in Nat \ {0} /\ DOMAIN s.layout = 1 .. Count(s)
  BY <1>1 DEF Count
<1>3. ASSUME NEW k \in 1 .. Count(s)
      PROVE  /\ s.layout[k].sub \in Nat /\ s.layout[k].n \in Nat
             /\ TypeOf(s, k) \in Types /\ LengthOf(s, k) \in Nat
             /\ size_of_a_sample(TypeOf(s, k)) \in Nat \ {0}
  <2>1. s.layout[k] \in [sub : Nat, n : Nat]
    <3>1. \A q, S : q \in Seq(S) => \A x \in DOMAIN q : q[x] \in S
      OBVIOUS
    <3> QED
      BY <1>1, <1>2, <3>1
  <2>2. s.layout[k].sub \in Nat /\ s.layout[k].n \in Nat
        /\ cmp_col_get_chunk_type(s.layout[k].sub) # "unknown"
    BY <1>1, <1>2, <2>1
  <2>3. TypeOf(s, k) \in Types
    BY <2>2, KnownTypes DEF TypeOf, Types
  <2>4. size_of_a_sample(TypeOf(s, k)) \in Nat \ {0}
    BY <2>3, ConversionFits
  <2> QED
    BY <2>2, <2>3, <2>4, Products DEF LengthOf
<1> QED
  BY <1>1, <1>2, <1>3 DEF HeaderOf, Count, COLLECTION_HDR_SIZE

\* The offsets are the recursion they are written as.
LEMMA OffsetsExist ==
  ASSUME NEW s \in Settings
  PROVE  IsOffsets(s, Offsets(s))
<1> DEFINE step == [x \in Nat |-> [y \in Nat |->
             IF x + 1 \in 1 .. Count(s) THEN y + HeaderOf(s) + LengthOf(s, x + 1) ELSE y]]
<1>1. step \in [Nat -> [Nat -> Nat]]
  BY Layout
<1>2. \A x \in Nat, y \in Nat : x + 1 \in 1 .. Count(s) =>
        step[x][y] = y + HeaderOf(s) + LengthOf(s, x + 1)
  OBVIOUS
<1> HIDE DEF step
<1>3. PICK g : Recursive(g, Nat, 0, step)
  BY <1>1, Recursion DEF Stepping
<1>4. g \in [Nat -> Nat] /\ g[0] = 0 /\ \A x \in Nat : g[x + 1] = step[x][g[x]]
  BY <1>3 DEF Recursive
<1> DEFINE f == [k \in 1 .. Count(s) + 1 |-> g[k - 1]]
<1>5. Count(s) \in Nat
  BY Layout
<1>6. f \in [1 .. Count(s) + 1 -> Nat] /\ f[1] = 0
  <2>1. \A k \in 1 .. Count(s) + 1 : k - 1 \in Nat /\ g[k - 1] \in Nat
    BY <1>4, <1>5
  <2>2. 1 \in 1 .. Count(s) + 1
    BY <1>5
  <2> QED
    BY <1>4, <2>1, <2>2
<1>7. ASSUME NEW k \in 1 .. Count(s) PROVE f[k + 1] = f[k] + HeaderOf(s) + LengthOf(s, k)
  <2>1. k - 1 \in Nat /\ (k - 1) + 1 = k /\ k \in 1 .. Count(s) + 1
        /\ k + 1 \in 1 .. Count(s) + 1 /\ (k + 1) - 1 = k
    BY <1>5
  <2>2. f[k + 1] = g[k] /\ f[k] = g[k - 1]
    BY <2>1
  <2>3. g[k] = step[k - 1][g[k - 1]] /\ g[k - 1] \in Nat
    BY <1>4, <2>1
  <2> QED
    BY <1>2, <2>1, <2>2, <2>3
<1>8. IsOffsets(s, f)
  BY <1>6, <1>7 DEF IsOffsets
<1> QED
  BY <1>8 DEF Offsets

\* A collection ends before the next one begins.
LEMMA OffsetsGrow ==
  ASSUME NEW s \in Settings, NEW k \in 1 .. Count(s), NEW l \in k + 1 .. Count(s) + 1
  PROVE  /\ Offsets(s)[k] \in Nat /\ Offsets(s)[l] \in Nat
         /\ Offsets(s)[k] + HeaderOf(s) + LengthOf(s, k) <= Offsets(s)[l]
<1> DEFINE f == Offsets(s)
           T == {x \in Nat : k + 1 + x <= Count(s) + 1 => f[k + 1] <= f[k + 1 + x]}
<1>1. /\ f \in [1 .. Count(s) + 1 -> Nat]
      /\ \A x \in 1 .. Count(s) : f[x + 1] = f[x] + HeaderOf(s) + LengthOf(s, x)
  BY OffsetsExist DEF IsOffsets
<1>2. Count(s) \in Nat /\ HeaderOf(s) \in Nat /\ \A x \in 1 .. Count(s) : LengthOf(s, x) \in Nat
  BY Layout
<1> HIDE DEF f
<1>3. 0 \in T
  BY <1>1, <1>2
<1>4. ASSUME NEW x \in T PROVE x + 1 \in T
  <2> SUFFICES ASSUME k + 1 + (x + 1) <= Count(s) + 1 PROVE f[k + 1] <= f[k + 1 + (x + 1)]
    OBVIOUS
  <2>1. PICK y \in 1 .. Count(s) : y = k + 1 + x
    BY <1>2
  <2>2. f[k + 1] <= f[y]
    BY <1>2, <2>1
  <2>3. f[y + 1] = f[y] + HeaderOf(s) + LengthOf(s, y) /\ y + 1 = k + 1 + (x + 1)
    BY <1>1, <2>1
  <2>4. f[y] \in Nat /\ f[y + 1] \in Nat /\ f[k + 1] \in Nat
    <3>1. y \in 1 .. Count(s) + 1 /\ y + 1 \in 1 .. Count(s) + 1 /\ k + 1 \in 1 .. Count(s) + 1
      BY <1>2
    <3> QED
      BY <1>1, <3>1
  <2> QED
    BY <1>2, <2>2, <2>3, <2>4
<1>5. T = Nat
  <2> HIDE DEF T
  <2>1. T \in SUBSET Nat
    BY DEF T
  <2> QED
    BY <1>3, <1>4, <2>1, Induction
<1>6. PICK x \in Nat : l = k + 1 + x
  <2>1. l - (k + 1) \in Nat /\ l = k + 1 + (l - (k + 1))
    BY <1>2
  <2> QED
    BY <2>1
<1>7. f[k + 1] <= f[l]
  <2>1. x \in T
    BY <1>5, <1>6
  <2>2. k + 1 + x <= Count(s) + 1
    BY <1>2, <1>6
  <2> QED
    BY <1>6, <2>1, <2>2
<1>8. k \in 1 .. Count(s) + 1 /\ l \in 1 .. Count(s) + 1
  BY <1>2
<1>9. f[k] \in Nat /\ f[l] \in Nat /\ f[k] + HeaderOf(s) + LengthOf(s, k) <= f[l]
  BY <1>1, <1>7, <1>8
<1> QED
  BY <1>9 DEF f

\* Two collections of a chunk start at two places.
LEMMA OffsetsDiffer ==
  ASSUME NEW s \in Settings, NEW k \in 1 .. Count(s), NEW l \in 1 .. Count(s),
         Offsets(s)[k] = Offsets(s)[l]
  PROVE  k = l
<1>1. /\ Count(s) \in Nat /\ HeaderOf(s) \in Nat /\ (s.rdcu => Count(s) = 1)
      /\ \A x \in 1 .. Count(s) : LengthOf(s, x) \in Nat
      /\ (~ s.rdcu => HeaderOf(s) > 0)
  BY Layout DEF HeaderOf, COLLECTION_HDR_SIZE
<1>2. CASE s.rdcu
  BY <1>1, <1>2
<1>3. CASE ~ s.rdcu /\ k < l
  <2>1. l \in k + 1 .. Count(s) + 1
    BY <1>1, <1>3
  <2> QED
    BY <1>1, <1>3, <2>1, OffsetsGrow
<1>4. CASE ~ s.rdcu /\ l < k
  <2>1. k \in l + 1 .. Count(s) + 1
    BY <1>1, <1>4
  <2> QED
    BY <1>1, <1>4, <2>1, OffsetsGrow
<1> QED
  BY <1>1, <1>2, <1>3, <1>4

\* The operator of the model is the offset of the setting.
LEMMA OffsetIs ==
  ASSUME setting \in Settings, NEW k \in 1 .. Count(setting) + 1
  PROVE  Offset(k) = Offsets(setting)[k]
<1> DEFINE f == Offsets(setting)
           Rec(g) == g = [j \in 1 .. k |->
                       IF j = 1 THEN 0 ELSE g[j - 1] + HeaderBytes + Length(j - 1)]
           first == [j \in 1 .. k |-> f[j]]
<1>1. /\ Count(setting) \in Nat /\ f[1] = 0
      /\ \A x \in 1 .. Count(setting) :
           f[x + 1] = f[x] + HeaderOf(setting) + LengthOf(setting, x)
  BY OffsetsExist, Layout DEF IsOffsets
<1>2. HeaderBytes = HeaderOf(setting) /\ \A x : Length(x) = LengthOf(setting, x)
  BY DEF HeaderBytes, HeaderOf, Length, LengthOf, CollectionType, TypeOf
<1> HIDE DEF f
<1>3. ASSUME NEW j \in 1 .. k, j # 1
      PROVE  f[j] = f[j - 1] + HeaderBytes + Length(j - 1) /\ j - 1 \in 1 .. k
  <2>1. PICK x \in 1 .. Count(setting) : j = x + 1
    <3>1. j - 1 \in 1 .. Count(setting) /\ j = (j - 1) + 1
      BY <1>1, <1>3
    <3> QED
      BY <3>1
  <2>2. j - 1 = x /\ j - 1 \in 1 .. k
    BY <2>1
  <2> QED
    BY <1>1, <1>2, <2>1, <2>2
<1>4. Rec(first)
  <2>1. \A j \in 1 .. k : first[j] = f[j]
    OBVIOUS
  <2>2. \A j \in 1 .. k :
          f[j] = IF j = 1 THEN 0 ELSE first[j - 1] + HeaderBytes + Length(j - 1)
    BY <1>1, <1>3, <2>1
  <2> QED
    BY <2>2
<1>5. ASSUME NEW g, Rec(g) PROVE g[k] = f[k]
  <2> DEFINE T == {x \in Nat : x + 1 \in 1 .. k => g[x + 1] = f[x + 1]}
  <2>0. k \in Nat /\ \A j \in 1 .. k : g[j] = IF j = 1 THEN 0 ELSE g[j - 1] + HeaderBytes + Length(j - 1)
    BY <1>1, <1>5
  <2>1. 0 \in T
    BY <1>1, <2>0
  <2>2. ASSUME NEW x \in T PROVE x + 1 \in T
    <3> SUFFICES ASSUME (x + 1) + 1 \in 1 .. k PROVE g[(x + 1) + 1] = f[(x + 1) + 1]
      OBVIOUS
    <3>1. PICK y \in 1 .. k : y = (x + 1) + 1
      OBVIOUS
    <3>2. y # 1 /\ y - 1 = x + 1 /\ x + 1 \in 1 .. k
      BY <2>0, <3>1
    <3> QED
      BY <1>3, <2>0, <3>1, <3>2
  <2>3. T = Nat
    <3> HIDE DEF T
    <3>1. T \in SUBSET Nat
      BY DEF T
    <3> QED
      BY <2>1, <2>2, <3>1, Induction
  <2>4. k - 1 \in Nat /\ (k - 1) + 1 = k /\ k \in 1 .. k
    BY <1>1
  <2> QED
    BY <2>3, <2>4
<1>6. Rec(CHOOSE g : Rec(g))
  BY <1>4
<1>7. Offset(k) = (CHOOSE g : Rec(g))[k]
  BY DEF Offset
<1> QED
  BY <1>5, <1>6, <1>7 DEF f

-----------------------------------------------------------------------------
(* Buffers *)

\* A collection in a buffer.
Column(h, d) == [hdr |-> h, data |-> d]

\* The parts of a collection.
LEMMA ColIs ==
  ASSUME NEW h, NEW d
  PROVE  Column(h, d).hdr = h /\ Column(h, d).data = d
BY DEF Column

\* A function on a domain.
Over(b, D) == DOMAIN b = D /\ b = [o \in D |-> b[o]]

Places(s) == {Offsets(s)[k] : k \in 1 .. Count(s)}
SamplesOf(s, k) == Samples(TypeOf(s, k), s.layout[k].n)

\* Collection k of reading r: its header and its samples.
HdrOf(s, r, k) ==
  IF s.rdcu THEN NoHeader ELSE [sub |-> s.layout[k].sub, len |-> LengthOf(s, k), tag |-> r]
DataOf(s, r, k) ==
  [j \in 1 .. s.layout[k].n |-> [f \in Members(TypeOf(s, k)) |-> Reading(r, k, j, f)]]

\* The samples of the input are samples of the type.
LEMMA DataTyped ==
  ASSUME NEW s \in Settings, NEW r \in 1 .. MaxEntities + 1, NEW k \in 1 .. Count(s)
  PROVE  DataOf(s, r, k) \in SamplesOf(s, k)
<1>1. \A j \in 1 .. s.layout[k].n : \A f \in Members(TypeOf(s, k)) : Reading(r, k, j, f) \in Int
  <2>1. k \in DOMAIN s.layout
    BY Layout
  <2> QED
    BY <2>1, ReadingAssumption DEF TypeOf
<1> QED
  BY <1>1 DEF DataOf, SamplesOf, Samples

\* A chunk of the input, collection by collection.
LEMMA ChunkIs ==
  ASSUME setting \in Settings, NEW r \in 1 .. MaxEntities + 1
  PROVE  /\ Over(Chunk(r), Places(setting))
         /\ \A k \in 1 .. Count(setting) :
              Chunk(r)[Offsets(setting)[k]] =
                Column(HdrOf(setting, r, k), DataOf(setting, r, k))
         /\ ChunkSize = Offsets(setting)[Count(setting) + 1]
<1> DEFINE s == setting
           col(k) == [hdr |-> IF setting.rdcu THEN NoHeader
                              ELSE [sub |-> setting.layout[k].sub, len |-> Length(k), tag |-> r],
                      data |-> [j \in 1 .. setting.layout[k].n |->
                                  [f \in Members(CollectionType(k)) |-> Reading(r, k, j, f)]]]
           at(o) == CHOOSE k \in Collections : Offset(k) = o
<1>1. Count(s) \in Nat \ {0} /\ Collections = 1 .. Count(s)
  BY Layout DEF Collections, Count
<1>2. \A k \in 1 .. Count(s) : Offset(k) = Offsets(s)[k]
  BY <1>1, OffsetIs
<1>3. {Offset(k) : k \in Collections} = Places(s)
  BY <1>1, <1>2 DEF Places
<1>4. Chunk(r) = [o \in Places(s) |-> col(at(o))]
  BY <1>3 DEF Chunk
<1>5. ASSUME NEW k \in 1 .. Count(s) PROVE at(Offsets(s)[k]) = k
  <2>1. at(Offsets(s)[k]) \in 1 .. Count(s) /\ Offset(at(Offsets(s)[k])) = Offsets(s)[k]
    BY <1>1, <1>2
  <2> HIDE DEF at
  <2> QED
    BY <1>2, <2>1, OffsetsDiffer
<1>6. \A k : col(k) = Column(HdrOf(s, r, k), DataOf(s, r, k))
  BY DEF Column, HdrOf, DataOf, Length, LengthOf, CollectionType, TypeOf
<1> HIDE DEF at, col
<1>7. Over(Chunk(r), Places(s))
  BY <1>4 DEF Over
<1>8. ASSUME NEW k \in 1 .. Count(s) PROVE Chunk(r)[Offsets(s)[k]] = col(k)
  BY <1>4, <1>5 DEF Places
<1>9. ChunkSize = Offsets(s)[Count(s) + 1]
  BY <1>1, OffsetIs DEF ChunkSize, Count
<1> QED
  BY <1>6, <1>7, <1>8, <1>9

\* A buffer of samples that fit the layout.
IsBuffer(s, b) ==
  /\ b = [o \in DOMAIN b |-> b[o]] /\ DOMAIN b \subseteq Places(s)
  /\ \A k \in 1 .. Count(s) :
       Offsets(s)[k] \in DOMAIN b => b[Offsets(s)[k]].data \in SamplesOf(s, k)

\* A buffer nothing was written to.
LEMMA NoBufferIs ==
  ASSUME NEW s
  PROVE  IsBuffer(s, NoBuffer) /\ DOMAIN NoBuffer = {}
BY DEF IsBuffer, NoBuffer

\* There is one of them.
LEMMA EmptyBuffer ==
  ASSUME NEW s, NEW b, IsBuffer(s, b), DOMAIN b = {}
  PROVE  b = NoBuffer
BY DEF IsBuffer, NoBuffer

\* Two buffers with the same collections are equal.
LEMMA BuffersEqual ==
  ASSUME NEW s, NEW a, NEW b, IsBuffer(s, a), IsBuffer(s, b), DOMAIN a = DOMAIN b,
         \A k \in 1 .. Count(s) :
           Offsets(s)[k] \in DOMAIN a => a[Offsets(s)[k]] = b[Offsets(s)[k]]
  PROVE  a = b
<1>1. ASSUME NEW o \in DOMAIN a PROVE a[o] = b[o]
  <2>1. PICK k \in 1 .. Count(s) : o = Offsets(s)[k]
    BY DEF IsBuffer, Places
  <2> QED
    BY <2>1
<1>2. a = [o \in DOMAIN a |-> a[o]] /\ b = [o \in DOMAIN b |-> b[o]]
  BY DEF IsBuffer
<1> QED
  BY <1>1, <1>2

\* A collection written to a buffer changes this one and no other.
LEMMA WithIs ==
  ASSUME NEW s \in Settings, NEW b, IsBuffer(s, b), NEW k \in 1 .. Count(s),
         NEW col, col.data \in SamplesOf(s, k)
  PROVE  LET w == With(b, Offsets(s)[k], col)
         IN  /\ IsBuffer(s, w) /\ DOMAIN w = DOMAIN b \cup {Offsets(s)[k]}
             /\ w[Offsets(s)[k]] = col
             /\ \A l \in 1 .. Count(s) : l # k => w[Offsets(s)[l]] = b[Offsets(s)[l]]
                \/ Offsets(s)[l] \notin DOMAIN b
<1> DEFINE w == With(b, Offsets(s)[k], col)
<1>1. /\ DOMAIN w = DOMAIN b \cup {Offsets(s)[k]} /\ w = [o \in DOMAIN w |-> w[o]]
      /\ \A o \in DOMAIN w : w[o] = IF o = Offsets(s)[k] THEN col ELSE b[o]
  BY DEF With
<1> HIDE DEF w
<1>2. w[Offsets(s)[k]] = col
  BY <1>1
<1>3. \A l \in 1 .. Count(s) : l # k => Offsets(s)[l] # Offsets(s)[k]
  BY OffsetsDiffer
<1>4. \A l \in 1 .. Count(s) : l # k /\ Offsets(s)[l] \in DOMAIN b =>
        w[Offsets(s)[l]] = b[Offsets(s)[l]]
  BY <1>1, <1>3
<1>5. DOMAIN w \subseteq Places(s)
  BY <1>1 DEF IsBuffer, Places
<1>6. ASSUME NEW l \in 1 .. Count(s), Offsets(s)[l] \in DOMAIN w
      PROVE  w[Offsets(s)[l]].data \in SamplesOf(s, l)
  <2>1. CASE l = k
    BY <1>2, <2>1
  <2>2. CASE l # k
    <3>1. Offsets(s)[l] \in DOMAIN b
      BY <1>1, <1>3, <1>6, <2>2
    <3> QED
      BY <1>4, <2>2, <3>1 DEF IsBuffer
  <2> QED
    BY <2>1, <2>2
<1>7. IsBuffer(s, w)
  BY <1>1, <1>5, <1>6 DEF IsBuffer
<1> QED
  BY <1>1, <1>2, <1>4, <1>7 DEF w

\* The samples a model has of collection k.
ModelAt(s, b, k) == At(b, Offsets(s)[k], TypeOf(s, k), s.layout[k].n)

\* The model of a collection: samples of its type.
LEMMA ModelAtIs ==
  ASSUME NEW s \in Settings, NEW b, IsBuffer(s, b), NEW k \in 1 .. Count(s)
  PROVE  /\ ModelAt(s, b, k) \in SamplesOf(s, k)
         /\ Offsets(s)[k] \in DOMAIN b => ModelAt(s, b, k) = b[Offsets(s)[k]].data
<1> DEFINE o == Offsets(s)[k]
           t == TypeOf(s, k)
           n == s.layout[k].n
<1>1. n \in Nat
  BY Layout
<1>2. [j \in 1 .. n |-> [f \in Members(t) |-> Garbage]] \in Samples(t, n)
  BY DEF Samples, Garbage
<1>3. o \in DOMAIN b => b[o].data \in Samples(t, n)
  BY DEF IsBuffer, SamplesOf
<1>4. b[o].data \in Samples(t, n) => Len(b[o].data) = n
  BY <1>1 DEF Samples
<1> QED
  BY <1>2, <1>3, <1>4 DEF ModelAt, At, SamplesOf

\* The model of a collection depends on nothing but its bytes.
LEMMA ModelAtSame ==
  ASSUME NEW s, NEW a, NEW b, NEW k, DOMAIN a = DOMAIN b, a[Offsets(s)[k]] = b[Offsets(s)[k]]
  PROVE  ModelAt(s, a, k) = ModelAt(s, b, k)
BY DEF ModelAt, At

\* What the ground will have of samples coded with a configuration.
Seen(c, data) == IF c.cmp_mode = CMP_MODE_RAW THEN data ELSE LossySamples(c, data)

\* The chunk the ground is to see, collection by collection.
LEMMA LossyIs ==
  ASSUME NEW s \in Settings, NEW r \in 1 .. MaxEntities + 1, NEW c,
         c.cmp_mode = CMP_MODE_RAW \/ c.round \in 0 .. 3, NEW b, Over(b, Places(s)),
         \A k \in 1 .. Count(s) : b[Offsets(s)[k]] = Column(HdrOf(s, r, k), DataOf(s, r, k))
  PROVE  /\ IsBuffer(s, Lossy(c, b)) /\ DOMAIN Lossy(c, b) = Places(s)
         /\ \A k \in 1 .. Count(s) :
              Lossy(c, b)[Offsets(s)[k]] = Column(HdrOf(s, r, k), Seen(c, DataOf(s, r, k)))
<1>1. \A k \in 1 .. Count(s) : DataOf(s, r, k) \in SamplesOf(s, k)
  BY DataTyped
<1>2. IsBuffer(s, b) /\ DOMAIN b = Places(s)
  <2>1. \A k \in 1 .. Count(s) : b[Offsets(s)[k]].data \in SamplesOf(s, k)
    BY <1>1, ColIs
  <2> QED
    BY <2>1 DEF IsBuffer, Over
<1>3. CASE c.cmp_mode = CMP_MODE_RAW
  <2>1. Lossy(c, b) = b
    BY <1>3 DEF Lossy
  <2> QED
    BY <1>2, <1>3, <2>1 DEF Seen
<1>4. CASE c.cmp_mode # CMP_MODE_RAW /\ c.round = 0
  <2>1. Lossy(c, b) = b
    BY <1>4 DEF Lossy
  <2>2. \A k \in 1 .. Count(s) : Seen(c, DataOf(s, r, k)) = DataOf(s, r, k)
    BY <1>1, <1>4, Lossless, Layout DEF Seen, SamplesOf
  <2> QED
    BY <1>2, <2>1, <2>2
<1>5. CASE c.cmp_mode # CMP_MODE_RAW /\ c.round # 0
  <2> DEFINE l == Lossy(c, b)
  <2>1. l = [o \in Places(s) |-> Column(b[o].hdr, LossySamples(c, b[o].data))]
    BY <1>2, <1>5 DEF Lossy, LossySamples, Column
  <2> HIDE DEF l
  <2>2. DOMAIN l = Places(s) /\ l = [o \in DOMAIN l |-> l[o]]
    BY <2>1
  <2>3. ASSUME NEW k \in 1 .. Count(s)
        PROVE  /\ l[Offsets(s)[k]] = Column(HdrOf(s, r, k), Seen(c, DataOf(s, r, k)))
               /\ Seen(c, DataOf(s, r, k)) \in SamplesOf(s, k)
    <3>1. Offsets(s)[k] \in Places(s)
      BY DEF Places
    <3>2. LossySamples(c, DataOf(s, r, k)) \in SamplesOf(s, k)
      BY <1>1, <1>5, LossyTypes, Layout DEF SamplesOf
    <3>3. l[Offsets(s)[k]] = Column(b[Offsets(s)[k]].hdr, LossySamples(c, b[Offsets(s)[k]].data))
      BY <2>1, <3>1
    <3>4. b[Offsets(s)[k]].hdr = HdrOf(s, r, k) /\ b[Offsets(s)[k]].data = DataOf(s, r, k)
      BY ColIs
    <3>5. Seen(c, DataOf(s, r, k)) = LossySamples(c, DataOf(s, r, k))
      BY <1>5 DEF Seen
    <3> QED
      BY <3>2, <3>3, <3>4, <3>5
  <2>4. IsBuffer(s, l)
    <3>1. \A k \in 1 .. Count(s) : l[Offsets(s)[k]].data \in SamplesOf(s, k)
      BY <2>3, ColIs
    <3> QED
      BY <2>2, <3>1 DEF IsBuffer
  <2> QED
    BY <2>2, <2>3, <2>4 DEF l
<1> QED
  BY <1>3, <1>4, <1>5

-----------------------------------------------------------------------------
(* Bytes *)

\* The powers of 256 a field of the header needs.
LEMMA Powers256 == 256 ^ 0 = 1 /\ 256 ^ 1 = 256 /\ 256 ^ 2 = 65536 /\ 256 ^ 3 = 16777216
OBVIOUS

\* The bytes of a number, the highest first.
LEMMA BigEndianIs ==
  ASSUME NEW v \in Nat
  PROVE  /\ BigEndian(v, 1) = <<v % 256>>
         /\ BigEndian(v, 2) = <<(v \div 256) % 256, v % 256>>
         /\ BigEndian(v, 3) = <<(v \div 65536) % 256, (v \div 256) % 256, v % 256>>
<1>1. v \div 1 = v
  OBVIOUS
<1>2. BigEndian(v, 1) = <<v % 256>>
  <2>1. \A j \in 1 .. 1 : 256 ^ (1 - j) = 1
    BY Powers256
  <2> QED
    BY <1>1, <2>1 DEF BigEndian
<1>3. BigEndian(v, 2) = <<(v \div 256) % 256, v % 256>>
  <2>1. 256 ^ (2 - 1) = 256 /\ 256 ^ (2 - 2) = 1
    BY Powers256
  <2> QED
    BY <1>1, <2>1 DEF BigEndian
<1>4. BigEndian(v, 3) = <<(v \div 65536) % 256, (v \div 256) % 256, v % 256>>
  <2>1. 256 ^ (3 - 1) = 65536 /\ 256 ^ (3 - 2) = 256 /\ 256 ^ (3 - 3) = 1
    BY Powers256
  <2> QED
    BY <1>1, <2>1 DEF BigEndian
<1> QED
  BY <1>2, <1>3, <1>4

Sum1(h, at) == 0 * 256 + h[at]
Sum2(h, at) == Sum1(h, at) * 256 + h[at + 1]
Sum3(h, at) == Sum2(h, at) * 256 + h[at + 2]

\* The number that stands in one, two or three bytes.
LEMMA GetIs ==
  ASSUME NEW h, NEW at \in Nat
  PROVE  Get(h, at, 1) = Sum1(h, at) /\ Get(h, at, 2) = Sum2(h, at) /\ Get(h, at, 3) = Sum3(h, at)
<1> DEFINE Rec(g, n) == g = [k \in 0 .. n |-> IF k = 0 THEN 0 ELSE g[k - 1] * 256 + h[at + k - 1]]
           one == 0 * 256 + h[at]
           two == one * 256 + h[at + 1]
           three == two * 256 + h[at + 2]
           all == [k \in 0 .. 3 |-> IF k = 0 THEN 0 ELSE IF k = 1 THEN one
                                    ELSE IF k = 2 THEN two ELSE three]
           first(n) == [k \in 0 .. n |-> all[k]]
<1>1. at + 1 - 1 = at /\ at + 2 - 1 = at + 1 /\ at + 3 - 1 = at + 2
  OBVIOUS
<1>2. all[0] = 0 /\ all[1] = one /\ all[2] = two /\ all[3] = three
  OBVIOUS
<1> HIDE DEF all
<1>3. ASSUME NEW n \in 1 .. 3 PROVE Rec(first(n), n)
  <2>1. ASSUME NEW k \in 0 .. n
        PROVE  first(n)[k] = IF k = 0 THEN 0 ELSE first(n)[k - 1] * 256 + h[at + k - 1]
    <3>1. k = 0 \/ k = 1 \/ k = 2 \/ k = 3
      OBVIOUS
    <3>2. first(n)[k] = all[k] /\ (k # 0 => first(n)[k - 1] = all[k - 1])
      OBVIOUS
    <3> QED
      BY <1>1, <1>2, <3>1, <3>2
  <2> QED
    BY <2>1
<1>4. ASSUME NEW n \in 1 .. 3, NEW g, Rec(g, n) PROVE g[n] = all[n]
  <2>1. \A k \in 0 .. n : g[k] = IF k = 0 THEN 0 ELSE g[k - 1] * 256 + h[at + k - 1]
    BY <1>4
  <2>2. g[0] = 0 /\ g[1] = one
    BY <1>1, <2>1
  <2>3. n >= 2 => g[2] = two
    BY <1>1, <2>1, <2>2
  <2>4. n >= 3 => g[3] = three
    BY <1>1, <2>1, <2>3
  <2> QED
    BY <1>2, <2>2, <2>3, <2>4
<1>5. ASSUME NEW n \in 1 .. 3 PROVE Get(h, at, n) = all[n]
  <2>1. Rec(CHOOSE g : Rec(g, n), n)
    BY <1>3
  <2>2. Get(h, at, n) = (CHOOSE g : Rec(g, n))[n]
    BY DEF Get
  <2> QED
    BY <1>4, <2>1, <2>2
<1> QED
  BY <1>2, <1>5 DEF Sum1, Sum2, Sum3

-----------------------------------------------------------------------------
(* Fields of a header *)

Headers == UNION {[D -> Byte] : D \in SUBSET Nat}
IsField(f) == f.at \in Nat /\ f.bytes \in Seq(Byte) /\ f.fits = TRUE
Behind(f) == f.at + Len(f.bytes)

\* What a header is: bytes at offsets.
LEMMA HeaderIs ==
  ASSUME NEW h
  PROVE  h \in Headers <=> /\ h = [b \in DOMAIN h |-> h[b]] /\ DOMAIN h \subseteq Nat
                           /\ \A b \in DOMAIN h : h[b] \in Byte
<1>1. ASSUME h \in Headers
      PROVE  /\ h = [b \in DOMAIN h |-> h[b]] /\ DOMAIN h \subseteq Nat
             /\ \A b \in DOMAIN h : h[b] \in Byte
  <2>1. PICK D \in SUBSET Nat : h \in [D -> Byte]
    BY <1>1 DEF Headers
  <2> QED
    BY <2>1
<1>2. ASSUME h = [b \in DOMAIN h |-> h[b]], DOMAIN h \subseteq Nat,
             \A b \in DOMAIN h : h[b] \in Byte
      PROVE  h \in Headers
  <2>1. h \in [DOMAIN h -> Byte]
    BY <1>2
  <2>2. DOMAIN h \in SUBSET Nat
    BY <1>2
  <2> QED
    BY <2>1, <2>2 DEF Headers
<1> QED
  BY <1>1, <1>2

\* The header has the bytes of the field.
Holds(h, f) ==
  \A b \in 0 .. Len(f.bytes) - 1 : f.at + b \in DOMAIN h /\ h[f.at + b] = f.bytes[b + 1]

Apart(f, g) == Behind(f) <= g.at \/ Behind(g) <= f.at

\* A setter writes its field and keeps the bytes outside of it.
LEMMA PutIs ==
  ASSUME NEW h \in Headers, NEW f, IsField(f)
  PROVE  /\ Put(h, f) \in Headers
         /\ DOMAIN Put(h, f) = DOMAIN h \cup (f.at .. Behind(f) - 1)
         /\ Holds(Put(h, f), f)
         /\ \A b \in DOMAIN h : b < f.at \/ b >= Behind(f) => Put(h, f)[b] = h[b]
<1> DEFINE there == f.at .. f.at + Len(f.bytes) - 1
           p == Put(h, f)
<1>1. f.at \in Nat /\ f.bytes \in Seq(Byte) /\ Len(f.bytes) \in Nat /\ f.fits = TRUE
  BY DEF IsField
<1>2. p = [b \in DOMAIN h \cup there |-> IF b \in there THEN f.bytes[b - f.at + 1] ELSE h[b]]
  BY <1>1 DEF Put
<1>3. /\ DOMAIN h \subseteq Nat /\ \A b \in DOMAIN h : h[b] \in Byte
  BY HeaderIs
<1> HIDE DEF p
<1>4. \A b \in there : b \in Nat /\ b - f.at + 1 \in 1 .. Len(f.bytes)
  BY <1>1
<1>5. \A x \in 1 .. Len(f.bytes) : f.bytes[x] \in Byte
  BY <1>1
<1>6. DOMAIN p = DOMAIN h \cup there /\ p = [b \in DOMAIN p |-> p[b]]
  BY <1>2
<1>7. \A b \in there : p[b] = f.bytes[b - f.at + 1]
  BY <1>2
<1>8. \A b \in DOMAIN h : b < f.at \/ b >= Behind(f) => p[b] = h[b]
  BY <1>1, <1>2, <1>3 DEF Behind
<1>9. \A b \in DOMAIN p : b \in Nat /\ p[b] \in Byte
  BY <1>2, <1>3, <1>4, <1>5, <1>6
<1>10. p \in Headers
  <2>1. DOMAIN p \subseteq Nat
    BY <1>9
  <2> QED
    BY <1>6, <1>9, <2>1, HeaderIs
<1>11. Holds(p, f)
  <2>1. ASSUME NEW b \in 0 .. Len(f.bytes) - 1
        PROVE  f.at + b \in DOMAIN p /\ p[f.at + b] = f.bytes[b + 1]
    <3>1. f.at + b \in there /\ (f.at + b) - f.at + 1 = b + 1
      BY <1>1
    <3> QED
      BY <1>6, <1>7, <3>1
  <2> QED
    BY <2>1 DEF Holds
<1>12. there = f.at .. Behind(f) - 1
  BY <1>1 DEF Behind
<1> HIDE DEF there
<1>13. DOMAIN p = DOMAIN h \cup (f.at .. Behind(f) - 1)
  BY <1>6, <1>12
<1> QED
  BY <1>8, <1>10, <1>11, <1>13 DEF p

\* Where a field is not, nothing changes.
LEMMA PutKeeps ==
  ASSUME NEW h \in Headers, NEW f, IsField(f), NEW g, IsField(g), Apart(f, g), Holds(h, g)
  PROVE  Holds(Put(h, f), g)
<1>1. f.at \in Nat /\ Len(f.bytes) \in Nat /\ g.at \in Nat /\ Len(g.bytes) \in Nat
  BY DEF IsField
<1>2. ASSUME NEW b \in 0 .. Len(g.bytes) - 1
      PROVE  g.at + b \in DOMAIN Put(h, f) /\ Put(h, f)[g.at + b] = g.bytes[b + 1]
  <2>1. g.at + b \in DOMAIN h /\ h[g.at + b] = g.bytes[b + 1]
    BY DEF Holds
  <2>2. g.at + b < f.at \/ g.at + b >= Behind(f)
    BY <1>1 DEF Apart, Behind
  <2> QED
    BY <2>1, <2>2, PutIs
<1> QED
  BY <1>2 DEF Holds

\* A list of setters that accept their values.
IsFields(fields) == Len(fields) \in Nat /\ \A q \in 1 .. Len(fields) : IsField(fields[q])

\* The headers between the setters.
Puts(g, h, fields) ==
  /\ g \in [0 .. Len(fields) -> Headers] /\ g[0] = h
  /\ \A m \in 1 .. Len(fields) : g[m] = Put(g[m - 1], fields[m])

\* There is a header behind each setter of a list.
LEMMA PutsExist ==
  ASSUME NEW h \in Headers, NEW fields, IsFields(fields)
  PROVE  \E g : Puts(g, h, fields)
<1> DEFINE n == Len(fields)
           step == [x \in Nat |-> [y \in Headers |->
                      IF x + 1 \in 1 .. n THEN Put(y, fields[x + 1]) ELSE y]]
<1>1. n \in Nat /\ \A q \in 1 .. n : IsField(fields[q])
  BY DEF IsFields
<1> HIDE DEF n
<1>2. \A x \in Nat, y \in Headers :
        (IF x + 1 \in 1 .. n THEN Put(y, fields[x + 1]) ELSE y) \in Headers
  BY <1>1, PutIs
<1>3. step \in [Nat -> [Headers -> Headers]]
      /\ \A x \in Nat, y \in Headers : x + 1 \in 1 .. n => step[x][y] = Put(y, fields[x + 1])
  BY <1>2
<1> HIDE DEF step
<1>4. PICK g : Recursive(g, Headers, h, step)
  BY <1>3, Recursion DEF Stepping
<1>5. g \in [Nat -> Headers] /\ g[0] = h /\ \A x \in Nat : g[x + 1] = step[x][g[x]]
  BY <1>4 DEF Recursive
<1> DEFINE f == [m \in 0 .. n |-> g[m]]
<1>6. f \in [0 .. n -> Headers] /\ f[0] = h
  BY <1>1, <1>5
<1>7. ASSUME NEW m \in 1 .. n PROVE f[m] = Put(f[m - 1], fields[m])
  <2>1. m - 1 \in Nat /\ (m - 1) + 1 = m /\ m \in 0 .. n /\ m - 1 \in 0 .. n
    BY <1>1
  <2>2. f[m] = g[m] /\ f[m - 1] = g[m - 1]
    BY <2>1
  <2>3. g[m] = step[m - 1][g[m - 1]] /\ g[m - 1] \in Headers
    BY <1>5, <2>1
  <2> QED
    BY <1>3, <2>1, <2>2, <2>3
<1>8. Puts(f, h, fields)
  BY <1>6, <1>7 DEF Puts, n
<1> QED
  BY <1>8

\* A list of setters is one setter after the other.
LEMMA PutAllIs ==
  ASSUME NEW h \in Headers, NEW fields, IsFields(fields), NEW g, Puts(g, h, fields)
  PROVE  PutAll(h, fields) = g[Len(fields)] /\ PutAll(h, fields) \in Headers
<1> DEFINE n == Len(fields)
           Rec(p) == p = [m \in 0 .. n |-> IF m = 0 THEN h ELSE Put(p[m - 1], fields[m])]
<1>1. n \in Nat
  BY DEF IsFields
<1>2. g \in [0 .. n -> Headers] /\ g[0] = h
      /\ \A m \in 1 .. n : g[m] = Put(g[m - 1], fields[m])
  BY DEF Puts
<1> HIDE DEF n
<1>3. Rec(g)
  <2>1. g = [m \in 0 .. n |-> g[m]]
    BY <1>2
  <2>2. \A m \in 0 .. n : g[m] = IF m = 0 THEN h ELSE Put(g[m - 1], fields[m])
    BY <1>1, <1>2
  <2> QED
    BY <2>1, <2>2
<1>4. ASSUME NEW p, Rec(p) PROVE p[n] = g[n]
  <2> DEFINE T == {m \in Nat : m <= n => p[m] = g[m]}
  <2>1. \A m \in 0 .. n : p[m] = IF m = 0 THEN h ELSE Put(p[m - 1], fields[m])
    BY <1>4
  <2>2. 0 \in T
    BY <1>1, <1>2, <2>1
  <2>3. ASSUME NEW m \in T PROVE m + 1 \in T
    <3> SUFFICES ASSUME m + 1 <= n PROVE p[m + 1] = g[m + 1]
      OBVIOUS
    <3>1. m + 1 \in 1 .. n /\ (m + 1) - 1 = m /\ m + 1 \in 0 .. n /\ m + 1 # 0 /\ p[m] = g[m]
      BY <1>1
    <3> QED
      BY <1>2, <2>1, <3>1
  <2>4. T = Nat
    <3> HIDE DEF T
    <3>1. T \in SUBSET Nat
      BY DEF T
    <3> QED
      BY <2>2, <2>3, <3>1, Induction
  <2> QED
    BY <1>1, <2>4
<1>5. Rec(CHOOSE p : Rec(p))
  BY <1>3
<1>6. PutAll(h, fields) = (CHOOSE p : Rec(p))[n]
  BY DEF PutAll, n
<1>7. PutAll(h, fields) = g[n]
  BY <1>4, <1>5, <1>6
<1>8. g[n] \in Headers
  BY <1>1, <1>2
<1> QED
  BY <1>7, <1>8 DEF n

Ascending(fields) == \A q \in 1 .. Len(fields) - 1 : Behind(fields[q]) <= fields[q + 1].at

\* Fields one behind the other are all in the header in the end.
LEMMA PutAllHolds ==
  ASSUME NEW h \in Headers, NEW fields, IsFields(fields), Ascending(fields)
  PROVE  /\ PutAll(h, fields) \in Headers
         /\ \A q \in 1 .. Len(fields) : Holds(PutAll(h, fields), fields[q])
<1> DEFINE n == Len(fields)
<1>1. PICK g : Puts(g, h, fields)
  BY PutsExist
<1>2. n \in Nat /\ \A q \in 1 .. n : IsField(fields[q])
  BY DEF IsFields
<1>3. \A q \in 1 .. n : fields[q].at \in Nat /\ Len(fields[q].bytes) \in Nat
  BY <1>2 DEF IsField
<1>4. g \in [0 .. n -> Headers] /\ \A m \in 1 .. n : g[m] = Put(g[m - 1], fields[m])
  BY <1>1 DEF Puts
<1>5. \A q \in 1 .. n - 1 : Behind(fields[q]) <= fields[q + 1].at
  BY DEF Ascending
<1>6. \A q \in 1 .. n : Behind(fields[q]) \in Nat /\ fields[q].at <= Behind(fields[q])
  BY <1>3 DEF Behind
<1> HIDE DEF n
<1> DEFINE T == {m \in Nat : m <= n => \A q \in 1 .. m : Holds(g[m], fields[q])
                                            /\ Behind(fields[q]) <= Behind(fields[m])}
<1>7. 0 \in T
  OBVIOUS
<1>8. ASSUME NEW m \in T PROVE m + 1 \in T
  <2> SUFFICES ASSUME m + 1 <= n, NEW q \in 1 .. m + 1
               PROVE  Holds(g[m + 1], fields[q]) /\ Behind(fields[q]) <= Behind(fields[m + 1])
    OBVIOUS
  <2>1. m \in Nat /\ m + 1 \in 1 .. n /\ (m + 1) - 1 = m /\ m \in 0 .. n
    BY <1>2
  <2>2. g[m] \in Headers /\ g[m + 1] = Put(g[m], fields[m + 1]) /\ IsField(fields[m + 1])
    BY <1>2, <1>4, <2>1
  <2>3. CASE q = m + 1
    <3>1. Holds(g[m + 1], fields[m + 1])
      BY <2>2, PutIs
    <3>2. Behind(fields[m + 1]) \in Nat
      BY <1>6, <2>1
    <3> QED
      BY <2>3, <3>1, <3>2
  <2>4. CASE q # m + 1
    <3>1. q \in 1 .. m /\ m \in 1 .. n /\ m \in 1 .. n - 1 /\ q \in 1 .. n
      BY <1>2, <2>1, <2>4
    <3>2. Holds(g[m], fields[q]) /\ Behind(fields[q]) <= Behind(fields[m])
      BY <2>1, <3>1
    <3>3. Behind(fields[m]) <= fields[m + 1].at /\ fields[m + 1].at <= Behind(fields[m + 1])
      BY <1>5, <1>6, <2>1, <3>1
    <3>4. Behind(fields[q]) <= fields[m + 1].at /\ Behind(fields[q]) <= Behind(fields[m + 1])
      BY <1>3, <1>6, <2>1, <3>1, <3>2, <3>3
    <3>5. Apart(fields[m + 1], fields[q]) /\ IsField(fields[q])
      BY <1>2, <3>1, <3>4 DEF Apart
    <3> QED
      BY <2>2, <3>2, <3>4, <3>5, PutKeeps
  <2> QED
    BY <2>3, <2>4
<1>9. T = Nat
  <2> HIDE DEF T
  <2>1. T \in SUBSET Nat
    BY DEF T
  <2> QED
    BY <1>7, <1>8, <2>1, Induction
<1>10. \A q \in 1 .. n : Holds(g[n], fields[q])
  BY <1>2, <1>9
<1> QED
  BY <1>1, <1>10, PutAllIs DEF n

\* What they are apart from is left alone.
LEMMA PutAllKeeps ==
  ASSUME NEW h \in Headers, NEW fields, IsFields(fields), NEW f, IsField(f), Holds(h, f),
         \A q \in 1 .. Len(fields) : Apart(fields[q], f)
  PROVE  Holds(PutAll(h, fields), f)
<1> DEFINE n == Len(fields)
<1>1. PICK g : Puts(g, h, fields)
  BY PutsExist
<1>2. n \in Nat /\ \A q \in 1 .. n : IsField(fields[q])
  BY DEF IsFields
<1>3. g \in [0 .. n -> Headers] /\ g[0] = h
      /\ \A m \in 1 .. n : g[m] = Put(g[m - 1], fields[m])
  BY <1>1 DEF Puts
<1>4. \A q \in 1 .. n : Apart(fields[q], f)
  OBVIOUS
<1> HIDE DEF n
<1> DEFINE T == {m \in Nat : m <= n => Holds(g[m], f)}
<1>5. 0 \in T
  BY <1>3
<1>6. ASSUME NEW m \in T PROVE m + 1 \in T
  <2> SUFFICES ASSUME m + 1 <= n PROVE Holds(g[m + 1], f)
    OBVIOUS
  <2>1. m + 1 \in 1 .. n /\ (m + 1) - 1 = m /\ m \in 0 .. n /\ Holds(g[m], f)
    BY <1>2
  <2>2. g[m] \in Headers /\ g[m + 1] = Put(g[m], fields[m + 1]) /\ IsField(fields[m + 1])
        /\ Apart(fields[m + 1], f)
    BY <1>2, <1>3, <1>4, <2>1
  <2> QED
    BY <2>1, <2>2, PutKeeps
<1>7. T = Nat
  <2> HIDE DEF T
  <2>1. T \in SUBSET Nat
    BY DEF T
  <2> QED
    BY <1>5, <1>6, <2>1, Induction
<1>8. Holds(g[n], f)
  BY <1>2, <1>7
<1> QED
  BY <1>1, <1>8, PutAllIs DEF n

Covered(fields) ==
  {b \in Nat : \E q \in 1 .. Len(fields) : fields[q].at <= b /\ b < Behind(fields[q])}

\* What a list of setters has written.
LEMMA PutAllDomain ==
  ASSUME NEW h \in Headers, NEW fields, IsFields(fields)
  PROVE  DOMAIN PutAll(h, fields) = DOMAIN h \cup Covered(fields)
<1> DEFINE n == Len(fields)
           upto(m) == {b \in Nat : \E q \in 1 .. m : fields[q].at <= b /\ b < Behind(fields[q])}
<1>1. PICK g : Puts(g, h, fields)
  BY PutsExist
<1>2. n \in Nat /\ \A q \in 1 .. n : IsField(fields[q])
  BY DEF IsFields
<1>3. \A q \in 1 .. n : fields[q].at \in Nat /\ Behind(fields[q]) \in Nat
  BY <1>2 DEF IsField, Behind
<1>4. g \in [0 .. n -> Headers] /\ g[0] = h
      /\ \A m \in 1 .. n : g[m] = Put(g[m - 1], fields[m])
  BY <1>1 DEF Puts
<1> HIDE DEF n
<1> DEFINE T == {m \in Nat : m <= n => DOMAIN g[m] = DOMAIN h \cup upto(m)}
<1>5. 0 \in T
  <2>1. upto(0) = {}
    OBVIOUS
  <2> QED
    BY <1>4, <2>1
<1>6. ASSUME NEW m \in T PROVE m + 1 \in T
  <2> SUFFICES ASSUME m + 1 <= n PROVE DOMAIN g[m + 1] = DOMAIN h \cup upto(m + 1)
    OBVIOUS
  <2>1. m \in Nat /\ m + 1 \in 1 .. n /\ (m + 1) - 1 = m /\ m \in 0 .. n
        /\ DOMAIN g[m] = DOMAIN h \cup upto(m)
    BY <1>2
  <2>2. g[m] \in Headers /\ g[m + 1] = Put(g[m], fields[m + 1]) /\ IsField(fields[m + 1])
    BY <1>2, <1>4, <2>1
  <2>3. DOMAIN g[m + 1] =
          DOMAIN g[m] \cup (fields[m + 1].at .. Behind(fields[m + 1]) - 1)
    BY <2>2, PutIs
  <2>4. upto(m + 1) = upto(m) \cup (fields[m + 1].at .. Behind(fields[m + 1]) - 1)
    <3>1. fields[m + 1].at \in Nat /\ Behind(fields[m + 1]) \in Nat
      BY <1>3, <2>1
    <3>2. \A q \in Int : q \in 1 .. m + 1 <=> q \in 1 .. m \/ q = m + 1
      BY <2>1
    <3>3. \A b \in Nat : b \in fields[m + 1].at .. Behind(fields[m + 1]) - 1
                         <=> fields[m + 1].at <= b /\ b < Behind(fields[m + 1])
      BY <3>1
    <3>4. fields[m + 1].at .. Behind(fields[m + 1]) - 1 \subseteq Nat
      BY <3>1
    <3> QED
      BY <2>1, <3>2, <3>3, <3>4
  <2> QED
    BY <2>1, <2>3, <2>4
<1>7. T = Nat
  <2> HIDE DEF T
  <2>1. T \in SUBSET Nat
    BY DEF T
  <2> QED
    BY <1>5, <1>6, <2>1, Induction
<1>8. DOMAIN g[n] = DOMAIN h \cup upto(n)
  BY <1>2, <1>7
<1> QED
  BY <1>1, <1>8, PutAllIs DEF n, Covered

Tuple(x) == Len(x) \in Nat /\ x = [q \in 1 .. Len(x) |-> x[q]]

\* Two lists of fields, one behind the other.
LEMMA TupleConcat ==
  ASSUME NEW X, NEW Y, Tuple(X), Tuple(Y)
  PROVE  /\ Tuple(X \o Y) /\ Len(X \o Y) = Len(X) + Len(Y)
         /\ \A q \in 1 .. Len(X) : (X \o Y)[q] = X[q]
         /\ \A q \in 1 .. Len(Y) : (X \o Y)[Len(X) + q] = Y[q]
<1> DEFINE S == {X[q] : q \in 1 .. Len(X)} \cup {Y[q] : q \in 1 .. Len(Y)}
<1>1. Len(X) \in Nat /\ Len(Y) \in Nat
  BY DEF Tuple
<1>2. X \in Seq(S)
  <2>1. X \in [1 .. Len(X) -> S]
    BY DEF Tuple
  <2> HIDE DEF S
  <2> QED
    BY <1>1, <2>1
<1>3. Y \in Seq(S)
  <2>1. Y \in [1 .. Len(Y) -> S]
    BY DEF Tuple
  <2> HIDE DEF S
  <2> QED
    BY <1>1, <2>1
<1> HIDE DEF S
<1>4. X \o Y \in Seq(S) /\ Len(X \o Y) = Len(X) + Len(Y)
  BY <1>2, <1>3
<1>5. Tuple(X \o Y)
  <2>1. PICK Z : Z = X \o Y
    OBVIOUS
  <2>2. Z \in Seq(S)
    BY <1>4, <2>1
  <2>3. Len(Z) \in Nat /\ Z \in [1 .. Len(Z) -> S]
    BY <2>2
  <2> QED
    BY <2>1, <2>3 DEF Tuple
<1> QED
  BY <1>2, <1>3, <1>4, <1>5

\* One list of setters after the other.
LEMMA PutAllConcat ==
  ASSUME NEW h \in Headers, NEW X, NEW Y, Tuple(X), Tuple(Y), IsFields(X), IsFields(Y)
  PROVE  PutAll(h, X \o Y) = PutAll(PutAll(h, X), Y) /\ IsFields(X \o Y)
<1> DEFINE a == Len(X)
           c == Len(Y)
           Z == X \o Y
<1>1. /\ a \in Nat /\ c \in Nat /\ Len(Z) = a + c
      /\ \A q \in 1 .. a : Z[q] = X[q] /\ IsField(X[q])
      /\ \A q \in 1 .. c : Z[a + q] = Y[q] /\ IsField(Y[q])
  BY TupleConcat DEF IsFields
<1> HIDE DEF a, c, Z
<1>2. IsFields(Z)
  <2>1. ASSUME NEW q \in 1 .. a + c PROVE IsField(Z[q])
    <3>1. CASE q <= a
      BY <1>1, <3>1
    <3>2. CASE q > a
      <4>1. PICK r \in 1 .. c : q = a + r
        <5>1. q - a \in 1 .. c /\ q = a + (q - a)
          BY <1>1, <3>2
        <5> QED
          BY <5>1
      <4> QED
        BY <1>1, <4>1
    <3> QED
      BY <1>1, <3>1, <3>2
  <2> QED
    BY <1>1, <2>1 DEF IsFields
<1>3. PICK gx : Puts(gx, h, X)
  BY PutsExist
<1>4. PutAll(h, X) = gx[a] /\ gx[a] \in Headers
  BY <1>3, PutAllIs DEF a
<1>5. PICK gy : Puts(gy, gx[a], Y)
  BY <1>4, PutsExist
<1>6. PutAll(gx[a], Y) = gy[c]
  BY <1>4, <1>5, PutAllIs DEF c
<1>7. /\ gx \in [0 .. a -> Headers] /\ gx[0] = h
      /\ \A m \in 1 .. a : gx[m] = Put(gx[m - 1], X[m])
  BY <1>3 DEF Puts, a
<1>8. /\ gy \in [0 .. c -> Headers] /\ gy[0] = gx[a]
      /\ \A m \in 1 .. c : gy[m] = Put(gy[m - 1], Y[m])
  BY <1>5 DEF Puts, c
<1> DEFINE g == [m \in 0 .. a + c |-> IF m <= a THEN gx[m] ELSE gy[m - a]]
<1>9. g \in [0 .. a + c -> Headers] /\ g[0] = h
  <2>1. \A m \in 0 .. a + c : (m <= a => m \in 0 .. a) /\ (~ (m <= a) => m - a \in 0 .. c)
    BY <1>1
  <2> QED
    BY <1>1, <1>7, <1>8, <2>1
<1>10. ASSUME NEW m \in 1 .. a + c PROVE g[m] = Put(g[m - 1], Z[m])
  <2>1. m \in 0 .. a + c /\ m - 1 \in 0 .. a + c
    BY <1>1
  <2>2. CASE m <= a
    <3>1. m \in 1 .. a /\ m - 1 <= a
      BY <1>1, <2>2
    <3> QED
      BY <1>1, <1>7, <2>1, <2>2, <3>1
  <2>3. CASE m = a + 1
    <3>1. 1 \in 1 .. c /\ m - 1 = a /\ m - a = 1 /\ ~ (m <= a)
      BY <1>1, <2>3
    <3>2. g[m] = gy[1] /\ g[m - 1] = gx[a] /\ Z[m] = Y[1]
      BY <1>1, <2>1, <2>3, <3>1
    <3>3. gy[1] = Put(gy[0], Y[1])
      BY <1>8, <3>1
    <3> QED
      BY <1>8, <3>2, <3>3
  <2>4. CASE m > a + 1
    <3>1. PICK r \in 1 .. c : m = a + r
      <4>1. m - a \in 1 .. c /\ m = a + (m - a)
        BY <1>1, <2>4
      <4> QED
        BY <4>1
    <3>2. ~ (m <= a) /\ ~ (m - 1 <= a) /\ m - a = r /\ (m - 1) - a = r - 1
      BY <1>1, <2>4, <3>1
    <3>3. g[m] = gy[r] /\ g[m - 1] = gy[r - 1] /\ Z[m] = Y[r]
      BY <1>1, <2>1, <3>1, <3>2
    <3> QED
      BY <1>8, <3>3
  <2> QED
    BY <1>1, <2>2, <2>3, <2>4
<1> HIDE DEF g
<1>11. Puts(g, h, Z)
  BY <1>1, <1>9, <1>10 DEF Puts
<1>12. PutAll(h, Z) = g[a + c]
  BY <1>1, <1>2, <1>11, PutAllIs
<1>13. g[a + c] = gy[c]
  <2>1. CASE c = 0
    BY <1>1, <1>8, <2>1 DEF g
  <2>2. CASE c # 0
    <3>1. ~ (a + c <= a) /\ (a + c) - a = c /\ a + c \in 0 .. a + c
      BY <1>1, <2>2
    <3> QED
      BY <3>1 DEF g
  <2> QED
    BY <2>1, <2>2
<1> QED
  BY <1>2, <1>4, <1>6, <1>12, <1>13 DEF Z

-----------------------------------------------------------------------------
(* Numbers and words in a header *)

Limit(n) == IF n = 1 THEN 256 ELSE IF n = 2 THEN 65536 ELSE 16777216
Digit(v, d) == (v \div d) % 256
Number(b) == IF Len(b) = 1 THEN b[1]
             ELSE IF Len(b) = 2 THEN b[1] * 256 + b[2]
             ELSE b[1] * 65536 + b[2] * 256 + b[3]

\* A number is the sum of its digits in base 256, as far as they reach.
LEMMA Digits ==
  ASSUME NEW v \in Nat
  PROVE  /\ Digit(v, 1) \in Byte /\ Digit(v, 256) \in Byte /\ Digit(v, 65536) \in Byte
         /\ v < 256 => Digit(v, 1) = v
         /\ v < 65536 => Digit(v, 256) * 256 + Digit(v, 1) = v
         /\ v < 16777216 => Digit(v, 65536) * 65536 + Digit(v, 256) * 256 + Digit(v, 1) = v
<1>1. v \div 1 = v
  OBVIOUS
<1>2. Digit(v, 1) = v % 256
  BY <1>1 DEF Digit
<1>3. Digit(v, 1) \in Byte /\ Digit(v, 256) \in Byte /\ Digit(v, 65536) \in Byte
  BY <1>2 DEF Digit, Byte
<1>4. v < 256 => v % 256 = v
  OBVIOUS
<1>5. v < 65536 => ((v \div 256) % 256) * 256 + (v % 256) = v
  OBVIOUS
<1>6. v < 16777216 => ((v \div 65536) % 256) * 65536 + ((v \div 256) % 256) * 256 + (v % 256) = v
  <2>1. v < 16777216 => (v \div 65536) % 256 = v \div 65536
    OBVIOUS
  <2>2. (v \div 65536) * 65536 + ((v \div 256) % 256) * 256 + (v % 256) = v
    OBVIOUS
  <2> QED
    BY <2>1, <2>2
<1> QED
  <2>1. Digit(v, 256) = (v \div 256) % 256 /\ Digit(v, 65536) = (v \div 65536) % 256
    BY DEF Digit
  <2> QED
    BY <1>2, <1>3, <1>4, <1>5, <1>6, <2>1

Spells(b, v, n) == b \in Seq(Byte) /\ Len(b) = n /\ (v < Limit(n) => Number(b) = v)

\* One byte spells every number below 256.
LEMMA SpellsOne == ASSUME NEW v \in Nat PROVE Spells(BigEndian(v, 1), v, 1)
<1>1. PICK z \in Byte : z = Digit(v, 1)
  BY Digits
<1>2. BigEndian(v, 1) = <<z>>
  <2>1. 256 ^ (1 - 1) = 1
    BY Powers256
  <2> QED
    BY <1>1, <2>1 DEF BigEndian, Digit
<1>3. v < 256 => z = v
  BY <1>1, Digits
<1>4. PICK b : b = BigEndian(v, 1)
  OBVIOUS
<1>5. b \in Seq(Byte) /\ Len(b) = 1 /\ b[1] = z
  <2>1. PICK t : t = <<z>>
    OBVIOUS
  <2>2. t \in Seq(Byte) /\ Len(t) = 1 /\ t[1] = z
    BY <2>1
  <2> QED
    BY ONLY <1>2, <1>4, <2>1, <2>2, Zenon
<1>6. Spells(b, v, 1)
  BY <1>3, <1>5 DEF Spells, Number, Limit
<1> QED
  BY <1>4, <1>6

\* Two bytes spell every number below 256 ^ 2.
LEMMA SpellsTwo == ASSUME NEW v \in Nat PROVE Spells(BigEndian(v, 2), v, 2)
<1>1. PICK y \in Byte, z \in Byte : y = Digit(v, 256) /\ z = Digit(v, 1)
  BY Digits
<1>2. BigEndian(v, 2) = <<y, z>>
  <2>1. 256 ^ (2 - 1) = 256 /\ 256 ^ (2 - 2) = 1
    BY Powers256
  <2> QED
    BY <1>1, <2>1 DEF BigEndian, Digit
<1>3. v < 65536 => y * 256 + z = v
  BY <1>1, Digits
<1>4. PICK b : b = BigEndian(v, 2)
  OBVIOUS
<1>5. b \in Seq(Byte) /\ Len(b) = 2 /\ b[1] = y /\ b[2] = z
  <2>1. PICK t : t = <<y, z>>
    OBVIOUS
  <2>2. t \in Seq(Byte) /\ Len(t) = 2 /\ t[1] = y /\ t[2] = z
    BY <2>1
  <2> QED
    BY ONLY <1>2, <1>4, <2>1, <2>2, Zenon
<1>6. Spells(b, v, 2)
  BY <1>3, <1>5 DEF Spells, Number, Limit
<1> QED
  BY <1>4, <1>6

\* Three bytes spell every number below 256 ^ 3.
LEMMA SpellsThree == ASSUME NEW v \in Nat PROVE Spells(BigEndian(v, 3), v, 3)
<1>1. PICK x \in Byte, y \in Byte, z \in Byte :
        x = Digit(v, 65536) /\ y = Digit(v, 256) /\ z = Digit(v, 1)
  BY Digits
<1>2. BigEndian(v, 3) = <<x, y, z>>
  <2>1. 256 ^ (3 - 1) = 65536 /\ 256 ^ (3 - 2) = 256 /\ 256 ^ (3 - 3) = 1
    BY Powers256
  <2> QED
    BY <1>1, <2>1 DEF BigEndian, Digit
<1>3. v < 16777216 => x * 65536 + y * 256 + z = v
  BY <1>1, Digits
<1>4. PICK b : b = BigEndian(v, 3)
  OBVIOUS
<1>5. b \in Seq(Byte) /\ Len(b) = 3 /\ b[1] = x /\ b[2] = y /\ b[3] = z
  <2>1. PICK t : t = <<x, y, z>>
    OBVIOUS
  <2>2. t \in Seq(Byte) /\ Len(t) = 3 /\ t[1] = x /\ t[2] = y /\ t[3] = z
    BY <2>1
  <2> QED
    BY ONLY <1>2, <1>4, <2>1, <2>2, Zenon
<1>6. Spells(b, v, 3)
  BY <1>3, <1>5 DEF Spells, Number, Limit
<1> QED
  BY <1>4, <1>6

\* The bytes of a number spell it.
LEMMA BigEndianSpells ==
  ASSUME NEW v \in Nat, NEW n \in 1 .. 3
  PROVE  Spells(BigEndian(v, n), v, n)
<1>1. n = 1 \/ n = 2 \/ n = 3
  OBVIOUS
<1> QED
  BY ONLY <1>1, v \in Nat, SpellsOne, SpellsTwo, SpellsThree, Zenon

\* A byte, read.
LEMMA GetOne ==
  ASSUME NEW h, NEW at \in Nat, NEW x \in Byte, h[at] = x
  PROVE  Get(h, at, 1) = x
<1>1. Get(h, at, 1) = Sum1(h, at)
  BY GetIs
<1> QED
  BY <1>1 DEF Byte, Sum1

\* Two bytes, read.
LEMMA GetTwo ==
  ASSUME NEW h, NEW at \in Nat, NEW x \in Byte, NEW y \in Byte, h[at] = x, h[at + 1] = y
  PROVE  Get(h, at, 2) = x * 256 + y
<1>1. Get(h, at, 2) = Sum2(h, at)
  BY GetIs
<1> QED
  BY <1>1 DEF Byte, Sum1, Sum2

\* Three bytes, read.
LEMMA GetThree ==
  ASSUME NEW h, NEW at \in Nat, NEW x \in Byte, NEW y \in Byte, NEW z \in Byte,
         h[at] = x, h[at + 1] = y, h[at + 2] = z
  PROVE  Get(h, at, 3) = x * 65536 + y * 256 + z
<1>1. Get(h, at, 3) = Sum3(h, at)
  BY GetIs
<1> QED
  BY <1>1 DEF Byte, Sum1, Sum2, Sum3

\* What bytes spell is what the getter reads.
LEMMA GetSpelled ==
  ASSUME NEW h, NEW at \in Nat, NEW n \in 1 .. 3, NEW v \in Nat, v < Limit(n),
         NEW b, Spells(b, v, n), \A j \in 0 .. n - 1 : h[at + j] = b[j + 1]
  PROVE  Get(h, at, n) = v
<1>1. b \in Seq(Byte) /\ Len(b) = n /\ Number(b) = v
  BY DEF Spells
<1>2. h[at] = b[1] /\ b[1] \in Byte
  <2>1. h[at + 0] = b[0 + 1]
    OBVIOUS
  <2> QED
    BY <1>1, <2>1
<1>3. n >= 2 => h[at + 1] = b[2] /\ b[2] \in Byte
  <2>1. n >= 2 => h[at + 1] = b[1 + 1]
    OBVIOUS
  <2> QED
    BY <1>1, <2>1
<1>4. n >= 3 => h[at + 2] = b[3] /\ b[3] \in Byte
  <2>1. n >= 3 => h[at + 2] = b[2 + 1]
    OBVIOUS
  <2> QED
    BY <1>1, <2>1
<1>5. CASE n = 1
  <2>1. Number(b) = b[1]
    BY <1>1, <1>5 DEF Number
  <2> QED
    BY <1>1, <1>2, <1>5, <2>1, GetOne
<1>6. CASE n = 2
  <2>1. Number(b) = b[1] * 256 + b[2]
    BY <1>1, <1>6 DEF Number
  <2>2. b[2] \in Byte /\ h[at + 1] = b[2]
    BY <1>3, <1>6
  <2>3. Get(h, at, 2) = b[1] * 256 + b[2]
    BY <1>2, <2>2, GetTwo
  <2> QED
    BY <1>1, <1>6, <2>1, <2>3
<1>7. CASE n = 3
  <2>1. Number(b) = b[1] * 65536 + b[2] * 256 + b[3]
    BY <1>1, <1>7 DEF Number
  <2>2. b[2] \in Byte /\ h[at + 1] = b[2] /\ b[3] \in Byte /\ h[at + 2] = b[3]
    BY <1>3, <1>4, <1>7
  <2>3. Get(h, at, 3) = b[1] * 65536 + b[2] * 256 + b[3]
    BY <1>2, <2>2, GetThree
  <2> QED
    BY <1>1, <1>7, <2>1, <2>3
<1> QED
  BY <1>5, <1>6, <1>7

\* A field of n bytes at a place.
Takes(f, at, n) == IsField(f) /\ f.at = at /\ Len(f.bytes) = n

\* A setter fails when the value needs more bytes than the field has.
LEMMA FieldTakes ==
  ASSUME NEW at \in Nat, NEW n \in 1 .. 3, NEW v \in Nat
  PROVE  /\ Field(at, n, v).fits <=> v < Limit(n)
         /\ v < Limit(n) => Takes(Field(at, n, v), at, n)
<1>1. PICK b : b = BigEndian(v, n)
  OBVIOUS
<1>2. b \in Seq(Byte) /\ Len(b) = n
  <2>1. Spells(b, v, n)
    BY <1>1, BigEndianSpells, Zenon
  <2> QED
    BY <2>1 DEF Spells
<1>3. 256 ^ n = Limit(n)
  <2>1. n = 1 \/ n = 2 \/ n = 3
    OBVIOUS
  <2>2. 256 ^ 1 = Limit(1) /\ 256 ^ 2 = Limit(2) /\ 256 ^ 3 = Limit(3)
    BY Powers256 DEF Limit
  <2> QED
    BY ONLY <2>1, <2>2, Zenon
<1>4. PICK most : most = Limit(n)
  OBVIOUS
<1>5. /\ Field(at, n, v).at = at /\ Field(at, n, v).bytes = b
      /\ Field(at, n, v).fits = (v < most)
  BY <1>1, <1>3, <1>4 DEF Field
<1>6. v < most => Field(at, n, v).fits = TRUE
  BY <1>5
<1> QED
  BY <1>2, <1>4, <1>5, <1>6 DEF IsField, Takes

\* A setter whose value fits writes all bytes of its field.
LEMMA FieldWrites ==
  ASSUME NEW at \in Nat, NEW n \in 1 .. 3, NEW v \in Nat, v < Limit(n)
  PROVE  Takes(Field(at, n, v), at, n)
BY FieldTakes

\* A getter reads what the setter of the field wrote.
LEMMA NumberKept ==
  ASSUME NEW h, NEW at \in Nat, NEW n \in 1 .. 3, NEW v \in Nat, v < Limit(n),
         Holds(h, Field(at, n, v))
  PROVE  Get(h, at, n) = v
<1>1. PICK b : b = BigEndian(v, n)
  OBVIOUS
<1>2. Spells(b, v, n)
  BY <1>1, BigEndianSpells, Zenon
<1>3. Len(b) = n
  BY <1>2 DEF Spells
<1>4. Field(at, n, v).at = at /\ Field(at, n, v).bytes = b
  BY <1>1 DEF Field
<1>5. \A j \in 0 .. n - 1 : h[at + j] = b[j + 1]
  BY <1>3, <1>4 DEF Holds
<1> QED
  BY <1>2, <1>5, GetSpelled

Pair2(b, k, w) == b[k] \in Byte /\ b[k + 1] \in Byte /\ b[k] * 256 + b[k + 1] = w

\* The two bytes of a word.
LEMMA WordSpelled ==
  ASSUME NEW w \in Word
  PROVE  Pair2(BigEndian(w, 2), 1, w)
<1>1. PICK b : b = BigEndian(w, 2)
  OBVIOUS
<1>2. Spells(b, w, 2)
  <2>1. w \in Nat
    BY DEF Word
  <2> QED
    BY <1>1, <2>1, SpellsTwo, Zenon
<1>3. w < Limit(2)
  BY DEF Word, Limit
<1>4. Pair2(b, 1, w)
  BY <1>2, <1>3 DEF Pair2, Number, Spells
<1> QED
  BY <1>1, <1>4

\* A field of one word.
LEMMA WordTakes ==
  ASSUME NEW at \in Nat, NEW w \in Word
  PROVE  Takes(Words(at, <<w>>), at, 2) /\ Pair2(Words(at, <<w>>).bytes, 1, w)
<1>1. PICK b : b = BigEndian(w, 2)
  OBVIOUS
<1>2. Pair2(b, 1, w)
  BY <1>1, WordSpelled
<1>3. PICK f : f = Words(at, <<w>>)
  OBVIOUS
<1>4. f.at = at /\ f.fits = TRUE /\ f.bytes = WordBytes(<<w>>)
  BY <1>3 DEF Words
<1>5. WordBytes(<<w>>) = [j \in 1 .. 2 |-> BigEndian(<<w>>[(j + 1) \div 2], 2)[IF j % 2 = 1 THEN 1 ELSE 2]]
  <2>1. Len(<<w>>) = 1
    OBVIOUS
  <2>2. 2 * Len(<<w>>) = 2
    BY <2>1
  <2> QED
    BY <2>2 DEF WordBytes
<1>6. \A j \in 1 .. 2 : <<w>>[(j + 1) \div 2] = w /\ (IF j % 2 = 1 THEN 1 ELSE 2) = j
  <2>1. (1 + 1) \div 2 = 1 /\ (2 + 1) \div 2 = 1 /\ 1 % 2 = 1 /\ 2 % 2 = 0
    OBVIOUS
  <2> QED
    BY <2>1
<1>7. f.bytes = [j \in 1 .. 2 |-> b[j]]
  BY <1>1, <1>4, <1>5, <1>6
<1>8. b[1] \in Byte /\ b[2] \in Byte
  BY <1>2 DEF Pair2
<1>9. f.bytes \in Seq(Byte) /\ Len(f.bytes) = 2 /\ f.bytes[1] = b[1] /\ f.bytes[2] = b[2]
  BY <1>7, <1>8
<1>10. Takes(f, at, 2) /\ Pair2(f.bytes, 1, w)
  BY <1>2, <1>4, <1>9 DEF Takes, IsField, Pair2
<1> QED
  BY <1>3, <1>10

\* A field of two words.
LEMMA TwoWordsTake ==
  ASSUME NEW at \in Nat, NEW w \in Word, NEW v \in Word
  PROVE  /\ Takes(Words(at, <<w, v>>), at, 4)
         /\ Pair2(Words(at, <<w, v>>).bytes, 1, w) /\ Pair2(Words(at, <<w, v>>).bytes, 3, v)
<1>1. PICK b, c : b = BigEndian(w, 2) /\ c = BigEndian(v, 2)
  OBVIOUS
<1>2. Pair2(b, 1, w) /\ Pair2(c, 1, v)
  BY <1>1, WordSpelled
<1>3. PICK f : f = Words(at, <<w, v>>)
  OBVIOUS
<1>4. f.at = at /\ f.fits = TRUE /\ f.bytes = WordBytes(<<w, v>>)
  BY <1>3 DEF Words
<1>5. WordBytes(<<w, v>>)
      = [j \in 1 .. 4 |-> BigEndian(<<w, v>>[(j + 1) \div 2], 2)[IF j % 2 = 1 THEN 1 ELSE 2]]
  <2>1. Len(<<w, v>>) = 2
    OBVIOUS
  <2>2. 2 * Len(<<w, v>>) = 4
    BY <2>1
  <2> QED
    BY <2>2 DEF WordBytes
<1>6. /\ <<w, v>>[(1 + 1) \div 2] = w /\ <<w, v>>[(2 + 1) \div 2] = w
      /\ <<w, v>>[(3 + 1) \div 2] = v /\ <<w, v>>[(4 + 1) \div 2] = v
      /\ 1 % 2 = 1 /\ 2 % 2 = 0 /\ 3 % 2 = 1 /\ 4 % 2 = 0
  <2>1. (1 + 1) \div 2 = 1 /\ (2 + 1) \div 2 = 1 /\ (3 + 1) \div 2 = 2 /\ (4 + 1) \div 2 = 2
    OBVIOUS
  <2> QED
    BY <2>1
<1>7. f.bytes = [j \in 1 .. 4 |-> IF j = 1 THEN b[1] ELSE IF j = 2 THEN b[2]
                                  ELSE IF j = 3 THEN c[1] ELSE c[2]]
  BY <1>1, <1>4, <1>5, <1>6
<1>8. b[1] \in Byte /\ b[2] \in Byte /\ c[1] \in Byte /\ c[2] \in Byte
  BY <1>2 DEF Pair2
<1>9. /\ f.bytes \in Seq(Byte) /\ Len(f.bytes) = 4 /\ f.bytes[1] = b[1] /\ f.bytes[2] = b[2]
      /\ f.bytes[3] = c[1] /\ f.bytes[4] = c[2]
  BY <1>7, <1>8
<1>10. Takes(f, at, 4) /\ Pair2(f.bytes, 1, w) /\ Pair2(f.bytes, 3, v)
  BY <1>2, <1>4, <1>9 DEF Takes, IsField, Pair2
<1> QED
  BY <1>3, <1>10

\* A word that was written is read again.
LEMMA WordKept ==
  ASSUME NEW h, NEW at \in Nat, NEW w \in Word, Holds(h, Words(at, <<w>>))
  PROVE  Get(h, at, 2) = w
<1>1. PICK f : f = Words(at, <<w>>) /\ Holds(h, f)
  BY Zenon
<1>2. Takes(f, at, 2) /\ Pair2(f.bytes, 1, w)
  BY <1>1, WordTakes
<1>3. PICK b : b = f.bytes
  OBVIOUS
<1>4. \A j \in 0 .. 1 : h[at + j] = b[j + 1]
  <2>1. Holds(h, f) /\ Takes(f, at, 2)
    BY <1>1, <1>2
  <2>2. Len(b) = 2 /\ f.at = at
    BY <1>3, <2>1 DEF Takes
  <2> QED
    BY ONLY <2>1, <2>2, <1>3 DEF Holds
<1>5. h[at] = b[1] /\ h[at + 1] = b[2]
  <2>1. h[at + 0] = b[0 + 1] /\ h[at + 1] = b[1 + 1]
    BY <1>4
  <2> QED
    BY <2>1
<1>6. b[1] \in Byte /\ b[2] \in Byte /\ b[1] * 256 + b[2] = w
  BY <1>2, <1>3 DEF Pair2
<1> QED
  BY <1>5, <1>6, GetTwo

\* Two words that were written are read again.
LEMMA WordsKept ==
  ASSUME NEW h, NEW at \in Nat, NEW w \in Word, NEW v \in Word, Holds(h, Words(at, <<w, v>>))
  PROVE  GetWords(h, at, 2) = <<w, v>>
<1>1. PICK f : f = Words(at, <<w, v>>) /\ Holds(h, f)
  BY Zenon
<1>2. Takes(f, at, 4) /\ Pair2(f.bytes, 1, w) /\ Pair2(f.bytes, 3, v)
  BY <1>1, TwoWordsTake
<1>3. PICK b : b = f.bytes
  OBVIOUS
<1>4. \A j \in 0 .. 3 : h[at + j] = b[j + 1]
  <2>1. Holds(h, f) /\ Takes(f, at, 4)
    BY <1>1, <1>2
  <2>2. Len(b) = 4 /\ f.at = at
    BY <1>3, <2>1 DEF Takes
  <2> QED
    BY ONLY <2>1, <2>2, <1>3 DEF Holds
<1>5. h[at] = b[1] /\ h[at + 1] = b[2] /\ h[at + 2] = b[3] /\ h[at + 3] = b[4]
  <2>1. /\ h[at + 0] = b[0 + 1] /\ h[at + 1] = b[1 + 1]
        /\ h[at + 2] = b[2 + 1] /\ h[at + 3] = b[3 + 1]
    BY <1>4
  <2> QED
    BY <2>1
<1>6. /\ b[1] \in Byte /\ b[2] \in Byte /\ b[1] * 256 + b[2] = w
      /\ b[3] \in Byte /\ b[4] \in Byte /\ b[3] * 256 + b[4] = v
  BY <1>2, <1>3 DEF Pair2
<1>7. Get(h, at, 2) = w
  BY <1>5, <1>6, GetTwo
<1>8. Get(h, at + 2, 2) = v
  <2>1. PICK x \in Nat : x = at + 2 /\ x + 1 = at + 3
    OBVIOUS
  <2>2. h[x] = b[3] /\ h[x + 1] = b[4]
    BY <1>5, <2>1
  <2>3. Get(h, x, 2) = b[3] * 256 + b[4]
    BY <1>6, <2>2, GetTwo
  <2> QED
    BY <1>6, <2>1, <2>3
<1>9. at + 2 * (1 - 1) = at /\ at + 2 * (2 - 1) = at + 2
  OBVIOUS
<1>10. GetWords(h, at, 2) = [j \in 1 .. 2 |-> Get(h, at + 2 * (j - 1), 2)]
  BY DEF GetWords
<1> QED
  BY <1>7, <1>8, <1>9, <1>10

-----------------------------------------------------------------------------
(* Bytes a list of setters leaves alone *)

\* A getter depends on nothing but the bytes of its field.
LEMMA GetSame ==
  ASSUME NEW g, NEW h, NEW at \in Nat, NEW n \in 1 .. 3,
         \A b \in at .. at + n - 1 : g[b] = h[b]
  PROVE  Get(g, at, n) = Get(h, at, n)
<1>1. g[at] = h[at]
  OBVIOUS
<1>2. n >= 2 => g[at + 1] = h[at + 1]
  OBVIOUS
<1>3. n >= 3 => g[at + 2] = h[at + 2]
  OBVIOUS
<1>4. CASE n = 1
  <2>1. Get(g, at, 1) = Sum1(g, at) /\ Get(h, at, 1) = Sum1(h, at)
    BY GetIs
  <2> QED
    BY <1>1, <1>4, <2>1 DEF Sum1
<1>5. CASE n = 2
  <2>1. Get(g, at, 2) = Sum2(g, at) /\ Get(h, at, 2) = Sum2(h, at)
    BY GetIs
  <2> QED
    BY <1>1, <1>2, <1>5, <2>1 DEF Sum1, Sum2
<1>6. CASE n = 3
  <2>1. Get(g, at, 3) = Sum3(g, at) /\ Get(h, at, 3) = Sum3(h, at)
    BY GetIs
  <2> QED
    BY <1>1, <1>2, <1>3, <1>6, <2>1 DEF Sum1, Sum2, Sum3
<1> QED
  BY <1>4, <1>5, <1>6

\* A byte outside of the fields written stays.
LEMMA ByteKept ==
  ASSUME NEW h \in Headers, NEW fields, IsFields(fields), NEW b \in DOMAIN h,
         \A q \in 1 .. Len(fields) : b < fields[q].at \/ Behind(fields[q]) <= b
  PROVE  PutAll(h, fields)[b] = h[b]
<1>1. b \in Nat /\ h[b] \in Byte
  BY HeaderIs
<1>2. PICK f : f = [at |-> b, bytes |-> <<h[b]>>, fits |-> TRUE]
  OBVIOUS
<1>3. f.at = b /\ f.bytes = <<h[b]>> /\ f.fits = TRUE
  BY <1>2
<1>4. f.bytes \in Seq(Byte) /\ Len(f.bytes) = 1 /\ f.bytes[1] = h[b]
  BY <1>1, <1>3
<1>5. IsField(f) /\ Behind(f) = b + 1
  BY <1>1, <1>3, <1>4 DEF IsField, Behind
<1>6. Holds(h, f)
  BY <1>1, <1>3, <1>4 DEF Holds
<1>7. \A q \in 1 .. Len(fields) : Apart(fields[q], f)
  <2>1. ASSUME NEW q \in 1 .. Len(fields) PROVE Apart(fields[q], f)
    <3>1. IsField(fields[q])
      BY DEF IsFields
    <3>2. fields[q].at \in Nat
      BY <3>1 DEF IsField
    <3> QED
      BY <1>1, <1>3, <1>5, <3>2 DEF Apart
  <2> QED
    BY <2>1
<1>8. Holds(PutAll(h, fields), f)
  BY <1>5, <1>6, <1>7, PutAllKeeps
<1>9. PutAll(h, fields)[f.at + 0] = f.bytes[0 + 1]
  BY <1>4, <1>8 DEF Holds
<1> QED
  BY <1>1, <1>3, <1>4, <1>9

\* A field aside from the fields written reads as before.
LEMMA NumberStays ==
  ASSUME NEW h \in Headers, NEW fields, IsFields(fields), NEW at \in Nat, NEW n \in 1 .. 3,
         at .. at + n - 1 \subseteq DOMAIN h,
         \A q \in 1 .. Len(fields) : at + n <= fields[q].at \/ Behind(fields[q]) <= at
  PROVE  Get(PutAll(h, fields), at, n) = Get(h, at, n)
<1>1. ASSUME NEW b \in at .. at + n - 1 PROVE PutAll(h, fields)[b] = h[b]
  <2>1. ASSUME NEW q \in 1 .. Len(fields) PROVE b < fields[q].at \/ Behind(fields[q]) <= b
    <3>1. IsField(fields[q])
      BY DEF IsFields
    <3>2. fields[q].at \in Nat /\ Behind(fields[q]) \in Nat
      BY <3>1 DEF IsField, Behind
    <3> QED
      BY <3>2
  <2> QED
    BY <2>1, ByteKept
<1> QED
  BY <1>1, GetSame

\* The model identifiers, set afterwards.
Identifiers(id, counter) == <<cmp_ent_set_model_id(id), cmp_ent_set_model_counter(counter)>>

\* The two fields of the model identifiers, at 26 and 28.
LEMMA IdentifiersAre ==
  ASSUME NEW id \in Word, NEW counter \in Byte
  PROVE  /\ IsFields(Identifiers(id, counter)) /\ Ascending(Identifiers(id, counter))
         /\ Len(Identifiers(id, counter)) = 2
         /\ Identifiers(id, counter)[1] = Field(26, 2, id)
         /\ Identifiers(id, counter)[2] = Field(28, 1, counter)
         /\ Identifiers(id, counter)[1].at = 26 /\ Behind(Identifiers(id, counter)[1]) = 28
         /\ Identifiers(id, counter)[2].at = 28 /\ Behind(Identifiers(id, counter)[2]) = 29
<1>1. PICK f, g : f = Field(26, 2, id) /\ g = Field(28, 1, counter)
  OBVIOUS
<1>2. Takes(f, 26, 2)
  <2>1. id \in Nat /\ id < Limit(2) /\ 26 \in Nat /\ 2 \in 1 .. 3
    BY DEF Word, Limit
  <2> QED
    BY <1>1, <2>1, FieldWrites, Zenon
<1>3. Takes(g, 28, 1)
  <2>1. counter \in Nat /\ counter < Limit(1) /\ 28 \in Nat /\ 1 \in 1 .. 3
    BY DEF Byte, Limit
  <2> QED
    BY <1>1, <2>1, FieldWrites, Zenon
<1>4. /\ IsField(f) /\ f.at = 26 /\ Behind(f) = 28
      /\ IsField(g) /\ g.at = 28 /\ Behind(g) = 29
  BY <1>2, <1>3 DEF Takes, Behind
<1>5. PICK fields : fields = Identifiers(id, counter)
  OBVIOUS
<1>6. Len(fields) = 2 /\ fields[1] = f /\ fields[2] = g
  BY <1>1, <1>5 DEF Identifiers, cmp_ent_set_model_id, cmp_ent_set_model_counter
<1>7. IsFields(fields) /\ Ascending(fields)
  BY <1>4, <1>6 DEF IsFields, Ascending
<1> QED
  BY <1>1, <1>4, <1>5, <1>6, <1>7

\* Numbers that do not change when the identifiers are set.
Steady(h, g) ==
  \A at \in Nat, n \in 1 .. 3 :
    at .. at + n - 1 \subseteq DOMAIN h /\ (at + n <= 26 \/ 29 <= at) => Get(g, at, n) = Get(h, at, n)

Identified(g, h, id, counter) ==
  /\ g \in Headers /\ DOMAIN g = DOMAIN h
  /\ Get(g, 26, 2) = id /\ Get(g, 28, 1) = counter /\ Steady(h, g)

\* Setting the identifiers changes three bytes of the header.
LEMMA IdentifiersSet ==
  ASSUME NEW h \in Headers, 0 .. 31 \subseteq DOMAIN h, NEW id \in Word, NEW counter \in Byte
  PROVE  Identified(PutAll(h, Identifiers(id, counter)), h, id, counter)
<1>1. PICK fields : fields = Identifiers(id, counter)
  OBVIOUS
<1>2. /\ IsFields(fields) /\ Ascending(fields) /\ Len(fields) = 2
      /\ fields[1] = Field(26, 2, id) /\ fields[2] = Field(28, 1, counter)
      /\ fields[1].at = 26 /\ Behind(fields[1]) = 28
      /\ fields[2].at = 28 /\ Behind(fields[2]) = 29
  BY <1>1, IdentifiersAre
<1>3. PICK g : g = PutAll(h, fields)
  OBVIOUS
<1>4. g \in Headers /\ Holds(g, fields[1]) /\ Holds(g, fields[2])
  <2>1. g \in Headers /\ \A q \in 1 .. Len(fields) : Holds(g, fields[q])
    BY <1>2, <1>3, PutAllHolds, Zenon
  <2>2. 1 \in 1 .. Len(fields) /\ 2 \in 1 .. Len(fields)
    BY <1>2
  <2> QED
    BY <2>1, <2>2, Zenon
<1>5. DOMAIN g = DOMAIN h
  <2>1. DOMAIN g = DOMAIN h \cup Covered(fields)
    BY <1>2, <1>3, PutAllDomain
  <2>2. Covered(fields) \subseteq 0 .. 31
    BY <1>2 DEF Covered
  <2> QED
    BY <2>1, <2>2
<1>6. Get(g, 26, 2) = id
  <2>1. id \in Nat /\ id < Limit(2)
    BY DEF Word, Limit
  <2> QED
    BY <1>2, <1>4, <2>1, NumberKept
<1>7. Get(g, 28, 1) = counter
  <2>1. counter \in Nat /\ counter < Limit(1)
    BY DEF Byte, Limit
  <2> QED
    BY <1>2, <1>4, <2>1, NumberKept
<1>8. ASSUME NEW at \in Nat, NEW n \in 1 .. 3, at .. at + n - 1 \subseteq DOMAIN h,
             at + n <= 26 \/ 29 <= at
      PROVE  Get(g, at, n) = Get(h, at, n)
  <2>1. \A q \in 1 .. Len(fields) : at + n <= fields[q].at \/ Behind(fields[q]) <= at
    BY <1>2, <1>8
  <2> QED
    BY <1>2, <1>3, <1>8, <2>1, NumberStays
<1>9. Steady(h, g)
  BY <1>8, Zenon DEF Steady
<1>10. Identified(g, h, id, counter)
  BY <1>4, <1>5, <1>6, <1>7, <1>9, Zenon DEF Identified
<1> QED
  BY <1>1, <1>3, <1>10, Zenon

-----------------------------------------------------------------------------
(* The header of a chunk *)

GenericFields ==
  <<cmp_ent_set_version_id(Version), cmp_ent_set_size(dst_size),
    cmp_ent_set_original_size(ChunkSize), cmp_ent_set_data_type("chunk", raw_mode),
    cmp_ent_set_cmp_mode(cfg.cmp_mode), cmp_ent_set_model_value(cfg.model_value),
    cmp_ent_set_model_id(0), cmp_ent_set_model_counter(0), cmp_ent_set_reserved(0),
    cmp_ent_set_lossy_cmp_par(cfg.round)>>

PairFields ==
  IF raw_mode THEN <<>>
  ELSE [q \in 1 .. 2 * Cardinality(Pair) |->
          LET k == (q + 1) \div 2
          IN  IF q % 2 = 1 THEN cmp_ent_set_non_ima_spill(k, cfg.spill[k])
              ELSE cmp_ent_set_non_ima_cmp_par(k, cfg.par[k])]

\* The header of a chunk: the generic fields and those of the parameters.
LEMMA ChunkHeaderParts == ChunkHeader = GenericFields \o PairFields
BY DEF ChunkHeader, GenericFields, PairFields

\* A data type and its raw bit in a number.
LEMMA TypeNumbers ==
  ASSUME NEW n \in 1 .. Len(DataTypes)
  PROVE  TypeNumber(DataTypes[n]) \in 1 .. 24 /\ DataTypes[TypeNumber(DataTypes[n])] = DataTypes[n]
<1>1. DOMAIN DataTypes = 1 .. 24 /\ Len(DataTypes) = 24
  BY DEF DataTypes
<1> QED
  BY <1>1 DEF TypeNumber

\* The chunk has a number among the data types.
LEMMA ChunkNumber ==
  TypeNumber("chunk") \in 1 .. 24 /\ DataTypes[TypeNumber("chunk")] = "chunk"
<1>1. DataTypes[24] = "chunk" /\ 24 \in 1 .. Len(DataTypes)
  BY DEF DataTypes
<1> QED
  BY <1>1, TypeNumbers

Stored(t, raw) == TypeNumber(t) + IF raw THEN RAW_BIT_DATA_TYPE ELSE 0

\* The bit of the data type that says the data are not compressed.
LEMMA RawBit == RAW_BIT_DATA_TYPE = 32768
BY DEF RAW_BIT_DATA_TYPE

\* Data type and raw bit fit into the field and come apart again.
LEMMA StoredTypes ==
  ASSUME NEW t, TypeNumber(t) \in 1 .. 24, DataTypes[TypeNumber(t)] = t, NEW raw \in BOOLEAN
  PROVE  /\ Stored(t, raw) \in Nat /\ Stored(t, raw) < 65536
         /\ Stored(t, raw) % RAW_BIT_DATA_TYPE = TypeNumber(t)
         /\ (Stored(t, raw) >= RAW_BIT_DATA_TYPE) = raw
BY RawBit DEF Stored

\* The getters of the data type and of the raw bit read what was stored.
LEMMA TypeRead ==
  ASSUME NEW h, NEW t, TypeNumber(t) \in 1 .. 24, DataTypes[TypeNumber(t)] = t,
         NEW raw \in BOOLEAN, Get(h, 22, 2) = Stored(t, raw)
  PROVE  cmp_ent_get_data_type(h) = t /\ cmp_ent_get_data_type_raw_bit(h) = raw
<1>1. DOMAIN DataTypes = 1 .. 24
  BY DEF DataTypes
<1>2. Stored(t, raw) % RAW_BIT_DATA_TYPE = TypeNumber(t)
  BY StoredTypes
<1>3. (Stored(t, raw) >= RAW_BIT_DATA_TYPE) = raw
  BY StoredTypes
<1>4. cmp_ent_get_data_type(h) = t
  BY <1>1, <1>2 DEF cmp_ent_get_data_type
<1>5. cmp_ent_get_data_type_raw_bit(h) = raw
  BY <1>3 DEF cmp_ent_get_data_type_raw_bit
<1> QED
  BY <1>4, <1>5

\* The version identifier is two words.
LEMMA VersionWords ==
  Version[1] \in Word /\ Version[2] \in Word /\ Version = <<Version[1], Version[2]>>
<1>1. Version \in [1 .. 2 -> Word]
  BY HeaderAssumption, Zenon
<1>2. PICK v \in [1 .. 2 -> Word] : v = Version
  BY <1>1, Zenon
<1>3. v[1] \in Word /\ v[2] \in Word
  OBVIOUS
<1>4. v = <<v[1], v[2]>>
  OBVIOUS
<1> QED
  BY ONLY <1>2, <1>3, <1>4, Zenon

\* The setters of the generic header, one by one.
LEMMA GenericList ==
  /\ Len(GenericFields) = 10 /\ Tuple(GenericFields)
  /\ GenericFields[1] = Words(0, <<Version[1], Version[2]>>)
  /\ GenericFields[2] = Field(4, 3, dst_size)
  /\ GenericFields[3] = Field(7, 3, ChunkSize)
  /\ GenericFields[4] = Field(22, 2, Stored("chunk", raw_mode))
  /\ GenericFields[5] = Field(24, 1, cfg.cmp_mode)
  /\ GenericFields[6] = Field(25, 1, cfg.model_value)
  /\ GenericFields[7] = Field(26, 2, 0)
  /\ GenericFields[8] = Field(28, 1, 0)
  /\ GenericFields[9] = Field(29, 1, 0)
  /\ GenericFields[10] = Field(30, 2, cfg.round)
<1>1. PICK f1, f2, f3, f4, f5, f6, f7, f8, f9, f10 :
        /\ f1 = Words(0, <<Version[1], Version[2]>>) /\ f2 = Field(4, 3, dst_size)
        /\ f3 = Field(7, 3, ChunkSize) /\ f4 = Field(22, 2, Stored("chunk", raw_mode))
        /\ f5 = Field(24, 1, cfg.cmp_mode) /\ f6 = Field(25, 1, cfg.model_value)
        /\ f7 = Field(26, 2, 0) /\ f8 = Field(28, 1, 0) /\ f9 = Field(29, 1, 0)
        /\ f10 = Field(30, 2, cfg.round)
  BY Zenon
<1>2. cmp_ent_set_version_id(Version) = f1
  BY <1>1, VersionWords DEF cmp_ent_set_version_id
<1>3. /\ cmp_ent_set_size(dst_size) = f2 /\ cmp_ent_set_original_size(ChunkSize) = f3
      /\ cmp_ent_set_data_type("chunk", raw_mode) = f4
      /\ cmp_ent_set_cmp_mode(cfg.cmp_mode) = f5
      /\ cmp_ent_set_model_value(cfg.model_value) = f6
      /\ cmp_ent_set_model_id(0) = f7 /\ cmp_ent_set_model_counter(0) = f8
      /\ cmp_ent_set_reserved(0) = f9 /\ cmp_ent_set_lossy_cmp_par(cfg.round) = f10
  BY <1>1, Zenon DEF cmp_ent_set_size, cmp_ent_set_original_size, cmp_ent_set_data_type,
     cmp_ent_set_cmp_mode, cmp_ent_set_model_value, cmp_ent_set_model_id,
     cmp_ent_set_model_counter, cmp_ent_set_reserved, cmp_ent_set_lossy_cmp_par, Stored
<1>4. GenericFields = <<f1, f2, f3, f4, f5, f6, f7, f8, f9, f10>>
  BY <1>2, <1>3, Zenon DEF GenericFields
<1>5. PICK fields : fields = <<f1, f2, f3, f4, f5, f6, f7, f8, f9, f10>>
  OBVIOUS
<1>6. /\ Len(fields) = 10 /\ fields[1] = f1 /\ fields[2] = f2 /\ fields[3] = f3 /\ fields[4] = f4
      /\ fields[5] = f5 /\ fields[6] = f6 /\ fields[7] = f7 /\ fields[8] = f8 /\ fields[9] = f9
      /\ fields[10] = f10
  BY <1>5
<1>7. Tuple(fields)
  BY <1>5 DEF Tuple
<1> QED
  BY ONLY <1>1, <1>4, <1>5, <1>6, <1>7, Zenon

\* The fields from offset 0 to 9 and from 22 to 31.
LEMMA GenericAccepted ==
  ASSUME Cfg(cfg), dst_size \in Nat, ChunkSize \in Nat,
         \A q \in 1 .. 10 : GenericFields[q].fits
  PROVE  /\ dst_size < Limit(3) /\ ChunkSize < Limit(3) /\ cfg.cmp_mode < Limit(1)
         /\ cfg.model_value < Limit(1) /\ cfg.round < Limit(2)
         /\ Takes(GenericFields[1], 0, 4) /\ Takes(GenericFields[2], 4, 3)
         /\ Takes(GenericFields[3], 7, 3) /\ Takes(GenericFields[4], 22, 2)
         /\ Takes(GenericFields[5], 24, 1) /\ Takes(GenericFields[6], 25, 1)
         /\ Takes(GenericFields[7], 26, 2) /\ Takes(GenericFields[8], 28, 1)
         /\ Takes(GenericFields[9], 29, 1) /\ Takes(GenericFields[10], 30, 2)
<1>1. /\ Field(4, 3, dst_size).fits /\ Field(7, 3, ChunkSize).fits
      /\ Field(24, 1, cfg.cmp_mode).fits /\ Field(25, 1, cfg.model_value).fits
      /\ Field(30, 2, cfg.round).fits
  <2>1. 2 \in 1 .. 10 /\ 3 \in 1 .. 10 /\ 5 \in 1 .. 10 /\ 6 \in 1 .. 10 /\ 10 \in 1 .. 10
    OBVIOUS
  <2> QED
    BY <2>1, GenericList, Zenon
<1>2. /\ 0 \in Nat /\ 4 \in Nat /\ 7 \in Nat /\ 22 \in Nat /\ 24 \in Nat /\ 25 \in Nat
      /\ 26 \in Nat /\ 28 \in Nat /\ 29 \in Nat /\ 30 \in Nat
      /\ 1 \in 1 .. 3 /\ 2 \in 1 .. 3 /\ 3 \in 1 .. 3
  OBVIOUS
<1>3. /\ cfg.cmp_mode \in Nat /\ cfg.model_value \in Nat /\ cfg.round \in Nat
  BY DEF Cfg
<1>4. /\ dst_size < Limit(3) /\ ChunkSize < Limit(3) /\ cfg.cmp_mode < Limit(1)
      /\ cfg.model_value < Limit(1) /\ cfg.round < Limit(2)
  BY <1>1, <1>2, <1>3, FieldTakes, Zenon
<1>5. 0 < Limit(1) /\ 0 < Limit(2)
  BY DEF Limit
<1>6. raw_mode \in BOOLEAN
  BY DEF raw_mode
<1>7. Stored("chunk", raw_mode) \in Nat /\ Stored("chunk", raw_mode) < Limit(2)
  <2>1. Stored("chunk", raw_mode) \in Nat /\ Stored("chunk", raw_mode) < 65536
    BY <1>6, ChunkNumber, StoredTypes
  <2> QED
    BY <2>1 DEF Limit
<1>8. /\ Takes(Field(4, 3, dst_size), 4, 3) /\ Takes(Field(7, 3, ChunkSize), 7, 3)
      /\ Takes(Field(24, 1, cfg.cmp_mode), 24, 1) /\ Takes(Field(25, 1, cfg.model_value), 25, 1)
      /\ Takes(Field(30, 2, cfg.round), 30, 2)
  BY <1>2, <1>3, <1>4, FieldWrites, Zenon
<1>9. /\ Takes(Field(26, 2, 0), 26, 2) /\ Takes(Field(28, 1, 0), 28, 1)
      /\ Takes(Field(29, 1, 0), 29, 1)
  BY <1>2, <1>5, FieldWrites, Zenon
<1>10. Takes(Field(22, 2, Stored("chunk", raw_mode)), 22, 2)
  BY <1>2, <1>7, FieldWrites, Zenon
<1>11. Takes(Words(0, <<Version[1], Version[2]>>), 0, 4)
  BY <1>2, VersionWords, TwoWordsTake, Zenon
<1> QED
  BY <1>4, <1>8, <1>9, <1>10, <1>11, GenericList, Zenon

\* The place of a field.
LEMMA TakesIs ==
  ASSUME NEW f, NEW at \in Nat, NEW n \in Nat, Takes(f, at, n)
  PROVE  IsField(f) /\ f.at = at /\ Behind(f) = at + n
BY DEF Takes, Behind

GenericTake(f) ==
  /\ Len(f) = 10
  /\ Takes(f[1], 0, 4) /\ Takes(f[2], 4, 3) /\ Takes(f[3], 7, 3) /\ Takes(f[4], 22, 2)
  /\ Takes(f[5], 24, 1) /\ Takes(f[6], 25, 1) /\ Takes(f[7], 26, 2) /\ Takes(f[8], 28, 1)
  /\ Takes(f[9], 29, 1) /\ Takes(f[10], 30, 2)

\* The generic fields follow each other and leave the timestamps out.
LEMMA GenericPlaces ==
  ASSUME NEW f, GenericTake(f)
  PROVE  /\ IsFields(f) /\ Ascending(f) /\ Covered(f) = 0 .. 9 \cup 22 .. 31
         /\ \A q \in 1 .. 10 : Behind(f[q]) <= 10 \/ (22 <= f[q].at /\ Behind(f[q]) <= 32)
<1>1. /\ f[1].at = 0 /\ Behind(f[1]) = 4 /\ f[2].at = 4 /\ Behind(f[2]) = 7
      /\ f[3].at = 7 /\ Behind(f[3]) = 10 /\ f[4].at = 22 /\ Behind(f[4]) = 24
      /\ f[5].at = 24 /\ Behind(f[5]) = 25 /\ f[6].at = 25 /\ Behind(f[6]) = 26
      /\ f[7].at = 26 /\ Behind(f[7]) = 28 /\ f[8].at = 28 /\ Behind(f[8]) = 29
      /\ f[9].at = 29 /\ Behind(f[9]) = 30 /\ f[10].at = 30 /\ Behind(f[10]) = 32
  BY DEF GenericTake, Takes, Behind
<1>2. \A q \in 1 .. 10 : q = 1 \/ q = 2 \/ q = 3 \/ q = 4 \/ q = 5 \/ q = 6 \/ q = 7 \/ q = 8
                         \/ q = 9 \/ q = 10
  OBVIOUS
<1>3. \A q \in 1 .. 10 : IsField(f[q])
  <2>1. /\ IsField(f[1]) /\ IsField(f[2]) /\ IsField(f[3]) /\ IsField(f[4]) /\ IsField(f[5])
        /\ IsField(f[6]) /\ IsField(f[7]) /\ IsField(f[8]) /\ IsField(f[9]) /\ IsField(f[10])
    BY DEF GenericTake, Takes
  <2> QED
    BY <1>2, <2>1, Zenon
<1>4. Len(f) = 10
  BY DEF GenericTake
<1>5. IsFields(f)
  BY <1>3, <1>4 DEF IsFields
<1>6. Ascending(f)
  BY <1>1, <1>4 DEF Ascending
<1>7. Covered(f) = 0 .. 9 \cup 22 .. 31
  <2>1. ASSUME NEW b \in Nat
        PROVE  (\E q \in 1 .. 10 : f[q].at <= b /\ b < Behind(f[q])) <=> b \in 0 .. 9 \cup 22 .. 31
    BY <1>1, <1>2
  <2> QED
    BY <1>4, <2>1 DEF Covered
<1>8. \A q \in 1 .. 10 : Behind(f[q]) <= 10 \/ (22 <= f[q].at /\ Behind(f[q]) <= 32)
  BY <1>1, <1>2
<1> QED
  BY <1>5, <1>6, <1>7, <1>8

\* Setters that are not refused write their fields.
LEMMA GenericTaken ==
  ASSUME Cfg(cfg), dst_size \in Nat, ChunkSize \in Nat,
         \A q \in 1 .. 10 : GenericFields[q].fits
  PROVE  GenericTake(GenericFields)
BY GenericAccepted, GenericList DEF GenericTake

\* The six pairs.
LEMMA Pairs == Cardinality(Pair) = 6 /\ 2 * Cardinality(Pair) = 12
<1>1. Cardinality(1 .. 6) = 6
  <2>1. PICK a \in Int, b \in Int : a = 1 /\ b = 6
    OBVIOUS
  <2>2. Cardinality(a .. b) = IF a > b THEN 0 ELSE b - a + 1
    BY FS_Interval
  <2> QED
    BY <2>1, <2>2
<1> QED
  BY <1>1 DEF Pair

PairField(q) ==
  IF q % 2 = 1 THEN Field(32 + 5 * (((q + 1) \div 2) - 1), 3, cfg.spill[(q + 1) \div 2])
  ELSE Field(35 + 5 * (((q + 1) \div 2) - 1), 2, cfg.par[(q + 1) \div 2])

\* The setters of the compression parameters; none for a raw chunk.
LEMMA PairList ==
  /\ Tuple(PairFields) /\ Len(PairFields) = IF raw_mode THEN 0 ELSE 12
  /\ ~ raw_mode => \A q \in 1 .. 12 : PairFields[q] = PairField(q)
<1>1. CASE raw_mode
  <2>1. PICK e : e = <<>>
    OBVIOUS
  <2>2. Tuple(e) /\ Len(e) = 0
    BY <2>1 DEF Tuple
  <2> QED
    BY <1>1, <2>1, <2>2 DEF PairFields
<1>2. CASE ~ raw_mode
  <2>1. PairFields = [q \in 1 .. 12 |-> PairField(q)]
    BY <1>2, Pairs DEF PairFields, PairField, cmp_ent_set_non_ima_spill, cmp_ent_set_non_ima_cmp_par
  <2>2. PICK p : p = [q \in 1 .. 12 |-> PairField(q)]
    OBVIOUS
  <2>3. /\ DOMAIN p = 1 .. 12 /\ p = [q \in 1 .. 12 |-> p[q]]
        /\ \A q \in 1 .. 12 : p[q] = PairField(q)
    BY <2>2
  <2>4. Len(p) = 12
    <3>1. PICK S : \A q \in 1 .. 12 : p[q] \in S
      <4>1. \A q \in 1 .. 12 : p[q] \in {p[x] : x \in 1 .. 12}
        OBVIOUS
      <4> QED
        BY <4>1
    <3>2. p \in Seq(S)
      BY <2>3, <3>1
    <3> QED
      BY <2>3, <3>2
  <2> QED
    BY <1>2, <2>1, <2>2, <2>3, <2>4 DEF Tuple
<1> QED
  BY <1>1, <1>2

\* Twelve setters: spillover threshold and parameter of six pairs.
LEMMA PairSpots ==
  ASSUME NEW q \in 1 .. 12
  PROVE  \E k \in Pair : \/ q = 2 * k - 1 /\ q % 2 = 1 /\ (q + 1) \div 2 = k
                         \/ q = 2 * k /\ q % 2 = 0 /\ (q + 1) \div 2 = k
<1>1. q = 1 \/ q = 2 \/ q = 3 \/ q = 4 \/ q = 5 \/ q = 6 \/ q = 7 \/ q = 8 \/ q = 9 \/ q = 10
      \/ q = 11 \/ q = 12
  OBVIOUS
<1>2. (q + 1) \div 2 \in Pair
  BY <1>1 DEF Pair
<1> QED
  BY <1>1, <1>2

SpillAt(k) == 32 + 5 * (k - 1)
ParAt(k) == 35 + 5 * (k - 1)

\* The setters of one pair.
LEMMA PairFieldIs ==
  ASSUME NEW k \in Pair
  PROVE  /\ 2 * k - 1 \in 1 .. 12 /\ 2 * k \in 1 .. 12
         /\ PairField(2 * k - 1) = Field(SpillAt(k), 3, cfg.spill[k])
         /\ PairField(2 * k) = Field(ParAt(k), 2, cfg.par[k])
<1>1. k \in 1 .. 6
  BY DEF Pair
<1>2. (2 * k - 1) % 2 = 1 /\ ((2 * k - 1) + 1) \div 2 = k
  BY <1>1
<1>3. (2 * k) % 2 = 0 /\ (2 * k + 1) \div 2 = k
  BY <1>1
<1>4. PICK o \in 1 .. 12, e \in 1 .. 12 : o = 2 * k - 1 /\ e = 2 * k
  BY <1>1
<1>5. PairField(o) = Field(SpillAt(k), 3, cfg.spill[k])
  <2>1. o % 2 = 1 /\ (o + 1) \div 2 = k
    BY <1>2, <1>4
  <2> QED
    BY <2>1 DEF PairField, SpillAt
<1>6. PairField(e) = Field(ParAt(k), 2, cfg.par[k])
  <2>1. e % 2 = 0 /\ (e + 1) \div 2 = k
    BY <1>3, <1>4
  <2> QED
    BY <2>1 DEF PairField, ParAt
<1> QED
  BY <1>4, <1>5, <1>6

\* The setters of a pair write five bytes.
LEMMA PairTakes ==
  ASSUME Cfg(cfg), NEW k \in Pair, PairField(2 * k - 1).fits, PairField(2 * k).fits
  PROVE  /\ cfg.spill[k] < Limit(3) /\ cfg.par[k] < Limit(2)
         /\ Takes(PairField(2 * k - 1), SpillAt(k), 3) /\ Takes(PairField(2 * k), ParAt(k), 2)
<1>1. cfg.spill[k] \in Nat /\ cfg.par[k] \in Nat
  BY DEF Cfg
<1>2. SpillAt(k) \in Nat /\ ParAt(k) \in Nat /\ 3 \in 1 .. 3 /\ 2 \in 1 .. 3
  BY DEF SpillAt, ParAt, Pair
<1>3. Field(SpillAt(k), 3, cfg.spill[k]).fits /\ Field(ParAt(k), 2, cfg.par[k]).fits
  BY PairFieldIs
<1>4. cfg.spill[k] < Limit(3) /\ cfg.par[k] < Limit(2)
  BY <1>1, <1>2, <1>3, FieldTakes, Zenon
<1>5. /\ Takes(Field(SpillAt(k), 3, cfg.spill[k]), SpillAt(k), 3)
      /\ Takes(Field(ParAt(k), 2, cfg.par[k]), ParAt(k), 2)
  BY <1>1, <1>2, <1>4, FieldWrites, Zenon
<1> QED
  BY <1>4, <1>5, PairFieldIs

\* They fill the header from offset 32 to 61.
LEMMA PairPlaces ==
  ASSUME NEW f, Len(f) = 12,
         \A k \in Pair : Takes(f[2 * k - 1], SpillAt(k), 3) /\ Takes(f[2 * k], ParAt(k), 2)
  PROVE  /\ IsFields(f) /\ Ascending(f) /\ Covered(f) = 32 .. 61
         /\ \A q \in 1 .. 12 : 32 <= f[q].at
<1>1. ASSUME NEW k \in Pair
      PROVE  /\ IsField(f[2 * k - 1]) /\ IsField(f[2 * k])
             /\ f[2 * k - 1].at = 32 + 5 * (k - 1) /\ Behind(f[2 * k - 1]) = 35 + 5 * (k - 1)
             /\ f[2 * k].at = 35 + 5 * (k - 1) /\ Behind(f[2 * k]) = 37 + 5 * (k - 1)
  <2>1. PICK g, h : g = f[2 * k - 1] /\ h = f[2 * k]
    OBVIOUS
  <2>2. Takes(g, SpillAt(k), 3) /\ Takes(h, ParAt(k), 2)
    BY <2>1
  <2>3. /\ IsField(g) /\ g.at = 32 + 5 * (k - 1) /\ Behind(g) = 32 + 5 * (k - 1) + 3
        /\ IsField(h) /\ h.at = 35 + 5 * (k - 1) /\ Behind(h) = 35 + 5 * (k - 1) + 2
    BY <2>2 DEF Takes, Behind, SpillAt, ParAt
  <2> QED
    BY <2>1, <2>3 DEF Pair
<1>2. ASSUME NEW q \in 1 .. 12
      PROVE  \E k \in Pair : q = 2 * k - 1 \/ q = 2 * k
  BY PairSpots
<1>3. \A q \in 1 .. 12 : IsField(f[q])
  BY <1>1, <1>2
<1>4. ASSUME NEW q \in 1 .. 12 PROVE 32 <= f[q].at /\ Behind(f[q]) <= 62
  <2>1. PICK k \in Pair : q = 2 * k - 1 \/ q = 2 * k
    BY <1>2
  <2> QED
    BY <1>1, <2>1 DEF Pair
<1>5. ASSUME NEW q \in 1 .. 11 PROVE Behind(f[q]) <= f[q + 1].at
  <2>1. PICK k \in Pair : q = 2 * k - 1 \/ q = 2 * k
    BY <1>2
  <2>2. CASE q = 2 * k - 1
    <3>1. q + 1 = 2 * k
      BY <2>2 DEF Pair
    <3>2. Behind(f[q]) = 35 + 5 * (k - 1)
      BY <1>1, <2>2
    <3>3. f[q + 1].at = 35 + 5 * (k - 1)
      BY <1>1, <3>1
    <3> QED
      BY <3>2, <3>3 DEF Pair
  <2>3. CASE q = 2 * k
    <3>1. PICK l \in Pair : l = k + 1
      BY <2>3 DEF Pair
    <3>2. q + 1 = 2 * l - 1
      BY <2>3, <3>1 DEF Pair
    <3>3. f[q + 1].at = 32 + 5 * (l - 1)
      BY <1>1, <3>2
    <3>4. Behind(f[q]) = 37 + 5 * (k - 1)
      BY <1>1, <2>3
    <3> QED
      BY <3>1, <3>3, <3>4 DEF Pair
  <2> QED
    BY <2>1, <2>2, <2>3
<1>6. ASSUME NEW b \in 32 .. 61
      PROVE  \E q \in 1 .. 12 : f[q].at <= b /\ b < Behind(f[q])
  <2>1. PICK k \in Pair : 32 + 5 * (k - 1) <= b /\ b < 37 + 5 * (k - 1)
    <3>1. \E k \in 1 .. 6 : 32 + 5 * (k - 1) <= b /\ b < 37 + 5 * (k - 1)
      OBVIOUS
    <3> QED
      BY <3>1 DEF Pair
  <2>2. 2 * k - 1 \in 1 .. 12 /\ 2 * k \in 1 .. 12
    BY DEF Pair
  <2>3. \/ f[2 * k - 1].at <= b /\ b < Behind(f[2 * k - 1])
        \/ f[2 * k].at <= b /\ b < Behind(f[2 * k])
    <3>1. b < 35 + 5 * (k - 1) \/ 35 + 5 * (k - 1) <= b
      BY DEF Pair
    <3> QED
      BY <1>1, <2>1, <3>1
  <2> QED
    BY <2>2, <2>3
<1>7. Covered(f) = 32 .. 61
  <2>1. ASSUME NEW b \in Nat
        PROVE  (\E q \in 1 .. 12 : f[q].at <= b /\ b < Behind(f[q])) <=> b \in 32 .. 61
    <3>1. ASSUME NEW q \in 1 .. 12, f[q].at <= b, b < Behind(f[q]) PROVE b \in 32 .. 61
      <4>1. 32 <= f[q].at /\ Behind(f[q]) <= 62
        BY <1>4
      <4>2. f[q].at \in Nat /\ Behind(f[q]) \in Nat
        <5>1. PICK g : g = f[q]
          OBVIOUS
        <5>2. IsField(g)
          BY <1>3, <5>1
        <5>3. g.at \in Nat /\ Behind(g) \in Nat
          BY <5>2 DEF IsField, Behind
        <5> QED
          BY <5>1, <5>3
      <4> QED
        BY <3>1, <4>1, <4>2
    <3> QED
      BY <1>6, <3>1
  <2>2. Covered(f) = {b \in Nat : \E q \in 1 .. 12 : f[q].at <= b /\ b < Behind(f[q])}
    BY DEF Covered
  <2>3. \A b \in 32 .. 61 : b \in Nat
    OBVIOUS
  <2> QED
    BY <2>1, <2>2, <2>3
<1> QED
  BY <1>3, <1>4, <1>5, <1>7 DEF IsFields, Ascending

\* No setter of the two lists refuses its value.
LEMMA NoneRefused ==
  ASSUME NEW X, NEW Y, Tuple(X), Tuple(Y), ~ Refused(X \o Y)
  PROVE  /\ \A q \in 1 .. Len(X) : X[q].fits
         /\ \A q \in 1 .. Len(Y) : Y[q].fits
<1>1. PICK Z : Z = X \o Y
  OBVIOUS
<1>2. /\ Tuple(Z) /\ Len(Z) = Len(X) + Len(Y) /\ Len(X) \in Nat /\ Len(Y) \in Nat
      /\ \A q \in 1 .. Len(X) : Z[q] = X[q]
      /\ \A q \in 1 .. Len(Y) : Z[Len(X) + q] = Y[q]
  BY <1>1, TupleConcat DEF Tuple
<1>3. DOMAIN Z = 1 .. Len(Z)
  BY <1>2 DEF Tuple
<1>4. \A q \in 1 .. Len(Z) : Z[q].fits
  BY <1>1, <1>3 DEF Refused
<1>5. ASSUME NEW q \in 1 .. Len(X) PROVE X[q].fits
  <2>1. q \in 1 .. Len(Z)
    BY <1>2
  <2> QED
    BY <1>2, <1>4, <2>1
<1>6. ASSUME NEW q \in 1 .. Len(Y) PROVE Y[q].fits
  <2>1. Len(X) + q \in 1 .. Len(Z)
    BY <1>2
  <2> QED
    BY <1>2, <1>4, <2>1
<1> QED
  BY <1>5, <1>6

StampFields(a, b) == cmp_ent_set_start_timestamp(a) \o cmp_ent_set_end_timestamp(b)

\* A timestamp that is not refused fits into 48 bits.
LEMMA StampZero ==
  ASSUME NEW a \in [1 .. 4 -> Word], NEW b \in [1 .. 4 -> Word], ~ Refused(StampFields(a, b))
  PROVE  a[1] = 0 /\ b[1] = 0
<1>1. PICK X, Y : X = cmp_ent_set_start_timestamp(a) /\ Y = cmp_ent_set_end_timestamp(b)
  OBVIOUS
<1>2. Tuple(X) /\ Len(X) \in {1, 2} /\ (a[1] # 0 => ~ X[1].fits)
  BY <1>1 DEF cmp_ent_set_start_timestamp, Tuple
<1>3. Tuple(Y) /\ Len(Y) \in {1, 2} /\ (b[1] # 0 => ~ Y[1].fits)
  BY <1>1 DEF cmp_ent_set_end_timestamp, Tuple
<1>4. ~ Refused(X \o Y)
  BY <1>1 DEF StampFields
<1>5. X[1].fits /\ Y[1].fits
  BY <1>2, <1>3, <1>4, NoneRefused
<1> QED
  BY <1>2, <1>3, <1>5

StampList(f, a, b) ==
  /\ Len(f) = 4 /\ Tuple(f)
  /\ f[1] = Words(10, <<a[2], a[3]>>) /\ f[2] = Words(14, <<a[4]>>)
  /\ f[3] = Words(16, <<b[2], b[3]>>) /\ f[4] = Words(20, <<b[4]>>)

Joined(Z, X, Y) ==
  /\ Tuple(Z) /\ Len(Z) = Len(X) + Len(Y)
  /\ \A q \in 1 .. Len(X) : Z[q] = X[q]
  /\ \A q \in 1 .. Len(Y) : Z[Len(X) + q] = Y[q]

\* One list behind another.
LEMMA Joins ==
  ASSUME NEW X, NEW Y, Tuple(X), Tuple(Y)
  PROVE  Joined(X \o Y, X, Y)
BY TupleConcat DEF Joined

\* Two fields behind two fields.
LEMMA TwoAndTwo ==
  ASSUME NEW X, NEW Y, Tuple(X), Tuple(Y), Len(X) = 2, Len(Y) = 2
  PROVE  X \o Y = <<X[1], X[2], Y[1], Y[2]>>
<1>1. PICK Z : Z = X \o Y
  OBVIOUS
<1>2. Joined(Z, X, Y)
  BY <1>1, Joins, Zenon
<1>3. /\ Tuple(Z) /\ Len(Z) = Len(X) + Len(Y)
      /\ \A q \in 1 .. Len(X) : Z[q] = X[q]
      /\ \A q \in 1 .. Len(Y) : Z[Len(X) + q] = Y[q]
  BY <1>2, Zenon DEF Joined
<1>4. Z = [q \in 1 .. 4 |-> Z[q]]
  BY <1>3 DEF Tuple
<1>5. Z[1] = X[1] /\ Z[2] = X[2] /\ Z[3] = Y[1] /\ Z[4] = Y[2]
  BY <1>3
<1>6. Z = <<X[1], X[2], Y[1], Y[2]>>
  BY <1>4, <1>5
<1> QED
  BY <1>1, <1>6

\* The four setters of the timestamps.
LEMMA StampListIs ==
  ASSUME NEW a \in [1 .. 4 -> Word], NEW b \in [1 .. 4 -> Word], a[1] = 0, b[1] = 0
  PROVE  StampList(StampFields(a, b), a, b)
<1>1. PICK f1, f2, f3, f4 :
        /\ f1 = Words(10, <<a[2], a[3]>>) /\ f2 = Words(14, <<a[4]>>)
        /\ f3 = Words(16, <<b[2], b[3]>>) /\ f4 = Words(20, <<b[4]>>)
  BY Zenon
<1>2. cmp_ent_set_start_timestamp(a) = <<f1, f2>>
  BY <1>1, Zenon DEF cmp_ent_set_start_timestamp, cmp_ent_set_coarse_start_time,
     cmp_ent_set_fine_start_time
<1>3. cmp_ent_set_end_timestamp(b) = <<f3, f4>>
  BY <1>1, Zenon DEF cmp_ent_set_end_timestamp, cmp_ent_set_coarse_end_time,
     cmp_ent_set_fine_end_time
<1>4. StampFields(a, b) = <<f1, f2, f3, f4>>
  <2>1. PICK X, Y : X = <<f1, f2>> /\ Y = <<f3, f4>>
    OBVIOUS
  <2>2. Tuple(X) /\ Tuple(Y) /\ Len(X) = 2 /\ Len(Y) = 2
        /\ X[1] = f1 /\ X[2] = f2 /\ Y[1] = f3 /\ Y[2] = f4
    BY <2>1 DEF Tuple
  <2>3. X \o Y = <<X[1], X[2], Y[1], Y[2]>>
    BY <2>2, TwoAndTwo, Zenon
  <2> QED
    BY ONLY <1>2, <1>3, <2>1, <2>2, <2>3, Zenon DEF StampFields
<1>5. PICK f : f = <<f1, f2, f3, f4>>
  OBVIOUS
<1>6. /\ Len(f) = 4 /\ Tuple(f) /\ f[1] = f1 /\ f[2] = f2 /\ f[3] = f3 /\ f[4] = f4
  BY <1>5 DEF Tuple
<1> QED
  BY ONLY <1>1, <1>4, <1>5, <1>6, Zenon DEF StampList

StampTake(f) ==
  /\ Len(f) = 4
  /\ Takes(f[1], 10, 4) /\ Takes(f[2], 14, 2) /\ Takes(f[3], 16, 4) /\ Takes(f[4], 20, 2)

\* Each of them writes its field.
LEMMA StampTaken ==
  ASSUME NEW a \in [1 .. 4 -> Word], NEW b \in [1 .. 4 -> Word], NEW f, StampList(f, a, b)
  PROVE  StampTake(f)
<1>1. /\ a[2] \in Word /\ a[3] \in Word /\ a[4] \in Word
      /\ b[2] \in Word /\ b[3] \in Word /\ b[4] \in Word
  OBVIOUS
<1>2. 10 \in Nat /\ 14 \in Nat /\ 16 \in Nat /\ 20 \in Nat
  OBVIOUS
<1>3. /\ Takes(Words(10, <<a[2], a[3]>>), 10, 4) /\ Takes(Words(16, <<b[2], b[3]>>), 16, 4)
  BY <1>1, <1>2, TwoWordsTake, Zenon
<1>4. /\ Takes(Words(14, <<a[4]>>), 14, 2) /\ Takes(Words(20, <<b[4]>>), 20, 2)
  BY <1>1, <1>2, WordTakes, Zenon
<1> QED
  BY <1>3, <1>4, Zenon DEF StampList, StampTake

\* The timestamps stand between 10 and 22.
LEMMA StampPlaces ==
  ASSUME NEW f, StampTake(f)
  PROVE  /\ IsFields(f) /\ Ascending(f) /\ Covered(f) = 10 .. 21
         /\ \A q \in 1 .. 4 : 10 <= f[q].at /\ Behind(f[q]) <= 22
<1>1. /\ f[1].at = 10 /\ Behind(f[1]) = 14 /\ f[2].at = 14 /\ Behind(f[2]) = 16
      /\ f[3].at = 16 /\ Behind(f[3]) = 20 /\ f[4].at = 20 /\ Behind(f[4]) = 22
  BY DEF StampTake, Takes, Behind
<1>2. \A q \in 1 .. 4 : q = 1 \/ q = 2 \/ q = 3 \/ q = 4
  OBVIOUS
<1>3. \A q \in 1 .. 4 : IsField(f[q])
  <2>1. IsField(f[1]) /\ IsField(f[2]) /\ IsField(f[3]) /\ IsField(f[4])
    BY DEF StampTake, Takes
  <2> QED
    BY <1>2, <2>1, Zenon
<1>4. Len(f) = 4
  BY DEF StampTake
<1>5. IsFields(f)
  BY <1>3, <1>4 DEF IsFields
<1>6. Ascending(f)
  BY <1>1, <1>4 DEF Ascending
<1>7. Covered(f) = 10 .. 21
  <2>1. ASSUME NEW b \in Nat
        PROVE  (\E q \in 1 .. 4 : f[q].at <= b /\ b < Behind(f[q])) <=> b \in 10 .. 21
    BY <1>1, <1>2
  <2> QED
    BY <1>4, <2>1 DEF Covered
<1>8. \A q \in 1 .. 4 : 10 <= f[q].at /\ Behind(f[q]) <= 22
  BY <1>1, <1>2
<1> QED
  BY <1>5, <1>6, <1>7, <1>8

\* Nothing the one list writes does the other overwrite.
AllApart(X, Y) == \A q \in 1 .. Len(X), r \in 1 .. Len(Y) : Apart(Y[r], X[q])

Holding(h, X) == \A q \in 1 .. Len(X) : Holds(h, X[q])

\* A list of setters, every one behind the one before it, no value refused.
Setters(X) == Tuple(X) /\ IsFields(X) /\ Ascending(X)

\* Setters aside from a field keep it.
LEMMA HoldingKept ==
  ASSUME NEW h \in Headers, NEW X, NEW Y, IsFields(X), IsFields(Y), Holding(h, X), AllApart(X, Y)
  PROVE  Holding(PutAll(h, Y), X)
<1>1. ASSUME NEW q \in 1 .. Len(X) PROVE Holds(PutAll(h, Y), X[q])
  <2>1. IsField(X[q]) /\ Holds(h, X[q]) /\ \A r \in 1 .. Len(Y) : Apart(Y[r], X[q])
    BY DEF IsFields, Holding, AllApart
  <2> QED
    BY <2>1, PutAllKeeps
<1> QED
  BY <1>1 DEF Holding

\* Ascending setters leave every field as it was written.
LEMMA HoldingAll ==
  ASSUME NEW h \in Headers, NEW X, Setters(X)
  PROVE  /\ PutAll(h, X) \in Headers /\ Holding(PutAll(h, X), X)
         /\ DOMAIN PutAll(h, X) = DOMAIN h \cup Covered(X)
BY PutAllHolds, PutAllDomain DEF Setters, Holding

\* Three lists of setters are three steps.
LEMMA ThreeSteps ==
  ASSUME NEW h \in Headers, NEW A, NEW B, NEW C, Setters(A), Setters(B), Setters(C)
  PROVE  PutAll(h, (A \o B) \o C) = PutAll(PutAll(PutAll(h, A), B), C)
<1>1. PICK h1 : h1 = PutAll(h, A)
  OBVIOUS
<1>2. PICK h2 : h2 = PutAll(h1, B)
  OBVIOUS
<1>3. h1 \in Headers
  BY <1>1, HoldingAll
<1>4. Tuple(A \o B) /\ IsFields(A \o B) /\ PutAll(h, A \o B) = h2
  BY <1>1, <1>2, PutAllConcat, TupleConcat DEF Setters
<1>5. PICK D : D = A \o B
  OBVIOUS
<1>6. Tuple(D) /\ IsFields(D) /\ PutAll(h, D) = h2 /\ Tuple(C) /\ IsFields(C)
  BY <1>4, <1>5 DEF Setters
<1>7. PutAll(h, D \o C) = PutAll(h2, C)
  BY <1>6, PutAllConcat
<1> QED
  BY <1>1, <1>2, <1>5, <1>7

HoldsThree(H, h, A, B, C) ==
  /\ H \in Headers /\ Holding(H, A) /\ Holding(H, B) /\ Holding(H, C)
  /\ DOMAIN H = ((DOMAIN h \cup Covered(A)) \cup Covered(B)) \cup Covered(C)

\* Three lists of setters apart from each other are all held at the end.
LEMMA ThreeLists ==
  ASSUME NEW h \in Headers, NEW A, NEW B, NEW C, Setters(A), Setters(B), Setters(C),
         AllApart(A, B), AllApart(A, C), AllApart(B, C)
  PROVE  HoldsThree(PutAll(h, (A \o B) \o C), h, A, B, C)
<1>1. PICK h1 : h1 = PutAll(h, A)
  OBVIOUS
<1>2. PICK h2 : h2 = PutAll(h1, B)
  OBVIOUS
<1>3. PICK h3 : h3 = PutAll(h2, C)
  OBVIOUS
<1>4. h1 \in Headers /\ Holding(h1, A) /\ DOMAIN h1 = DOMAIN h \cup Covered(A)
  BY <1>1, HoldingAll
<1>5. h2 \in Headers /\ Holding(h2, B) /\ DOMAIN h2 = DOMAIN h1 \cup Covered(B)
  BY <1>2, <1>4, HoldingAll
<1>6. h3 \in Headers /\ Holding(h3, C) /\ DOMAIN h3 = DOMAIN h2 \cup Covered(C)
  BY <1>3, <1>5, HoldingAll
<1>7. Holding(h2, A)
  BY <1>2, <1>4, HoldingKept DEF Setters
<1>8. Holding(h3, A) /\ Holding(h3, B)
  BY <1>3, <1>5, <1>7, HoldingKept DEF Setters
<1>9. PutAll(h, (A \o B) \o C) = h3
  BY <1>1, <1>2, <1>3, ThreeSteps
<1> QED
  BY <1>4, <1>5, <1>6, <1>8, <1>9 DEF HoldsThree

\* An empty list of setters writes nothing.
LEMMA NoneCovered ==
  ASSUME NEW X, Tuple(X), Len(X) = 0
  PROVE  Setters(X) /\ Covered(X) = {}
BY DEF Setters, IsFields, Ascending, Covered

\* The setters of the parameters, and the bytes they cover.
LEMMA PairFieldsPlaced ==
  ASSUME Cfg(cfg), \A q \in 1 .. Len(PairFields) : PairFields[q].fits
  PROVE  /\ Setters(PairFields)
         /\ Covered(PairFields) = IF raw_mode THEN {} ELSE 32 .. 61
         /\ \A q \in 1 .. Len(PairFields) : 32 <= PairFields[q].at
         /\ ~ raw_mode => \A k \in Pair :
              /\ cfg.spill[k] < Limit(3) /\ cfg.par[k] < Limit(2)
              /\ 2 * k - 1 \in 1 .. Len(PairFields) /\ 2 * k \in 1 .. Len(PairFields)
              /\ PairFields[2 * k - 1] = Field(SpillAt(k), 3, cfg.spill[k])
              /\ PairFields[2 * k] = Field(ParAt(k), 2, cfg.par[k])
<1>1. CASE raw_mode
  <2>1. Tuple(PairFields) /\ Len(PairFields) = 0
    BY <1>1, PairList
  <2>2. Setters(PairFields) /\ Covered(PairFields) = {}
    BY <2>1, NoneCovered
  <2> QED
    BY <1>1, <2>1, <2>2
<1>2. CASE ~ raw_mode
  <2>1. Tuple(PairFields) /\ Len(PairFields) = 12
        /\ \A q \in 1 .. 12 : PairFields[q] = PairField(q)
    BY <1>2, PairList
  <2>2. \A q \in 1 .. 12 : PairField(q).fits
    BY <2>1
  <2>3. ASSUME NEW k \in Pair
        PROVE  /\ cfg.spill[k] < Limit(3) /\ cfg.par[k] < Limit(2)
               /\ 2 * k - 1 \in 1 .. 12 /\ 2 * k \in 1 .. 12
               /\ PairFields[2 * k - 1] = Field(SpillAt(k), 3, cfg.spill[k])
               /\ PairFields[2 * k] = Field(ParAt(k), 2, cfg.par[k])
               /\ Takes(PairFields[2 * k - 1], SpillAt(k), 3)
               /\ Takes(PairFields[2 * k], ParAt(k), 2)
    <3>1. /\ 2 * k - 1 \in 1 .. 12 /\ 2 * k \in 1 .. 12
          /\ PairField(2 * k - 1) = Field(SpillAt(k), 3, cfg.spill[k])
          /\ PairField(2 * k) = Field(ParAt(k), 2, cfg.par[k])
      BY PairFieldIs, Zenon
    <3>2. PairField(2 * k - 1).fits /\ PairField(2 * k).fits
      BY <2>2, <3>1, Zenon
    <3>3. /\ cfg.spill[k] < Limit(3) /\ cfg.par[k] < Limit(2)
          /\ Takes(PairField(2 * k - 1), SpillAt(k), 3) /\ Takes(PairField(2 * k), ParAt(k), 2)
      BY <3>2, PairTakes, Zenon
    <3>4. /\ PairFields[2 * k - 1] = PairField(2 * k - 1) /\ PairFields[2 * k] = PairField(2 * k)
      BY <2>1, <3>1, Zenon
    <3> QED
      BY ONLY <3>1, <3>3, <3>4, Zenon
  <2>4. /\ IsFields(PairFields) /\ Ascending(PairFields) /\ Covered(PairFields) = 32 .. 61
        /\ \A q \in 1 .. 12 : 32 <= PairFields[q].at
    BY <2>1, <2>3, PairPlaces, Zenon
  <2> QED
    BY <1>2, <2>1, <2>3, <2>4, Zenon DEF Setters
<1> QED
  BY <1>1, <1>2, Zenon

\* A buffer nothing was written to is a header with no byte.
LEMMA NothingWritten == NoBuffer \in Headers /\ DOMAIN NoBuffer = {}
<1>1. PICK b : b = NoBuffer
  OBVIOUS
<1>2. b \in [{} -> Byte] /\ {} \in SUBSET Nat
  BY <1>1 DEF NoBuffer
<1>3. b \in Headers
  BY <1>2 DEF Headers
<1> QED
  BY <1>1, <1>2, <1>3

WordsRead(h, at, w, v) == GetWords(h, at, 2) = <<w, v>>

\* Two words that are held are read.
LEMMA WordsAreRead ==
  ASSUME NEW h, NEW at \in Nat, NEW w \in Word, NEW v \in Word, Holds(h, Words(at, <<w, v>>))
  PROVE  WordsRead(h, at, w, v)
BY WordsKept DEF WordsRead

\* What the getters find in the header of a chunk.
GenericRead(h, id, counter) ==
  /\ Get(h, 7, 3) = ChunkSize /\ Get(h, 24, 1) = cfg.cmp_mode /\ Get(h, 25, 1) = cfg.model_value
  /\ Get(h, 26, 2) = id /\ Get(h, 28, 1) = counter
  /\ Get(h, 29, 1) = 0 /\ Get(h, 30, 2) = cfg.round

StampsRead(h, start, end) ==
  /\ start[1] = 0 /\ end[1] = 0
  /\ WordsRead(h, 10, start[2], start[3]) /\ Get(h, 14, 2) = start[4]
  /\ WordsRead(h, 16, end[2], end[3]) /\ Get(h, 20, 2) = end[4]

PairsRead(h) ==
  \A k \in Pair : Get(h, SpillAt(k), 3) = cfg.spill[k] /\ Get(h, ParAt(k), 2) = cfg.par[k]

ChunkRead(h, start, end, id, counter) ==
  /\ h \in Headers /\ DOMAIN h = IF raw_mode THEN 0 .. 31 ELSE 0 .. 61
  /\ WordsRead(h, 0, Version[1], Version[2]) /\ Get(h, 4, 3) = dst_size
  /\ Get(h, 22, 2) = Stored("chunk", raw_mode)
  /\ GenericRead(h, id, counter) /\ StampsRead(h, start, end)
  /\ ~ raw_mode => PairsRead(h)

\* A field set to zero reads zero.
LEMMA ZeroKept ==
  ASSUME NEW h, NEW at \in Nat, NEW n \in 1 .. 3, Holds(h, Field(at, n, 0))
  PROVE  Get(h, at, n) = 0
<1>1. 0 \in Nat /\ 0 < Limit(n)
  BY DEF Limit
<1> QED
  BY <1>1, NumberKept, Zenon

\* What the getters read from a header that holds the generic fields.
LEMMA GenericHeld ==
  ASSUME Cfg(cfg), dst_size \in Nat, ChunkSize \in Nat,
         dst_size < Limit(3), ChunkSize < Limit(3), cfg.cmp_mode < Limit(1),
         cfg.model_value < Limit(1), cfg.round < Limit(2),
         NEW h, Holding(h, GenericFields)
  PROVE  /\ WordsRead(h, 0, Version[1], Version[2]) /\ Get(h, 4, 3) = dst_size
         /\ Get(h, 22, 2) = Stored("chunk", raw_mode) /\ GenericRead(h, 0, 0)
<1>1. /\ 1 \in 1 .. 10 /\ 2 \in 1 .. 10 /\ 3 \in 1 .. 10 /\ 4 \in 1 .. 10 /\ 5 \in 1 .. 10
      /\ 6 \in 1 .. 10 /\ 7 \in 1 .. 10 /\ 8 \in 1 .. 10 /\ 9 \in 1 .. 10 /\ 10 \in 1 .. 10
  OBVIOUS
<1>2. \A q \in 1 .. 10 : Holds(h, GenericFields[q])
  BY GenericList, Zenon DEF Holding
<1>3. /\ Holds(h, Words(0, <<Version[1], Version[2]>>)) /\ Holds(h, Field(4, 3, dst_size))
      /\ Holds(h, Field(7, 3, ChunkSize)) /\ Holds(h, Field(22, 2, Stored("chunk", raw_mode)))
      /\ Holds(h, Field(24, 1, cfg.cmp_mode)) /\ Holds(h, Field(25, 1, cfg.model_value))
      /\ Holds(h, Field(26, 2, 0)) /\ Holds(h, Field(28, 1, 0)) /\ Holds(h, Field(29, 1, 0))
      /\ Holds(h, Field(30, 2, cfg.round))
  BY <1>1, <1>2, GenericList, Zenon
<1>4. /\ 0 \in Nat /\ 4 \in Nat /\ 7 \in Nat /\ 22 \in Nat /\ 24 \in Nat /\ 25 \in Nat
      /\ 26 \in Nat /\ 28 \in Nat /\ 29 \in Nat /\ 30 \in Nat
      /\ 1 \in 1 .. 3 /\ 2 \in 1 .. 3 /\ 3 \in 1 .. 3
  OBVIOUS
<1>5. /\ cfg.cmp_mode \in Nat /\ cfg.model_value \in Nat /\ cfg.round \in Nat
  BY DEF Cfg
<1>6. Stored("chunk", raw_mode) \in Nat /\ Stored("chunk", raw_mode) < Limit(2)
  <2>1. raw_mode \in BOOLEAN
    BY DEF raw_mode
  <2>2. Stored("chunk", raw_mode) \in Nat /\ Stored("chunk", raw_mode) < 65536
    BY <2>1, ChunkNumber, StoredTypes
  <2> QED
    BY <2>2 DEF Limit
<1>7. WordsRead(h, 0, Version[1], Version[2])
  BY <1>3, <1>4, VersionWords, WordsAreRead, Zenon
<1>8. Get(h, 4, 3) = dst_size /\ Get(h, 7, 3) = ChunkSize
  BY <1>3, <1>4, NumberKept, Zenon
<1>9. Get(h, 22, 2) = Stored("chunk", raw_mode)
  BY <1>3, <1>4, <1>6, NumberKept, Zenon
<1>10. /\ Get(h, 24, 1) = cfg.cmp_mode /\ Get(h, 25, 1) = cfg.model_value
       /\ Get(h, 30, 2) = cfg.round
  BY <1>3, <1>4, <1>5, NumberKept, Zenon
<1>11. Get(h, 26, 2) = 0 /\ Get(h, 28, 1) = 0 /\ Get(h, 29, 1) = 0
  <2>1. Get(h, 26, 2) = 0
    BY <1>3, <1>4, ZeroKept, Zenon
  <2>2. Get(h, 28, 1) = 0
    BY <1>3, <1>4, ZeroKept, Zenon
  <2>3. Get(h, 29, 1) = 0
    BY <1>3, <1>4, ZeroKept, Zenon
  <2> QED
    BY <2>1, <2>2, <2>3
<1> QED
  BY <1>7, <1>8, <1>9, <1>10, <1>11, Zenon DEF GenericRead

\* What they read from one that holds the parameters.
LEMMA PairsHeld ==
  ASSUME Cfg(cfg), NEW h, Holding(h, PairFields), ~ raw_mode,
         \A q \in 1 .. Len(PairFields) : PairFields[q].fits
  PROVE  PairsRead(h)
<1>1. ASSUME NEW k \in Pair
      PROVE  Get(h, SpillAt(k), 3) = cfg.spill[k] /\ Get(h, ParAt(k), 2) = cfg.par[k]
  <2>1. /\ cfg.spill[k] < Limit(3) /\ cfg.par[k] < Limit(2)
        /\ 2 * k - 1 \in 1 .. Len(PairFields) /\ 2 * k \in 1 .. Len(PairFields)
        /\ PairFields[2 * k - 1] = Field(SpillAt(k), 3, cfg.spill[k])
        /\ PairFields[2 * k] = Field(ParAt(k), 2, cfg.par[k])
    BY PairFieldsPlaced, Zenon
  <2>2. Holds(h, Field(SpillAt(k), 3, cfg.spill[k])) /\ Holds(h, Field(ParAt(k), 2, cfg.par[k]))
    BY <2>1, Zenon DEF Holding
  <2>3. SpillAt(k) \in Nat /\ ParAt(k) \in Nat /\ 3 \in 1 .. 3 /\ 2 \in 1 .. 3
    BY DEF SpillAt, ParAt, Pair
  <2>4. cfg.spill[k] \in Nat /\ cfg.par[k] \in Nat
    BY DEF Cfg
  <2> QED
    BY <2>1, <2>2, <2>3, <2>4, NumberKept, Zenon
<1> QED
  BY <1>1, Zenon DEF PairsRead

\* What they read from one that holds the timestamps.
LEMMA StampsHeld ==
  ASSUME NEW a \in [1 .. 4 -> Word], NEW b \in [1 .. 4 -> Word], a[1] = 0, b[1] = 0,
         NEW h, Holding(h, StampFields(a, b))
  PROVE  StampsRead(h, a, b)
<1>1. 1 \in 1 .. 4 /\ 2 \in 1 .. 4 /\ 3 \in 1 .. 4 /\ 4 \in 1 .. 4
      /\ 10 \in Nat /\ 14 \in Nat /\ 16 \in Nat /\ 20 \in Nat
  OBVIOUS
<1>2. PICK f : f = StampFields(a, b)
  OBVIOUS
<1>3. StampList(f, a, b)
  BY <1>2, StampListIs, Zenon
<1>4. \A q \in 1 .. 4 : Holds(h, f[q])
  BY <1>2, <1>3, Zenon DEF Holding, StampList
<1>5. /\ Holds(h, Words(10, <<a[2], a[3]>>)) /\ Holds(h, Words(14, <<a[4]>>))
      /\ Holds(h, Words(16, <<b[2], b[3]>>)) /\ Holds(h, Words(20, <<b[4]>>))
  BY <1>1, <1>3, <1>4, Zenon DEF StampList
<1>6. /\ a[2] \in Word /\ a[3] \in Word /\ a[4] \in Word
      /\ b[2] \in Word /\ b[3] \in Word /\ b[4] \in Word
  OBVIOUS
<1>7. WordsRead(h, 10, a[2], a[3]) /\ WordsRead(h, 16, b[2], b[3])
  BY <1>1, <1>5, <1>6, WordsAreRead, Zenon
<1>8. Get(h, 14, 2) = a[4] /\ Get(h, 20, 2) = b[4]
  BY <1>1, <1>5, <1>6, WordKept, Zenon
<1> QED
  BY <1>7, <1>8, Zenon DEF StampsRead

\* No setter of a chunk header is refused, and none overwrites another.
LEMMA ChunkHeaderSetters ==
  ASSUME Cfg(cfg), dst_size \in Nat, ChunkSize \in Nat, ~ Refused(ChunkHeader)
  PROVE  /\ \A q \in 1 .. 10 : GenericFields[q].fits
         /\ \A q \in 1 .. Len(PairFields) : PairFields[q].fits
         /\ Setters(GenericFields) /\ Setters(PairFields)
         /\ AllApart(GenericFields, PairFields)
<1>1. Tuple(GenericFields) /\ Len(GenericFields) = 10
  BY GenericList, Zenon
<1>2. Tuple(PairFields)
  BY PairList, Zenon
<1>3. ~ Refused(GenericFields \o PairFields)
  BY ChunkHeaderParts, Zenon
<1>4. /\ \A q \in 1 .. Len(GenericFields) : GenericFields[q].fits
      /\ \A q \in 1 .. Len(PairFields) : PairFields[q].fits
  BY <1>1, <1>2, <1>3, NoneRefused, Zenon
<1>5. \A q \in 1 .. 10 : GenericFields[q].fits
  BY <1>1, <1>4, Zenon
<1>6. /\ IsFields(GenericFields) /\ Ascending(GenericFields)
      /\ \A q \in 1 .. 10 :
           Behind(GenericFields[q]) <= 10
           \/ (22 <= GenericFields[q].at /\ Behind(GenericFields[q]) <= 32)
  BY <1>5, GenericTaken, GenericPlaces, Zenon
<1>7. /\ Setters(PairFields) /\ \A q \in 1 .. Len(PairFields) : 32 <= PairFields[q].at
  BY <1>4, PairFieldsPlaced, Zenon
<1>8. ASSUME NEW q \in 1 .. Len(GenericFields), NEW r \in 1 .. Len(PairFields)
      PROVE  Apart(PairFields[r], GenericFields[q])
  <2>1. PICK f, g : f = GenericFields[q] /\ g = PairFields[r]
    OBVIOUS
  <2>2. Behind(f) <= 32 /\ 32 <= g.at /\ IsField(f) /\ IsField(g)
    <3>1. IsField(f) /\ IsField(g)
      BY <1>6, <1>7, <2>1, Zenon DEF IsFields, Setters
    <3>2. q \in 1 .. 10
      BY <1>1
    <3>3. Behind(f) <= 10 \/ (22 <= f.at /\ Behind(f) <= 32)
      BY <1>6, <2>1, <3>2, Zenon
    <3>4. 32 <= g.at
      BY <1>7, <2>1, Zenon
    <3>5. Behind(f) \in Nat
      BY <3>1 DEF IsField, Behind
    <3> QED
      BY <3>1, <3>3, <3>4, <3>5
  <2>3. Behind(f) \in Nat /\ g.at \in Nat
    BY <2>2 DEF IsField, Behind
  <2> QED
    BY <2>1, <2>2, <2>3 DEF Apart
<1> QED
  BY <1>1, <1>4, <1>5, <1>6, <1>7, <1>8, Zenon DEF Setters, AllApart

\* The setters of the timestamps, and the bytes they cover.
LEMMA StampSetters ==
  ASSUME NEW a \in [1 .. 4 -> Word], NEW b \in [1 .. 4 -> Word], a[1] = 0, b[1] = 0
  PROVE  /\ Setters(StampFields(a, b)) /\ Covered(StampFields(a, b)) = 10 .. 21
         /\ \A q \in 1 .. Len(StampFields(a, b)) :
              10 <= StampFields(a, b)[q].at /\ Behind(StampFields(a, b)[q]) <= 22
<1>1. PICK f : f = StampFields(a, b)
  OBVIOUS
<1>2. StampList(f, a, b)
  BY <1>1, StampListIs, Zenon
<1>3. StampTake(f)
  BY <1>2, StampTaken, Zenon
<1>4. /\ IsFields(f) /\ Ascending(f) /\ Covered(f) = 10 .. 21
      /\ \A q \in 1 .. 4 : 10 <= f[q].at /\ Behind(f[q]) <= 22
  BY <1>3, StampPlaces, Zenon
<1>5. Tuple(f) /\ Len(f) = 4
  BY <1>2, Zenon DEF StampList
<1> QED
  BY <1>1, <1>4, <1>5, Zenon DEF Setters

\* Fields outside of 10 .. 21 are apart from the timestamps.
LEMMA StampsApart ==
  ASSUME NEW X, IsFields(X), NEW Y, IsFields(Y),
         \A q \in 1 .. Len(X) : Behind(X[q]) <= 10 \/ 22 <= X[q].at,
         \A q \in 1 .. Len(Y) : 10 <= Y[q].at /\ Behind(Y[q]) <= 22
  PROVE  AllApart(X, Y)
<1>1. ASSUME NEW q \in 1 .. Len(X), NEW r \in 1 .. Len(Y) PROVE Apart(Y[r], X[q])
  <2>1. PICK f, g : f = X[q] /\ g = Y[r]
    OBVIOUS
  <2>2. IsField(f) /\ IsField(g)
    BY <2>1, Zenon DEF IsFields
  <2>3. (Behind(f) <= 10 \/ 22 <= f.at) /\ 10 <= g.at /\ Behind(g) <= 22
    BY <2>1, Zenon
  <2>4. f.at \in Nat /\ Behind(f) \in Nat /\ g.at \in Nat /\ Behind(g) \in Nat
    BY <2>2 DEF IsField, Behind
  <2>5. Apart(g, f)
    BY <2>3, <2>4 DEF Apart
  <2> QED
    BY <2>1, <2>5, Zenon
<1> QED
  BY <1>1, Zenon DEF AllApart

\* The header cmp_ent_build_chunk_header leaves: every getter reads its value.
LEMMA ChunkHeaderBuilt ==
  ASSUME Cfg(cfg), dst_size \in Nat, ChunkSize \in Nat, stamp.start \in [1 .. 4 -> Word],
         NEW end \in [1 .. 4 -> Word], ~ Refused(ChunkHeader), ~ Refused(Timestamps(end))
  PROVE  /\ ChunkRead(PutAll(NoBuffer, ChunkHeader \o Timestamps(end)), stamp.start, end, 0, 0)
         /\ dst_size < Limit(3) /\ ChunkSize < Limit(3) /\ cfg.model_value < Limit(1)
<1>1. PICK A, B, C, a : A = GenericFields /\ B = PairFields /\ C = StampFields(a, end)
                        /\ a = stamp.start
  OBVIOUS
<1>2. Timestamps(end) = C
  BY <1>1, Zenon DEF Timestamps, StampFields
<1>3. a[1] = 0 /\ end[1] = 0 /\ a \in [1 .. 4 -> Word]
  BY <1>1, <1>2, StampZero, Zenon
<1>4. /\ \A q \in 1 .. 10 : GenericFields[q].fits
      /\ \A q \in 1 .. Len(PairFields) : PairFields[q].fits
      /\ Setters(A) /\ Setters(B) /\ AllApart(A, B)
  BY <1>1, ChunkHeaderSetters, Zenon
<1>5. /\ Setters(C) /\ Covered(C) = 10 .. 21
      /\ \A q \in 1 .. Len(C) : 10 <= C[q].at /\ Behind(C[q]) <= 22
  BY <1>1, <1>3, StampSetters, Zenon
<1>6. /\ dst_size < Limit(3) /\ ChunkSize < Limit(3) /\ cfg.cmp_mode < Limit(1)
      /\ cfg.model_value < Limit(1) /\ cfg.round < Limit(2)
  BY <1>4, GenericAccepted, Zenon
<1>7. /\ Covered(A) = 0 .. 9 \cup 22 .. 31
      /\ \A q \in 1 .. 10 : Behind(A[q]) <= 10 \/ (22 <= A[q].at /\ Behind(A[q]) <= 32)
  BY <1>1, <1>4, GenericTaken, GenericPlaces, Zenon
<1>8. /\ Covered(B) = IF raw_mode THEN {} ELSE 32 .. 61
      /\ \A q \in 1 .. Len(B) : 32 <= B[q].at
  BY <1>1, <1>4, PairFieldsPlaced, Zenon
<1>9. AllApart(A, C)
  <2>1. \A q \in 1 .. Len(A) : Behind(A[q]) <= 10 \/ 22 <= A[q].at
    BY <1>1, <1>7, GenericList, Zenon
  <2> QED
    BY <1>4, <1>5, <2>1, StampsApart, Zenon DEF Setters
<1>10. AllApart(B, C)
  <2>1. ASSUME NEW q \in 1 .. Len(B) PROVE 22 <= B[q].at
    <3>1. IsField(B[q])
      BY <1>4, Zenon DEF Setters, IsFields
    <3>2. 32 <= B[q].at
      BY <1>8
    <3> QED
      BY <3>1, <3>2 DEF IsField
  <2> QED
    BY <1>4, <1>5, <2>1, StampsApart, Zenon DEF Setters
<1>11. PICK H : H = PutAll(NoBuffer, (A \o B) \o C)
  OBVIOUS
<1>12. /\ H \in Headers /\ Holding(H, A) /\ Holding(H, B) /\ Holding(H, C)
       /\ DOMAIN H = ((DOMAIN NoBuffer \cup Covered(A)) \cup Covered(B)) \cup Covered(C)
  <2>1. HoldsThree(PutAll(NoBuffer, (A \o B) \o C), NoBuffer, A, B, C)
    BY <1>4, <1>5, <1>9, <1>10, NothingWritten, ThreeLists, Zenon
  <2> QED
    BY <1>11, <2>1, Zenon DEF HoldsThree
<1>13. DOMAIN H = IF raw_mode THEN 0 .. 31 ELSE 0 .. 61
  BY <1>5, <1>7, <1>8, <1>12, NothingWritten
<1>14. /\ WordsRead(H, 0, Version[1], Version[2]) /\ Get(H, 4, 3) = dst_size
       /\ Get(H, 22, 2) = Stored("chunk", raw_mode) /\ GenericRead(H, 0, 0)
  BY <1>1, <1>6, <1>12, GenericHeld, Zenon
<1>15. StampsRead(H, a, end)
  BY <1>1, <1>3, <1>12, StampsHeld, Zenon
<1>16. ~ raw_mode => PairsRead(H)
  BY <1>1, <1>4, <1>12, PairsHeld, Zenon
<1>17. ChunkRead(H, a, end, 0, 0)
  BY <1>12, <1>13, <1>14, <1>15, <1>16, Zenon DEF ChunkRead
<1>18. H = PutAll(NoBuffer, ChunkHeader \o Timestamps(end))
  BY <1>1, <1>2, <1>11, ChunkHeaderParts, Zenon
<1> QED
  BY <1>1, <1>6, <1>17, <1>18, Zenon

\* Setting the identifiers keeps each other number.
LEMMA Unchanged ==
  ASSUME NEW h, NEW g, Steady(h, g), NEW at \in Nat, NEW n \in 1 .. 3,
         at .. at + n - 1 \subseteq DOMAIN h, at + n <= 26 \/ 29 <= at
  PROVE  Get(g, at, n) = Get(h, at, n)
BY Zenon DEF Steady

\* Setting the identifiers keeps each other pair of words.
LEMMA WordsUnchanged ==
  ASSUME NEW h, NEW g, Steady(h, g), NEW at \in Nat,
         at .. at + 3 \subseteq DOMAIN h, at + 4 <= 26
  PROVE  GetWords(g, at, 2) = GetWords(h, at, 2)
<1>1. PICK b \in Nat : b = at + 2
  OBVIOUS
<1>2. Get(g, at, 2) = Get(h, at, 2)
  BY Unchanged
<1>3. Get(g, b, 2) = Get(h, b, 2)
  BY <1>1, Unchanged
<1>4. \A x \in 1 .. 2 : at + 2 * (x - 1) = IF x = 1 THEN at ELSE b
  BY <1>1
<1>5. \A x \in 1 .. 2 : Get(g, at + 2 * (x - 1), 2) = Get(h, at + 2 * (x - 1), 2)
  BY <1>2, <1>3, <1>4
<1> QED
  BY <1>5, Zenon DEF GetWords

\* A chunk header keeps what it says when the identifiers are set.
LEMMA ChunkIdentified ==
  ASSUME NEW h, NEW start, NEW end, NEW oldid, NEW oldcounter,
         ChunkRead(h, start, end, oldid, oldcounter), NEW id \in Word, NEW counter \in Byte
  PROVE  ChunkRead(PutAll(h, Identifiers(id, counter)), start, end, id, counter)
<1>1. PICK g : g = PutAll(h, Identifiers(id, counter))
  OBVIOUS
<1>2. h \in Headers /\ DOMAIN h = IF raw_mode THEN 0 .. 31 ELSE 0 .. 61
  BY DEF ChunkRead
<1>3. 0 .. 31 \subseteq DOMAIN h
  BY <1>2
<1>4. /\ g \in Headers /\ DOMAIN g = DOMAIN h
      /\ Get(g, 26, 2) = id /\ Get(g, 28, 1) = counter /\ Steady(h, g)
  <2>1. Identified(g, h, id, counter)
    BY <1>1, <1>2, <1>3, IdentifiersSet, Zenon
  <2> QED
    BY <2>1, Zenon DEF Identified
<1>5. /\ Get(g, 4, 3) = Get(h, 4, 3) /\ Get(g, 7, 3) = Get(h, 7, 3)
      /\ Get(g, 14, 2) = Get(h, 14, 2) /\ Get(g, 20, 2) = Get(h, 20, 2)
      /\ Get(g, 22, 2) = Get(h, 22, 2) /\ Get(g, 24, 1) = Get(h, 24, 1)
      /\ Get(g, 25, 1) = Get(h, 25, 1) /\ Get(g, 29, 1) = Get(h, 29, 1)
      /\ Get(g, 30, 2) = Get(h, 30, 2)
  BY <1>3, <1>4, Unchanged
<1>6. /\ GetWords(g, 0, 2) = GetWords(h, 0, 2) /\ GetWords(g, 10, 2) = GetWords(h, 10, 2)
      /\ GetWords(g, 16, 2) = GetWords(h, 16, 2)
  BY <1>3, <1>4, WordsUnchanged
<1>7. ASSUME ~ raw_mode, NEW k \in Pair
      PROVE  /\ Get(g, SpillAt(k), 3) = Get(h, SpillAt(k), 3)
             /\ Get(g, ParAt(k), 2) = Get(h, ParAt(k), 2)
  <2>1. DOMAIN h = 0 .. 61
    BY <1>2, <1>7
  <2>2. PICK a \in Nat, b \in Nat : a = SpillAt(k) /\ b = ParAt(k)
    BY DEF SpillAt, ParAt, Pair
  <2>3. a >= 32 /\ b >= 32 /\ a + 2 <= 61 /\ b + 1 <= 61
    BY <2>2 DEF SpillAt, ParAt, Pair
  <2>4. Get(g, a, 3) = Get(h, a, 3) /\ Get(g, b, 2) = Get(h, b, 2)
    BY <1>4, <2>1, <2>3, Unchanged
  <2> QED
    BY <2>2, <2>4
<1>8. /\ WordsRead(g, 0, Version[1], Version[2]) /\ Get(g, 4, 3) = dst_size
      /\ Get(g, 22, 2) = Stored("chunk", raw_mode)
  BY <1>5, <1>6, Zenon DEF ChunkRead, WordsRead
<1>9. GenericRead(g, id, counter)
  BY <1>4, <1>5, Zenon DEF ChunkRead, GenericRead
<1>10. StampsRead(g, start, end)
  BY <1>5, <1>6, Zenon DEF ChunkRead, StampsRead, WordsRead
<1>11. ~ raw_mode => PairsRead(g)
  BY <1>7, Zenon DEF ChunkRead, PairsRead
<1>12. DOMAIN g = IF raw_mode THEN 0 .. 31 ELSE 0 .. 61
  BY <1>2, <1>4
<1> QED
  BY <1>1, <1>4, <1>8, <1>9, <1>10, <1>11, <1>12, Zenon DEF ChunkRead

\* The words of a timestamp, put together again.
LEMMA StampJoined ==
  ASSUME NEW a \in [1 .. 4 -> Word], a[1] = 0
  PROVE  <<0>> \o <<a[2], a[3]>> \o <<a[4]>> = a
OBVIOUS

\* The getters of a chunk header give back what the header was built from.
LEMMA ChunkHeaderRead ==
  ASSUME ChunkRead(ent.h, stamp.start, stamp.end, stamp.id[1], stamp.id[2]),
         stamp.start \in [1 .. 4 -> Word], stamp.end \in [1 .. 4 -> Word],
         stamp.id \in Word \X Byte, cfg.model_value \in Nat, cfg.model_value < Limit(1)
  PROVE  GenericKept /\ ChunkHeaderKept
<1>1. PICK h, a, b : h = ent.h /\ a = stamp.start /\ b = stamp.end
  OBVIOUS
<1>2. ChunkRead(h, a, b, stamp.id[1], stamp.id[2])
  BY <1>1
<1>3. cmp_ent_get_data_type(h) = "chunk" /\ cmp_ent_get_data_type_raw_bit(h) = raw_mode
  <2>1. raw_mode \in BOOLEAN /\ Get(h, 22, 2) = Stored("chunk", raw_mode)
    BY <1>2, Zenon DEF raw_mode, ChunkRead
  <2> QED
    BY <2>1, ChunkNumber, TypeRead
<1>4. cfg.model_value % 256 = cfg.model_value
  BY DEF Limit
<1>5. <<stamp.id[1], stamp.id[2]>> = stamp.id
  OBVIOUS
<1>6. GenericKept
  <2>1. GenericRead(h, stamp.id[1], stamp.id[2])
    BY <1>2, Zenon DEF ChunkRead
  <2> QED
    BY <1>1, <1>3, <1>4, <1>5, <2>1, Zenon DEF GenericKept, GenericRead, cmp_ent_get_cmp_mode,
       cmp_ent_get_model_value, cmp_ent_get_lossy_cmp_par, cmp_ent_get_original_size,
       cmp_ent_get_reserved, cmp_ent_get_model_id, cmp_ent_get_model_counter
<1>7. cmp_ent_get_version_id(h) = Version
  BY <1>2, VersionWords, Zenon DEF ChunkRead, WordsRead, cmp_ent_get_version_id
<1>8. cmp_ent_get_size(h) = dst_size
  BY <1>2, Zenon DEF ChunkRead, cmp_ent_get_size
<1>9. a \in [1 .. 4 -> Word] /\ b \in [1 .. 4 -> Word] /\ StampsRead(h, a, b)
  BY <1>1, <1>2, Zenon DEF ChunkRead
<1>10. cmp_ent_get_start_timestamp(h) = a
  <2>1. a[1] = 0 /\ GetWords(h, 10, 2) = <<a[2], a[3]>> /\ Get(h, 14, 2) = a[4]
    BY <1>9, Zenon DEF StampsRead, WordsRead
  <2>2. cmp_ent_get_start_timestamp(h) = <<0>> \o <<a[2], a[3]>> \o <<a[4]>>
    BY <2>1, Zenon DEF cmp_ent_get_start_timestamp, cmp_ent_get_coarse_start_time,
       cmp_ent_get_fine_start_time
  <2> QED
    BY <1>9, <2>1, <2>2, StampJoined, Zenon
<1>11. cmp_ent_get_end_timestamp(h) = b
  <2>1. b[1] = 0 /\ GetWords(h, 16, 2) = <<b[2], b[3]>> /\ Get(h, 20, 2) = b[4]
    BY <1>9, Zenon DEF StampsRead, WordsRead
  <2>2. cmp_ent_get_end_timestamp(h) = <<0>> \o <<b[2], b[3]>> \o <<b[4]>>
    BY <2>1, Zenon DEF cmp_ent_get_end_timestamp, cmp_ent_get_coarse_end_time,
       cmp_ent_get_fine_end_time
  <2> QED
    BY <1>9, <2>1, <2>2, StampJoined, Zenon
<1>12. ~ raw_mode => \A k \in Pair :
         /\ cmp_ent_get_non_ima_spill(h, k) = cfg.spill[k]
         /\ cmp_ent_get_non_ima_cmp_par(h, k) = cfg.par[k]
  BY <1>2, Zenon DEF ChunkRead, PairsRead, cmp_ent_get_non_ima_spill,
     cmp_ent_get_non_ima_cmp_par, SpillAt, ParAt
<1>13. DOMAIN h = IF raw_mode THEN 0 .. 31 ELSE 0 .. 61
  BY <1>2, Zenon DEF ChunkRead
<1>14. ChunkHeaderKept
  BY <1>1, <1>3, <1>7, <1>8, <1>10, <1>11, <1>12, <1>13, Zenon DEF ChunkHeaderKept
<1> QED
  BY <1>6, <1>14

-----------------------------------------------------------------------------
(* The header of an RDCU entity *)

CreatedFields(size, t, raw) == <<cmp_ent_set_size(size), cmp_ent_set_data_type(t, raw)>>

RdcuGeneric ==
  <<cmp_ent_set_original_size(2 * info.samples), cmp_ent_set_cmp_mode(info.cfg.cmp_mode),
    cmp_ent_set_model_value(info.cfg.model_value), cmp_ent_set_reserved(0),
    cmp_ent_set_lossy_cmp_par(info.cfg.round)>>

RdcuPair ==
  IF info.cfg.cmp_mode = CMP_MODE_RAW THEN <<>>
  ELSE <<cmp_ent_set_ima_spill(info.cfg.spill[IMAGETTE]),
         cmp_ent_set_ima_golomb_par(info.cfg.par[IMAGETTE])>>

RdcuAdaptive(t) ==
  IF info.cfg.cmp_mode = CMP_MODE_RAW \/ t \notin ap_imagettes THEN <<>>
  ELSE <<cmp_ent_set_ima_ap1_spill(info.rcfg.ap1_spill),
         cmp_ent_set_ima_ap1_golomb_par(info.rcfg.ap1_golomb_par),
         cmp_ent_set_ima_ap2_spill(info.rcfg.ap2_spill),
         cmp_ent_set_ima_ap2_golomb_par(info.rcfg.ap2_golomb_par)>>

\* The header of an RDCU entity: generic, parameters, adaptive parameters.
LEMMA RdcuHeaderParts ==
  ASSUME NEW t
  PROVE  RdcuHeader(t) = (RdcuGeneric \o RdcuPair) \o RdcuAdaptive(t)
BY DEF RdcuHeader, RdcuGeneric, RdcuPair, RdcuAdaptive

\* Every field of a list is in one of the ranges.
Within(X, lo, hi) == \A q \in 1 .. Len(X) : lo <= X[q].at /\ Behind(X[q]) <= hi

TwoSpots(f, a, m, b, n) ==
  \A q \in 1 .. 2 : \/ f[q].at = a /\ Behind(f[q]) = a + m
                    \/ f[q].at = b /\ Behind(f[q]) = b + n

\* Two setters, one behind the other.
LEMMA TwoFields ==
  ASSUME NEW f, Tuple(f), Len(f) = 2, NEW a \in Nat, NEW m \in Nat, NEW b \in Nat, NEW n \in Nat,
         Takes(f[1], a, m), Takes(f[2], b, n), a + m <= b
  PROVE  Setters(f) /\ TwoSpots(f, a, m, b, n)
<1>1. IsField(f[1]) /\ f[1].at = a /\ Behind(f[1]) = a + m
  BY TakesIs
<1>2. IsField(f[2]) /\ f[2].at = b /\ Behind(f[2]) = b + n
  BY TakesIs
<1>3. \A q \in 1 .. 2 : q = 1 \/ q = 2
  OBVIOUS
<1>4. \A q \in 1 .. 2 : IsField(f[q])
  BY <1>1, <1>2, <1>3, Zenon
<1>5. IsFields(f) /\ Ascending(f)
  BY <1>1, <1>2, <1>4 DEF IsFields, Ascending
<1>6. \A q \in 1 .. 2 : \/ f[q].at = a /\ Behind(f[q]) = a + m
                        \/ f[q].at = b /\ Behind(f[q]) = b + n
  BY <1>1, <1>2, <1>3, Zenon
<1> QED
  BY <1>5, <1>6 DEF Setters, TwoSpots

FiveTake(f) ==
  /\ Len(f) = 5
  /\ Takes(f[1], 7, 3) /\ Takes(f[2], 24, 1) /\ Takes(f[3], 25, 1) /\ Takes(f[4], 29, 1)
  /\ Takes(f[5], 30, 2)

\* The places of the five generic setters.
LEMMA FivePlaces ==
  ASSUME NEW f, Tuple(f), FiveTake(f)
  PROVE  /\ Setters(f)
         /\ \A q \in 1 .. 5 : \/ f[q].at = 7 /\ Behind(f[q]) = 10
                              \/ 24 <= f[q].at /\ Behind(f[q]) <= 26
                              \/ 29 <= f[q].at /\ Behind(f[q]) <= 32
<1>1. /\ f[1].at = 7 /\ Behind(f[1]) = 10 /\ f[2].at = 24 /\ Behind(f[2]) = 25
      /\ f[3].at = 25 /\ Behind(f[3]) = 26 /\ f[4].at = 29 /\ Behind(f[4]) = 30
      /\ f[5].at = 30 /\ Behind(f[5]) = 32
  BY DEF FiveTake, Takes, Behind
<1>2. \A q \in 1 .. 5 : q = 1 \/ q = 2 \/ q = 3 \/ q = 4 \/ q = 5
  OBVIOUS
<1>3. \A q \in 1 .. 5 : IsField(f[q])
  <2>1. IsField(f[1]) /\ IsField(f[2]) /\ IsField(f[3]) /\ IsField(f[4]) /\ IsField(f[5])
    BY DEF FiveTake, Takes
  <2> QED
    BY <1>2, <2>1, Zenon
<1>4. Len(f) = 5
  BY DEF FiveTake
<1>5. IsFields(f)
  BY <1>3, <1>4 DEF IsFields
<1>6. Ascending(f)
  BY <1>1, <1>4 DEF Ascending
<1>7. \A q \in 1 .. 5 : \/ f[q].at = 7 /\ Behind(f[q]) = 10
                        \/ 24 <= f[q].at /\ Behind(f[q]) <= 26
                        \/ 29 <= f[q].at /\ Behind(f[q]) <= 32
  BY <1>1, <1>2
<1> QED
  BY <1>5, <1>6, <1>7 DEF Setters

FourTake(f) ==
  /\ Len(f) = 4
  /\ Takes(f[1], 35, 2) /\ Takes(f[2], 37, 1) /\ Takes(f[3], 38, 2) /\ Takes(f[4], 40, 1)

\* The places of the four adaptive setters.
LEMMA FourPlaces ==
  ASSUME NEW f, Tuple(f), FourTake(f)
  PROVE  Setters(f) /\ Within(f, 35, 41)
<1>1. /\ f[1].at = 35 /\ Behind(f[1]) = 37 /\ f[2].at = 37 /\ Behind(f[2]) = 38
      /\ f[3].at = 38 /\ Behind(f[3]) = 40 /\ f[4].at = 40 /\ Behind(f[4]) = 41
  BY DEF FourTake, Takes, Behind
<1>2. \A q \in 1 .. 4 : q = 1 \/ q = 2 \/ q = 3 \/ q = 4
  OBVIOUS
<1>3. \A q \in 1 .. 4 : IsField(f[q])
  <2>1. IsField(f[1]) /\ IsField(f[2]) /\ IsField(f[3]) /\ IsField(f[4])
    BY DEF FourTake, Takes
  <2> QED
    BY <1>2, <2>1, Zenon
<1>4. Len(f) = 4
  BY DEF FourTake
<1>5. IsFields(f)
  BY <1>3, <1>4 DEF IsFields
<1>6. Ascending(f)
  BY <1>1, <1>4 DEF Ascending
<1>7. Within(f, 35, 41)
  BY <1>1, <1>2, <1>4 DEF Within
<1> QED
  BY <1>5, <1>6, <1>7 DEF Setters

\* The setters of cmp_ent_create.
LEMMA CreatedList ==
  ASSUME NEW size \in Nat, size < Limit(3), NEW t,
         NEW raw \in BOOLEAN, Stored(t, raw) \in Nat, Stored(t, raw) < Limit(2)
  PROVE  LET f == CreatedFields(size, t, raw)
         IN  /\ Setters(f) /\ Len(f) = 2
             /\ f[1] = Field(4, 3, size) /\ f[2] = Field(22, 2, Stored(t, raw))
             /\ \A q \in 1 .. 2 : \/ f[q].at = 4 /\ Behind(f[q]) = 7
                                  \/ f[q].at = 22 /\ Behind(f[q]) = 24
<1>1. PICK f1, f2 : f1 = Field(4, 3, size) /\ f2 = Field(22, 2, Stored(t, raw))
  BY Zenon
<1>2. CreatedFields(size, t, raw) = <<f1, f2>>
  BY <1>1, Zenon DEF CreatedFields, cmp_ent_set_size, cmp_ent_set_data_type, Stored
<1>3. PICK f : f = <<f1, f2>>
  OBVIOUS
<1>4. Tuple(f) /\ Len(f) = 2 /\ f[1] = f1 /\ f[2] = f2
  BY <1>3 DEF Tuple
<1>5. 4 \in Nat /\ 22 \in Nat /\ 2 \in 1 .. 3 /\ 3 \in 1 .. 3
  OBVIOUS
<1>6. Takes(f1, 4, 3)
  BY <1>1, <1>5, FieldWrites, Zenon
<1>7. Takes(f2, 22, 2)
  BY <1>1, <1>5, FieldWrites, Zenon
<1>8. 2 \in Nat /\ 3 \in Nat /\ 4 + 3 <= 22
  OBVIOUS
<1>9. Setters(f) /\ TwoSpots(f, 4, 3, 22, 2)
  BY <1>4, <1>5, <1>6, <1>7, <1>8, TwoFields, Zenon
<1>10. \A q \in 1 .. 2 : \/ f[q].at = 4 /\ Behind(f[q]) = 7
                         \/ f[q].at = 22 /\ Behind(f[q]) = 24
  BY <1>9 DEF TwoSpots
<1> QED
  BY <1>1, <1>2, <1>3, <1>4, <1>9, <1>10
\* The generic setters, from the information of the RDCU.
LEMMA RdcuGenericList ==
  /\ Tuple(RdcuGeneric) /\ Len(RdcuGeneric) = 5
  /\ RdcuGeneric[1] = Field(7, 3, 2 * info.samples)
  /\ RdcuGeneric[2] = Field(24, 1, info.cfg.cmp_mode)
  /\ RdcuGeneric[3] = Field(25, 1, info.cfg.model_value)
  /\ RdcuGeneric[4] = Field(29, 1, 0)
  /\ RdcuGeneric[5] = Field(30, 2, info.cfg.round)
<1>1. PICK f1, f2, f3, f4, f5 :
        /\ f1 = Field(7, 3, 2 * info.samples) /\ f2 = Field(24, 1, info.cfg.cmp_mode)
        /\ f3 = Field(25, 1, info.cfg.model_value) /\ f4 = Field(29, 1, 0)
        /\ f5 = Field(30, 2, info.cfg.round)
  BY Zenon
<1>2. RdcuGeneric = <<f1, f2, f3, f4, f5>>
  BY <1>1, Zenon DEF RdcuGeneric, cmp_ent_set_original_size, cmp_ent_set_cmp_mode,
     cmp_ent_set_model_value, cmp_ent_set_reserved, cmp_ent_set_lossy_cmp_par
<1>3. PICK f : f = <<f1, f2, f3, f4, f5>>
  OBVIOUS
<1>4. /\ Len(f) = 5 /\ Tuple(f) /\ f[1] = f1 /\ f[2] = f2 /\ f[3] = f3 /\ f[4] = f4
      /\ f[5] = f5
  BY <1>3 DEF Tuple
<1> QED
  BY ONLY <1>1, <1>2, <1>3, <1>4, Zenon

\* The setters of the imagette parameters.
LEMMA RdcuPairList ==
  /\ Tuple(RdcuPair) /\ Len(RdcuPair) = IF info.cfg.cmp_mode = CMP_MODE_RAW THEN 0 ELSE 2
  /\ info.cfg.cmp_mode # CMP_MODE_RAW =>
       /\ RdcuPair[1] = Field(32, 2, info.cfg.spill[IMAGETTE])
       /\ RdcuPair[2] = Field(34, 1, info.cfg.par[IMAGETTE])
<1>1. CASE info.cfg.cmp_mode = CMP_MODE_RAW
  <2>1. PICK e : e = <<>>
    OBVIOUS
  <2>2. Tuple(e) /\ Len(e) = 0
    BY <2>1 DEF Tuple
  <2> QED
    BY <1>1, <2>1, <2>2 DEF RdcuPair
<1>2. CASE info.cfg.cmp_mode # CMP_MODE_RAW
  <2>1. PICK f1, f2 : /\ f1 = Field(32, 2, info.cfg.spill[IMAGETTE])
                      /\ f2 = Field(34, 1, info.cfg.par[IMAGETTE])
    BY Zenon
  <2>2. RdcuPair = <<f1, f2>>
    BY <1>2, <2>1, Zenon DEF RdcuPair, cmp_ent_set_ima_spill, cmp_ent_set_ima_golomb_par
  <2>3. PICK f : f = <<f1, f2>>
    OBVIOUS
  <2>4. Tuple(f) /\ Len(f) = 2 /\ f[1] = f1 /\ f[2] = f2
    BY <2>3 DEF Tuple
  <2> QED
    BY ONLY <1>2, <2>1, <2>2, <2>3, <2>4, Zenon
<1> QED
  BY <1>1, <1>2

\* The setters of the adaptive parameters.
LEMMA RdcuAdaptiveList ==
  ASSUME NEW t
  PROVE  /\ Tuple(RdcuAdaptive(t))
         /\ Len(RdcuAdaptive(t)) =
              IF info.cfg.cmp_mode = CMP_MODE_RAW \/ t \notin ap_imagettes THEN 0 ELSE 4
         /\ info.cfg.cmp_mode # CMP_MODE_RAW /\ t \in ap_imagettes =>
              /\ RdcuAdaptive(t)[1] = Field(35, 2, info.rcfg.ap1_spill)
              /\ RdcuAdaptive(t)[2] = Field(37, 1, info.rcfg.ap1_golomb_par)
              /\ RdcuAdaptive(t)[3] = Field(38, 2, info.rcfg.ap2_spill)
              /\ RdcuAdaptive(t)[4] = Field(40, 1, info.rcfg.ap2_golomb_par)
<1>1. CASE info.cfg.cmp_mode = CMP_MODE_RAW \/ t \notin ap_imagettes
  <2>1. PICK e : e = <<>>
    OBVIOUS
  <2>2. Tuple(e) /\ Len(e) = 0
    BY <2>1 DEF Tuple
  <2> QED
    BY <1>1, <2>1, <2>2 DEF RdcuAdaptive
<1>2. CASE ~ (info.cfg.cmp_mode = CMP_MODE_RAW \/ t \notin ap_imagettes)
  <2>1. PICK f1, f2, f3, f4 :
          /\ f1 = Field(35, 2, info.rcfg.ap1_spill)
          /\ f2 = Field(37, 1, info.rcfg.ap1_golomb_par)
          /\ f3 = Field(38, 2, info.rcfg.ap2_spill)
          /\ f4 = Field(40, 1, info.rcfg.ap2_golomb_par)
    BY Zenon
  <2>2. RdcuAdaptive(t) = <<f1, f2, f3, f4>>
    BY <1>2, <2>1, Zenon DEF RdcuAdaptive, cmp_ent_set_ima_ap1_spill,
       cmp_ent_set_ima_ap1_golomb_par, cmp_ent_set_ima_ap2_spill, cmp_ent_set_ima_ap2_golomb_par
  <2>3. PICK f : f = <<f1, f2, f3, f4>>
    OBVIOUS
  <2>4. Tuple(f) /\ Len(f) = 4 /\ f[1] = f1 /\ f[2] = f2 /\ f[3] = f3 /\ f[4] = f4
    BY <2>3 DEF Tuple
  <2> QED
    BY ONLY <1>2, <2>1, <2>2, <2>3, <2>4, Zenon
<1> QED
  BY <1>1, <1>2

RdcuTyped ==
  /\ Cfg(info.cfg) /\ info.samples \in Nat /\ info.cmp_size \in Nat
  /\ info.rcfg.ap1_spill \in Nat /\ info.rcfg.ap1_golomb_par \in Nat
  /\ info.rcfg.ap2_spill \in Nat /\ info.rcfg.ap2_golomb_par \in Nat

Fits(X) == \A q \in 1 .. Len(X) : X[q].fits

\* Of an RDCU entity's header the fields behind the size and the data type.
RdcuGenericRead(h) ==
  /\ Get(h, 7, 3) = 2 * info.samples /\ Get(h, 24, 1) = info.cfg.cmp_mode
  /\ Get(h, 25, 1) = info.cfg.model_value /\ Get(h, 29, 1) = 0
  /\ Get(h, 30, 2) = info.cfg.round

RdcuPairRead(h) ==
  info.cfg.cmp_mode # CMP_MODE_RAW =>
    Get(h, 32, 2) = info.cfg.spill[IMAGETTE] /\ Get(h, 34, 1) = info.cfg.par[IMAGETTE]

RdcuAdaptiveRead(h, t) ==
  info.cfg.cmp_mode # CMP_MODE_RAW /\ t \in ap_imagettes =>
    /\ Get(h, 35, 2) = info.rcfg.ap1_spill /\ Get(h, 37, 1) = info.rcfg.ap1_golomb_par
    /\ Get(h, 38, 2) = info.rcfg.ap2_spill /\ Get(h, 40, 1) = info.rcfg.ap2_golomb_par

RdcuSpots(X) ==
  \A q \in 1 .. Len(X) : \/ X[q].at = 7 /\ Behind(X[q]) = 10
                         \/ 24 <= X[q].at /\ Behind(X[q]) <= 26
                         \/ 29 <= X[q].at /\ Behind(X[q]) <= 32

\* A header that holds the generic setters reads as the information says.
LEMMA RdcuGenericSet ==
  ASSUME RdcuTyped, Fits(RdcuGeneric)
  PROVE  /\ Setters(RdcuGeneric) /\ RdcuSpots(RdcuGeneric)
         /\ \A h : Holding(h, RdcuGeneric) => RdcuGenericRead(h)
<1>1. 1 \in 1 .. 5 /\ 2 \in 1 .. 5 /\ 3 \in 1 .. 5 /\ 4 \in 1 .. 5 /\ 5 \in 1 .. 5
  OBVIOUS
<1>2. /\ 7 \in Nat /\ 24 \in Nat /\ 25 \in Nat /\ 29 \in Nat /\ 30 \in Nat
      /\ 1 \in 1 .. 3 /\ 2 \in 1 .. 3 /\ 3 \in 1 .. 3
  OBVIOUS
<1>3. \A q \in 1 .. 5 : RdcuGeneric[q].fits
  BY RdcuGenericList, Zenon DEF Fits
<1>4. /\ Field(7, 3, 2 * info.samples).fits /\ Field(24, 1, info.cfg.cmp_mode).fits
      /\ Field(25, 1, info.cfg.model_value).fits /\ Field(30, 2, info.cfg.round).fits
  BY <1>1, <1>3, RdcuGenericList, Zenon
<1>5. /\ 2 * info.samples \in Nat /\ info.cfg.cmp_mode \in Nat
      /\ info.cfg.model_value \in Nat /\ info.cfg.round \in Nat
  BY DEF RdcuTyped, Cfg
<1>6. /\ 2 * info.samples < Limit(3) /\ info.cfg.cmp_mode < Limit(1)
      /\ info.cfg.model_value < Limit(1) /\ info.cfg.round < Limit(2)
  BY <1>2, <1>4, <1>5, FieldTakes, Zenon
<1>7. /\ Takes(Field(7, 3, 2 * info.samples), 7, 3) /\ Takes(Field(24, 1, info.cfg.cmp_mode), 24, 1)
      /\ Takes(Field(25, 1, info.cfg.model_value), 25, 1)
      /\ Takes(Field(30, 2, info.cfg.round), 30, 2)
  BY <1>2, <1>5, <1>6, FieldWrites, Zenon
<1>8. Takes(Field(29, 1, 0), 29, 1)
  <2>1. 0 \in Nat /\ 0 < Limit(1)
    BY DEF Limit
  <2> QED
    BY <1>2, <2>1, FieldWrites, Zenon
<1>9. FiveTake(RdcuGeneric) /\ Tuple(RdcuGeneric)
  BY <1>7, <1>8, RdcuGenericList, Zenon DEF FiveTake
<1>10. Setters(RdcuGeneric) /\ RdcuSpots(RdcuGeneric)
  BY <1>9, FivePlaces, RdcuGenericList, Zenon DEF RdcuSpots
<1>11. ASSUME NEW h, Holding(h, RdcuGeneric) PROVE RdcuGenericRead(h)
  <2>1. \A q \in 1 .. 5 : Holds(h, RdcuGeneric[q])
    BY <1>11, RdcuGenericList, Zenon DEF Holding
  <2>2. /\ Holds(h, Field(7, 3, 2 * info.samples)) /\ Holds(h, Field(24, 1, info.cfg.cmp_mode))
        /\ Holds(h, Field(25, 1, info.cfg.model_value)) /\ Holds(h, Field(29, 1, 0))
        /\ Holds(h, Field(30, 2, info.cfg.round))
    BY <1>1, <2>1, RdcuGenericList, Zenon
  <2>3. Get(h, 7, 3) = 2 * info.samples
    BY <1>2, <1>5, <1>6, <2>2, NumberKept, Zenon
  <2>4. Get(h, 24, 1) = info.cfg.cmp_mode
    BY <1>2, <1>5, <1>6, <2>2, NumberKept, Zenon
  <2>5. Get(h, 25, 1) = info.cfg.model_value
    BY <1>2, <1>5, <1>6, <2>2, NumberKept, Zenon
  <2>6. Get(h, 30, 2) = info.cfg.round
    BY <1>2, <1>5, <1>6, <2>2, NumberKept, Zenon
  <2>7. Get(h, 29, 1) = 0
    BY <1>2, <2>2, ZeroKept, Zenon
  <2> QED
    BY <2>3, <2>4, <2>5, <2>6, <2>7, Zenon DEF RdcuGenericRead
<1> QED
  BY <1>10, <1>11, Zenon

\* The same for the imagette parameters.
LEMMA RdcuPairSet ==
  ASSUME RdcuTyped, Fits(RdcuPair)
  PROVE  /\ Setters(RdcuPair) /\ Within(RdcuPair, 32, 35)
         /\ Len(RdcuPair) > 0 => info.cfg.cmp_mode # CMP_MODE_RAW
         /\ \A h : Holding(h, RdcuPair) => RdcuPairRead(h)
<1>1. CASE info.cfg.cmp_mode = CMP_MODE_RAW
  <2>1. Tuple(RdcuPair) /\ Len(RdcuPair) = 0
    BY <1>1, RdcuPairList
  <2>2. Setters(RdcuPair)
    BY <2>1, NoneCovered, Zenon
  <2>3. Within(RdcuPair, 32, 35)
    BY <2>1 DEF Within
  <2> QED
    BY <1>1, <2>1, <2>2, <2>3 DEF RdcuPairRead
<1>2. CASE info.cfg.cmp_mode # CMP_MODE_RAW
  <2>1. /\ Tuple(RdcuPair) /\ Len(RdcuPair) = 2
        /\ RdcuPair[1] = Field(32, 2, info.cfg.spill[IMAGETTE])
        /\ RdcuPair[2] = Field(34, 1, info.cfg.par[IMAGETTE])
    BY <1>2, RdcuPairList
  <2>2. /\ 1 \in 1 .. 2 /\ 2 \in 1 .. 2 /\ 32 \in Nat /\ 34 \in Nat /\ 2 \in Nat /\ 1 \in Nat
        /\ 1 \in 1 .. 3 /\ 2 \in 1 .. 3 /\ 32 + 2 <= 34
    OBVIOUS
  <2>3. info.cfg.spill[IMAGETTE] \in Nat /\ info.cfg.par[IMAGETTE] \in Nat
    <3>1. IMAGETTE \in Pair
      BY DEF IMAGETTE, Pair
    <3> QED
      BY <3>1 DEF RdcuTyped, Cfg
  <2>4. /\ Field(32, 2, info.cfg.spill[IMAGETTE]).fits /\ Field(34, 1, info.cfg.par[IMAGETTE]).fits
    BY <2>1, <2>2, Zenon DEF Fits
  <2>5. info.cfg.spill[IMAGETTE] < Limit(2) /\ info.cfg.par[IMAGETTE] < Limit(1)
    BY <2>2, <2>3, <2>4, FieldTakes, Zenon
  <2>6. /\ Takes(Field(32, 2, info.cfg.spill[IMAGETTE]), 32, 2)
        /\ Takes(Field(34, 1, info.cfg.par[IMAGETTE]), 34, 1)
    BY <2>2, <2>3, <2>5, FieldWrites, Zenon
  <2>7. Setters(RdcuPair) /\ TwoSpots(RdcuPair, 32, 2, 34, 1)
    BY <2>1, <2>2, <2>6, TwoFields, Zenon
  <2>8. Within(RdcuPair, 32, 35)
    BY <2>1, <2>7 DEF Within, TwoSpots
  <2>9. ASSUME NEW h, Holding(h, RdcuPair) PROVE RdcuPairRead(h)
    <3>1. /\ Holds(h, Field(32, 2, info.cfg.spill[IMAGETTE]))
          /\ Holds(h, Field(34, 1, info.cfg.par[IMAGETTE]))
      BY <2>1, <2>2, <2>9, Zenon DEF Holding
    <3>2. Get(h, 32, 2) = info.cfg.spill[IMAGETTE]
      BY <2>2, <2>3, <2>5, <3>1, NumberKept, Zenon
    <3>3. Get(h, 34, 1) = info.cfg.par[IMAGETTE]
      BY <2>2, <2>3, <2>5, <3>1, NumberKept, Zenon
    <3> QED
      BY <3>2, <3>3, Zenon DEF RdcuPairRead
  <2> QED
    BY <1>2, <2>7, <2>8, <2>9, Zenon
<1> QED
  BY <1>1, <1>2, Zenon

\* The same for the adaptive parameters.
LEMMA RdcuAdaptiveSet ==
  ASSUME RdcuTyped, NEW t, Fits(RdcuAdaptive(t))
  PROVE  /\ Setters(RdcuAdaptive(t)) /\ Within(RdcuAdaptive(t), 35, 41)
         /\ Len(RdcuAdaptive(t)) > 0 => info.cfg.cmp_mode # CMP_MODE_RAW /\ t \in ap_imagettes
         /\ \A h : Holding(h, RdcuAdaptive(t)) => RdcuAdaptiveRead(h, t)
<1>1. CASE info.cfg.cmp_mode = CMP_MODE_RAW \/ t \notin ap_imagettes
  <2>1. Tuple(RdcuAdaptive(t)) /\ Len(RdcuAdaptive(t)) = 0
    BY <1>1, RdcuAdaptiveList
  <2>2. Setters(RdcuAdaptive(t))
    BY <2>1, NoneCovered, Zenon
  <2>3. Within(RdcuAdaptive(t), 35, 41)
    BY <2>1 DEF Within
  <2> QED
    BY <1>1, <2>1, <2>2, <2>3 DEF RdcuAdaptiveRead
<1>2. CASE info.cfg.cmp_mode # CMP_MODE_RAW /\ t \in ap_imagettes
  <2>0. PICK f, v1, v2, v3, v4 :
          /\ f = RdcuAdaptive(t) /\ v1 = info.rcfg.ap1_spill /\ v2 = info.rcfg.ap1_golomb_par
          /\ v3 = info.rcfg.ap2_spill /\ v4 = info.rcfg.ap2_golomb_par
    BY Zenon
  <2>1. /\ Tuple(f) /\ Len(f) = 4
        /\ f[1] = Field(35, 2, v1) /\ f[2] = Field(37, 1, v2)
        /\ f[3] = Field(38, 2, v3) /\ f[4] = Field(40, 1, v4)
    BY <1>2, <2>0, RdcuAdaptiveList
  <2>2. /\ 1 \in 1 .. 4 /\ 2 \in 1 .. 4 /\ 3 \in 1 .. 4 /\ 4 \in 1 .. 4
        /\ 35 \in Nat /\ 37 \in Nat /\ 38 \in Nat /\ 40 \in Nat
        /\ 1 \in 1 .. 3 /\ 2 \in 1 .. 3
    OBVIOUS
  <2>3. v1 \in Nat /\ v2 \in Nat /\ v3 \in Nat /\ v4 \in Nat
    BY <2>0 DEF RdcuTyped
  <2>4. /\ Field(35, 2, v1).fits /\ Field(37, 1, v2).fits
        /\ Field(38, 2, v3).fits /\ Field(40, 1, v4).fits
    <3>1. \A q \in 1 .. 4 : f[q].fits
      BY <2>0, <2>1, Zenon DEF Fits
    <3> QED
      BY <2>1, <2>2, <3>1, Zenon
  <2>5. v1 < Limit(2) /\ v2 < Limit(1) /\ v3 < Limit(2) /\ v4 < Limit(1)
    BY <2>2, <2>3, <2>4, FieldTakes, Zenon
  <2>6. /\ Takes(f[1], 35, 2) /\ Takes(f[2], 37, 1) /\ Takes(f[3], 38, 2) /\ Takes(f[4], 40, 1)
    <3>1. /\ Takes(Field(35, 2, v1), 35, 2) /\ Takes(Field(37, 1, v2), 37, 1)
          /\ Takes(Field(38, 2, v3), 38, 2) /\ Takes(Field(40, 1, v4), 40, 1)
      BY <2>2, <2>3, <2>5, FieldWrites, Zenon
    <3> QED
      BY <2>1, <3>1, Zenon
  <2>7. Setters(f) /\ Within(f, 35, 41)
    BY <2>1, <2>6, FourPlaces, Zenon DEF FourTake
  <2>8. ASSUME NEW h, Holding(h, f) PROVE RdcuAdaptiveRead(h, t)
    <3>1. /\ Holds(h, Field(35, 2, v1)) /\ Holds(h, Field(37, 1, v2))
          /\ Holds(h, Field(38, 2, v3)) /\ Holds(h, Field(40, 1, v4))
      <4>1. \A q \in 1 .. 4 : Holds(h, f[q])
        BY <2>1, <2>8, Zenon DEF Holding
      <4> QED
        BY <2>1, <2>2, <4>1, Zenon
    <3>2. Get(h, 35, 2) = v1
      BY <2>2, <2>3, <2>5, <3>1, NumberKept, Zenon
    <3>3. Get(h, 37, 1) = v2
      BY <2>2, <2>3, <2>5, <3>1, NumberKept, Zenon
    <3>4. Get(h, 38, 2) = v3
      BY <2>2, <2>3, <2>5, <3>1, NumberKept, Zenon
    <3>5. Get(h, 40, 1) = v4
      BY <2>2, <2>3, <2>5, <3>1, NumberKept, Zenon
    <3> QED
      BY <2>0, <3>2, <3>3, <3>4, <3>5, Zenon DEF RdcuAdaptiveRead
  <2> QED
    BY <1>2, <2>0, <2>7, <2>8, Zenon
<1> QED
  BY <1>1, <1>2, Zenon

\* The imagettes have numbers among the data types.
LEMMA ImagetteNumber ==
  ASSUME NEW t \in imagettes
  PROVE  TypeNumber(t) \in 1 .. 24 /\ DataTypes[TypeNumber(t)] = t
<1>1. /\ DataTypes[1] = "imagette" /\ DataTypes[2] = "imagette_adaptive"
      /\ DataTypes[3] = "sat_imagette" /\ DataTypes[4] = "sat_imagette_adaptive"
      /\ DataTypes[20] = "f_cam_imagette" /\ DataTypes[21] = "f_cam_imagette_adaptive"
      /\ Len(DataTypes) = 24
  BY DEF DataTypes
<1>2. PICK n \in 1 .. Len(DataTypes) : DataTypes[n] = t
  <2>1. \/ t = "imagette" \/ t = "imagette_adaptive" \/ t = "sat_imagette"
        \/ t = "sat_imagette_adaptive" \/ t = "f_cam_imagette" \/ t = "f_cam_imagette_adaptive"
    BY DEF imagettes, ap_imagettes
  <2>2. /\ 1 \in 1 .. Len(DataTypes) /\ 2 \in 1 .. Len(DataTypes) /\ 3 \in 1 .. Len(DataTypes)
        /\ 4 \in 1 .. Len(DataTypes) /\ 20 \in 1 .. Len(DataTypes) /\ 21 \in 1 .. Len(DataTypes)
    BY <1>1
  <2> QED
    BY <1>1, <2>1, <2>2, Zenon
<1>3. TypeNumber(DataTypes[n]) \in 1 .. 24 /\ DataTypes[TypeNumber(DataTypes[n])] = DataTypes[n]
  BY TypeNumbers, Zenon
<1> QED
  BY <1>2, <1>3, Zenon

\* The header sizes of the imagettes.
LEMMA ImagetteHeaderSize ==
  ASSUME NEW t \in imagettes, NEW raw \in BOOLEAN
  PROVE  cmp_ent_cal_hdr_size(t, raw) = IF raw THEN 32 ELSE IF t \in ap_imagettes THEN 44 ELSE 36
<1>1. t # "unknown"
  BY DEF imagettes, ap_imagettes
<1> QED
  BY <1>1 DEF cmp_ent_cal_hdr_size, GENERIC_HEADER_SIZE, IMAGETTE_ADAPTIVE_HEADER_SIZE,
     IMAGETTE_HEADER_SIZE

\* cmp_ent_create clears the header it makes.
LEMMA ClearedIs ==
  ASSUME NEW n \in Nat, n >= 32
  PROVE  /\ Cleared(n) \in Headers /\ DOMAIN Cleared(n) = 0 .. n - 1
         /\ Get(Cleared(n), 26, 2) = 0 /\ Get(Cleared(n), 28, 1) = 0
<1>1. PICK h : h = Cleared(n)
  OBVIOUS
<1>2. h = [b \in DOMAIN h |-> h[b]] /\ DOMAIN h = 0 .. n - 1
  BY <1>1 DEF Cleared
<1>3. \A b \in 0 .. n - 1 : h[b] = 0
  BY <1>1 DEF Cleared
<1>4. 0 \in Byte
  BY DEF Byte
<1>5. DOMAIN h \subseteq Nat
  BY <1>2
<1>6. \A b \in DOMAIN h : h[b] \in Byte
  BY <1>2, <1>3, <1>4, Zenon
<1>7. h \in Headers
  BY <1>2, <1>5, <1>6, HeaderIs, Zenon
<1>8. h[26] = 0 /\ h[26 + 1] = 0 /\ h[28] = 0
  BY <1>3
<1>9. 26 \in Nat /\ 28 \in Nat
  OBVIOUS
<1>10. Get(h, 26, 2) = 0 * 256 + 0
  BY <1>4, <1>8, <1>9, GetTwo
<1>11. Get(h, 28, 1) = 0
  BY <1>4, <1>8, <1>9, GetOne
<1> QED
  BY <1>1, <1>2, <1>7, <1>10, <1>11

\* The identifiers are not among the fields.
Aside(X) == \A q \in 1 .. Len(X) : Behind(X[q]) <= 26 \/ 29 <= X[q].at

\* Setters aside from the identifiers keep them.
LEMMA AsideIdentifiers ==
  ASSUME NEW h \in Headers, 0 .. 31 \subseteq DOMAIN h, NEW X, Setters(X), Aside(X)
  PROVE  /\ Get(PutAll(h, X), 26, 2) = Get(h, 26, 2) /\ Get(PutAll(h, X), 28, 1) = Get(h, 28, 1)
         /\ PutAll(h, X) \in Headers /\ 0 .. 31 \subseteq DOMAIN PutAll(h, X)
<1>1. IsFields(X) /\ PutAll(h, X) \in Headers /\ DOMAIN PutAll(h, X) = DOMAIN h \cup Covered(X)
  BY HoldingAll, Zenon DEF Setters
<1>2. ASSUME NEW q \in 1 .. Len(X)
      PROVE  /\ 26 + 2 <= X[q].at \/ Behind(X[q]) <= 26
             /\ 28 + 1 <= X[q].at \/ Behind(X[q]) <= 28
  <2>1. PICK f : f = X[q]
    OBVIOUS
  <2>2. IsField(f) /\ (Behind(f) <= 26 \/ 29 <= f.at)
    BY <1>1, <2>1, Zenon DEF IsFields, Aside
  <2>3. f.at \in Nat /\ Behind(f) \in Nat
    BY ONLY <2>2 DEF IsField, Behind
  <2> QED
    BY ONLY <2>1, <2>2, <2>3
<1>3. 26 .. 26 + 2 - 1 \subseteq DOMAIN h /\ 28 .. 28 + 1 - 1 \subseteq DOMAIN h
  OBVIOUS
<1>4. 26 \in Nat /\ 28 \in Nat /\ 2 \in 1 .. 3 /\ 1 \in 1 .. 3
  OBVIOUS
<1>5. Get(PutAll(h, X), 26, 2) = Get(h, 26, 2)
  BY <1>1, <1>2, <1>3, <1>4, NumberStays, Zenon
<1>6. Get(PutAll(h, X), 28, 1) = Get(h, 28, 1)
  BY <1>1, <1>2, <1>3, <1>4, NumberStays, Zenon
<1> QED
  BY <1>1, <1>5, <1>6

\* Fields within two bounds cover bytes within them.
LEMMA CoveredWithin ==
  ASSUME NEW X, IsFields(X), NEW lo \in Nat, NEW hi \in Nat, Within(X, lo, hi)
  PROVE  Covered(X) \subseteq lo .. hi - 1 /\ (Len(X) = 0 => Covered(X) = {})
<1>1. ASSUME NEW b \in Nat, NEW q \in 1 .. Len(X), X[q].at <= b, b < Behind(X[q])
      PROVE  b \in lo .. hi - 1
  <2>1. PICK f : f = X[q]
    OBVIOUS
  <2>2. IsField(f) /\ lo <= f.at /\ Behind(f) <= hi
    BY <2>1, Zenon DEF IsFields, Within
  <2>3. f.at \in Nat /\ Behind(f) \in Nat
    BY <2>2 DEF IsField, Behind
  <2> QED
    BY <1>1, <2>1, <2>2, <2>3
<1>2. Len(X) \in Nat
  BY DEF IsFields
<1> QED
  BY <1>1, <1>2 DEF Covered

Created(h, t, raw, bytes) ==
  /\ h \in Headers /\ DOMAIN h = 0 .. cmp_ent_cal_hdr_size(t, raw) - 1
  /\ cmp_ent_cal_hdr_size(t, raw) + bytes < Limit(3)
  /\ Holding(h, CreatedFields(cmp_ent_cal_hdr_size(t, raw) + bytes, t, raw))
  /\ Get(h, 26, 2) = 0 /\ Get(h, 28, 1) = 0

\* A header of 32 bytes or more has the generic ones.
LEMMA FirstBytes ==
  ASSUME NEW n \in Nat, n >= 32, NEW d, d = 0 .. n - 1
  PROVE  0 .. 31 \subseteq d
OBVIOUS

CreatedSpots(f) ==
  \A q \in 1 .. Len(f) : \/ f[q].at = 4 /\ Behind(f[q]) = 7
                         \/ f[q].at = 22 /\ Behind(f[q]) = 24

\* cmp_ent_create sets size and data type.
LEMMA CreatedSetters ==
  ASSUME NEW size \in Nat, size < Limit(3), NEW t \in imagettes, NEW raw \in BOOLEAN
  PROVE  /\ Setters(CreatedFields(size, t, raw)) /\ CreatedSpots(CreatedFields(size, t, raw))
         /\ \A h : Holding(h, CreatedFields(size, t, raw)) =>
              Get(h, 4, 3) = size /\ Get(h, 22, 2) = Stored(t, raw)
<1>1. Stored(t, raw) \in Nat /\ Stored(t, raw) < Limit(2)
  <2>1. Stored(t, raw) \in Nat /\ Stored(t, raw) < 65536
    BY ImagetteNumber, StoredTypes
  <2> QED
    BY <2>1 DEF Limit
<1>2. PICK f : f = CreatedFields(size, t, raw)
  OBVIOUS
<1>3. /\ Setters(f) /\ Len(f) = 2
      /\ f[1] = Field(4, 3, size) /\ f[2] = Field(22, 2, Stored(t, raw))
      /\ \A q \in 1 .. 2 : \/ f[q].at = 4 /\ Behind(f[q]) = 7
                           \/ f[q].at = 22 /\ Behind(f[q]) = 24
  BY <1>1, <1>2, CreatedList
<1>4. CreatedSpots(f)
  BY <1>3, Zenon DEF CreatedSpots
<1>5. ASSUME NEW h, Holding(h, f) PROVE Get(h, 4, 3) = size /\ Get(h, 22, 2) = Stored(t, raw)
  <2>1. 1 \in 1 .. 2 /\ 2 \in 1 .. 2 /\ 4 \in Nat /\ 22 \in Nat /\ 2 \in 1 .. 3 /\ 3 \in 1 .. 3
    OBVIOUS
  <2>2. Holds(h, Field(4, 3, size)) /\ Holds(h, Field(22, 2, Stored(t, raw)))
    BY <1>3, <1>5, <2>1, Zenon DEF Holding
  <2>3. Get(h, 4, 3) = size
    BY <2>1, <2>2, NumberKept, Zenon
  <2>4. Get(h, 22, 2) = Stored(t, raw)
    BY <1>1, <2>1, <2>2, NumberKept, Zenon
  <2> QED
    BY <2>3, <2>4
<1> QED
  BY <1>2, <1>3, <1>4, <1>5, Zenon

\* Neither is one of the identifiers.
LEMMA CreatedAside ==
  ASSUME NEW f, IsFields(f), CreatedSpots(f)
  PROVE  Aside(f) /\ Covered(f) \subseteq 0 .. 31
<1>1. Aside(f)
  BY DEF Aside, CreatedSpots
<1>2. Within(f, 0, 32)
  BY DEF Within, CreatedSpots
<1>3. 0 \in Nat /\ 32 \in Nat /\ 32 - 1 = 31
  OBVIOUS
<1> QED
  BY <1>1, <1>2, <1>3, CoveredWithin

\* The header cmp_ent_create leaves.
LEMMA CreatedIs ==
  ASSUME NEW t \in imagettes, NEW raw \in BOOLEAN, NEW bytes \in Nat,
         cmp_ent_create(t, raw, bytes).size > 0
  PROVE  Created(cmp_ent_create(t, raw, bytes).h, t, raw, bytes)
<1>1. PICK n \in Nat : n = cmp_ent_cal_hdr_size(t, raw) /\ n >= 32
  BY ImagetteHeaderSize
<1>2. PICK c : c = cmp_ent_create(t, raw, bytes)
  OBVIOUS
<1>3. ~ (n = 0 \/ n + bytes > CMP_ENTITY_MAX_SIZE)
  BY <1>1, <1>2 DEF cmp_ent_create
<1>4. c.h = PutAll(Cleared(n), CreatedFields(n + bytes, t, raw))
  BY <1>1, <1>2, <1>3 DEF cmp_ent_create, CreatedFields
<1>5. n + bytes \in Nat /\ n + bytes < Limit(3)
  <2>1. CMP_ENTITY_MAX_SIZE = 16777215
    BY DEF CMP_ENTITY_MAX_SIZE
  <2> QED
    BY <1>3, <2>1 DEF Limit
<1>6. PICK f : f = CreatedFields(n + bytes, t, raw)
  OBVIOUS
<1>7. Setters(f) /\ CreatedSpots(f)
  BY <1>5, <1>6, CreatedSetters, Zenon
<1>8. /\ Cleared(n) \in Headers /\ DOMAIN Cleared(n) = 0 .. n - 1
      /\ Get(Cleared(n), 26, 2) = 0 /\ Get(Cleared(n), 28, 1) = 0
  BY <1>1, ClearedIs, Zenon
<1>9. 0 .. 31 \subseteq DOMAIN Cleared(n)
  BY <1>1, <1>8, FirstBytes, Zenon
<1>10. Aside(f) /\ Covered(f) \subseteq 0 .. 31
  BY <1>7, CreatedAside, Zenon DEF Setters
<1>11. /\ c.h \in Headers /\ Get(c.h, 26, 2) = 0 /\ Get(c.h, 28, 1) = 0
  BY <1>4, <1>6, <1>7, <1>8, <1>9, <1>10, AsideIdentifiers, Zenon
<1>12. Holding(c.h, f) /\ DOMAIN c.h = DOMAIN Cleared(n) \cup Covered(f)
  BY <1>4, <1>6, <1>7, <1>8, HoldingAll, Zenon
<1>13. DOMAIN c.h = 0 .. n - 1
  BY <1>8, <1>9, <1>10, <1>12
<1> QED
  BY <1>1, <1>2, <1>5, <1>6, <1>11, <1>12, <1>13, Zenon DEF Created

RdcuRead(h, t, bytes, id, counter) ==
  /\ h \in Headers
  /\ DOMAIN h = 0 .. cmp_ent_cal_hdr_size(t, info.cfg.cmp_mode = CMP_MODE_RAW) - 1
  /\ Get(h, 4, 3) = cmp_ent_cal_hdr_size(t, info.cfg.cmp_mode = CMP_MODE_RAW) + bytes
  /\ Get(h, 22, 2) = Stored(t, info.cfg.cmp_mode = CMP_MODE_RAW)
  /\ RdcuGenericRead(h) /\ RdcuPairRead(h) /\ RdcuAdaptiveRead(h, t)
  /\ Get(h, 26, 2) = id /\ Get(h, 28, 1) = counter

\* The generic setters leave the identifiers alone.
LEMMA RdcuSpotsAside ==
  ASSUME NEW f, IsFields(f), RdcuSpots(f)
  PROVE  Aside(f) /\ Covered(f) \subseteq 0 .. 31
<1>1. Aside(f)
  BY DEF Aside, RdcuSpots
<1>2. ASSUME NEW q \in 1 .. Len(f) PROVE 0 <= f[q].at /\ Behind(f[q]) <= 32
  <2>1. PICK g : g = f[q]
    OBVIOUS
  <2>2. IsField(g)
    BY <2>1, Zenon DEF IsFields
  <2>3. \/ g.at = 7 /\ Behind(g) = 10
        \/ 24 <= g.at /\ Behind(g) <= 26
        \/ 29 <= g.at /\ Behind(g) <= 32
    BY <2>1, Zenon DEF RdcuSpots
  <2>4. g.at \in Nat /\ Behind(g) \in Nat
    BY ONLY <2>2 DEF IsField, Behind
  <2>5. 0 <= g.at /\ Behind(g) <= 32
    BY ONLY <2>3, <2>4
  <2> QED
    BY <2>1, <2>5
<1>3. Within(f, 0, 32)
  BY <1>2, Zenon DEF Within
<1>4. 0 \in Nat /\ 32 \in Nat /\ 32 - 1 = 31
  OBVIOUS
<1> QED
  BY <1>1, <1>4, <1>3, CoveredWithin

\* Setters behind the identifiers leave them alone.
LEMMA WithinAside ==
  ASSUME NEW f, IsFields(f), NEW lo \in Nat, NEW hi, 29 <= lo, Within(f, lo, hi)
  PROVE  Aside(f)
<1>1. ASSUME NEW q \in 1 .. Len(f) PROVE 29 <= f[q].at
  <2>1. lo <= f[q].at /\ IsField(f[q])
    BY Zenon DEF Within, IsFields
  <2> QED
    BY <2>1 DEF IsField
<1> QED
  BY <1>1 DEF Aside

\* The generic setters are apart from size and data type.
LEMMA SpotsApart ==
  ASSUME NEW K, CreatedSpots(K), IsFields(K), NEW A, RdcuSpots(A), IsFields(A)
  PROVE  AllApart(K, A)
<1>1. ASSUME NEW q \in 1 .. Len(K), NEW r \in 1 .. Len(A) PROVE Apart(A[r], K[q])
  <2>1. PICK f, g : f = K[q] /\ g = A[r]
    OBVIOUS
  <2>2. IsField(f) /\ IsField(g)
    BY <2>1, Zenon DEF IsFields
  <2>3. \/ f.at = 4 /\ Behind(f) = 7
        \/ f.at = 22 /\ Behind(f) = 24
    BY <2>1, Zenon DEF CreatedSpots
  <2>4. \/ g.at = 7 /\ Behind(g) = 10
        \/ 24 <= g.at /\ Behind(g) <= 26
        \/ 29 <= g.at /\ Behind(g) <= 32
    BY <2>1, Zenon DEF RdcuSpots
  <2>5. g.at \in Nat /\ Behind(g) \in Nat
    BY ONLY <2>2 DEF IsField, Behind
  <2>6. Apart(g, f)
    BY ONLY <2>3, <2>4, <2>5 DEF Apart
  <2> QED
    BY <2>1, <2>6, Zenon
<1> QED
  BY <1>1, Zenon DEF AllApart

\* Fields below a bound are apart from those above it.
LEMMA WithinApart ==
  ASSUME NEW X, IsFields(X), NEW a \in Nat, NEW b \in Nat, Within(X, a, b),
         NEW Y, IsFields(Y), NEW hi \in Nat, Within(Y, b, hi)
  PROVE  AllApart(X, Y)
<1>1. ASSUME NEW q \in 1 .. Len(X), NEW r \in 1 .. Len(Y) PROVE Apart(Y[r], X[q])
  <2>1. PICK f, g : f = X[q] /\ g = Y[r]
    OBVIOUS
  <2>2. IsField(f) /\ IsField(g) /\ Behind(f) <= b /\ b <= g.at
    BY <2>1, Zenon DEF IsFields, Within
  <2>3. Behind(f) \in Nat /\ g.at \in Nat
    BY ONLY <2>2 DEF IsField, Behind
  <2>4. Apart(g, f)
    BY <2>2, <2>3 DEF Apart
  <2> QED
    BY <2>1, <2>4, Zenon
<1> QED
  BY <1>1, Zenon DEF AllApart
\* Size, data type and the generic setters are in the generic header.
LEMMA SpotsWithin ==
  ASSUME NEW K, CreatedSpots(K) \/ RdcuSpots(K), IsFields(K)
  PROVE  Within(K, 0, 32)
<1>1. ASSUME NEW q \in 1 .. Len(K) PROVE 0 <= K[q].at /\ Behind(K[q]) <= 32
  <2>1. PICK g : g = K[q]
    OBVIOUS
  <2>2. IsField(g)
    BY <2>1, Zenon DEF IsFields
  <2>3. \/ g.at = 7 /\ Behind(g) = 10
        \/ 24 <= g.at /\ Behind(g) <= 26
        \/ 29 <= g.at /\ Behind(g) <= 32
        \/ g.at = 4 /\ Behind(g) = 7
        \/ g.at = 22 /\ Behind(g) = 24
    BY <2>1, Zenon DEF RdcuSpots, CreatedSpots
  <2>4. g.at \in Nat /\ Behind(g) \in Nat
    BY ONLY <2>2 DEF IsField, Behind
  <2>5. 0 <= g.at /\ Behind(g) <= 32
    BY ONLY <2>3, <2>4
  <2> QED
    BY <2>1, <2>5
<1> QED
  BY <1>1, Zenon DEF Within

\* The header cmp_ent_write_rdcu_cmp_pars leaves: every getter reads its value.
LEMMA RdcuHeaderBuilt ==
  ASSUME RdcuTyped, NEW t \in imagettes, NEW raw \in BOOLEAN, NEW bytes \in Nat,
         raw = (info.cfg.cmp_mode = CMP_MODE_RAW), NEW h, Created(h, t, raw, bytes),
         ~ Refused(RdcuHeader(t))
  PROVE  RdcuRead(PutAll(h, RdcuHeader(t)), t, bytes, 0, 0)
<1>1. PICK A, B, C : A = RdcuGeneric /\ B = RdcuPair /\ C = RdcuAdaptive(t)
  OBVIOUS
<1>2. RdcuHeader(t) = (A \o B) \o C
  BY <1>1, RdcuHeaderParts, Zenon
<1>3. Tuple(A) /\ Tuple(B) /\ Tuple(C)
  BY <1>1, RdcuGenericList, RdcuPairList, RdcuAdaptiveList, Zenon
<1>4. Fits(A) /\ Fits(B) /\ Fits(C)
  <2>1. Tuple(A \o B)
    BY <1>3, Joins, Zenon DEF Joined
  <2>2. ~ Refused((A \o B) \o C)
    BY <1>2
  <2>3. Fits(C) /\ Fits(A \o B)
    BY <1>3, <2>1, <2>2, NoneRefused, Zenon DEF Fits
  <2>4. ~ Refused(A \o B)
    <3>1. PICK D : D = A \o B
      OBVIOUS
    <3>2. Tuple(D) /\ Fits(D)
      BY <2>1, <2>3, <3>1
    <3>3. DOMAIN D = 1 .. Len(D)
      BY ONLY <3>2 DEF Tuple
    <3> QED
      BY <3>1, <3>2, <3>3, Zenon DEF Refused, Fits
  <2> QED
    BY <1>3, <2>3, <2>4, NoneRefused, Zenon DEF Fits
<1>5. /\ Setters(A) /\ RdcuSpots(A) /\ \A g : Holding(g, A) => RdcuGenericRead(g)
  BY <1>1, <1>4, RdcuGenericSet, Zenon
<1>6. /\ Setters(B) /\ Within(B, 32, 35) /\ \A g : Holding(g, B) => RdcuPairRead(g)
      /\ Len(B) > 0 => info.cfg.cmp_mode # CMP_MODE_RAW
  BY <1>1, <1>4, RdcuPairSet, Zenon
<1>7. /\ Setters(C) /\ Within(C, 35, 41) /\ \A g : Holding(g, C) => RdcuAdaptiveRead(g, t)
      /\ Len(C) > 0 => info.cfg.cmp_mode # CMP_MODE_RAW /\ t \in ap_imagettes
  BY <1>1, <1>4, RdcuAdaptiveSet, Zenon
<1>8. PICK n \in Nat : n = cmp_ent_cal_hdr_size(t, raw) /\ n >= 32
  <2>1. t \in imagettes /\ raw \in BOOLEAN
    OBVIOUS
  <2> QED
    BY ONLY <2>1, ImagetteHeaderSize
<1>9. PICK size \in Nat : size = n + bytes
  OBVIOUS
<1>10. PICK K : /\ n = cmp_ent_cal_hdr_size(t, raw) /\ size = n + bytes
                /\ K = CreatedFields(size, t, raw) /\ n >= 32
  BY <1>8, <1>9, Zenon
<1>11. /\ h \in Headers /\ DOMAIN h = 0 .. n - 1 /\ size < Limit(3) /\ Holding(h, K)
       /\ Get(h, 26, 2) = 0 /\ Get(h, 28, 1) = 0
  BY <1>10, Zenon DEF Created
<1>12. /\ Setters(K) /\ CreatedSpots(K)
       /\ \A g : Holding(g, K) => Get(g, 4, 3) = size /\ Get(g, 22, 2) = Stored(t, raw)
  <2>1. size < Limit(3) /\ t \in imagettes /\ raw \in BOOLEAN /\ size \in Nat
    BY <1>11
  <2>2. /\ Setters(CreatedFields(size, t, raw)) /\ CreatedSpots(CreatedFields(size, t, raw))
        /\ \A g : Holding(g, CreatedFields(size, t, raw)) =>
             Get(g, 4, 3) = size /\ Get(g, 22, 2) = Stored(t, raw)
    BY ONLY <2>1, CreatedSetters, Zenon
  <2>3. K = CreatedFields(size, t, raw)
    BY <1>10
  <2> QED
    BY ONLY <2>2, <2>3, Zenon
<1>13. IsFields(A) /\ IsFields(B) /\ IsFields(C) /\ IsFields(K)
  BY <1>5, <1>6, <1>7, <1>12, Zenon DEF Setters
<1>14. Within(K, 0, 32) /\ Within(A, 0, 32)
  BY <1>5, <1>12, <1>13, SpotsWithin, Zenon
<1>15. 0 \in Nat /\ 32 \in Nat /\ 35 \in Nat /\ 41 \in Nat /\ 29 <= 32 /\ 29 <= 35
  OBVIOUS
<1>16. Within(C, 32, 41)
  <2>1. ASSUME NEW q \in 1 .. Len(C) PROVE 32 <= C[q].at /\ Behind(C[q]) <= 41
    <3>1. 35 <= C[q].at /\ Behind(C[q]) <= 41 /\ IsField(C[q])
      BY <1>7, <1>13, Zenon DEF Within, IsFields
    <3> QED
      BY <3>1 DEF IsField
  <2> QED
    BY <2>1, Zenon DEF Within
<1>17. AllApart(K, A)
  BY <1>5, <1>12, <1>13, SpotsApart, Zenon
<1>18. AllApart(K, B) /\ AllApart(A, B)
  BY <1>6, <1>13, <1>14, <1>15, WithinApart, Zenon
<1>19. AllApart(K, C) /\ AllApart(A, C)
  BY <1>13, <1>14, <1>15, <1>16, WithinApart, Zenon
<1>20. AllApart(B, C)
  BY <1>6, <1>7, <1>13, <1>15, WithinApart, Zenon
<1>21. PICK H : H = PutAll(h, (A \o B) \o C)
  OBVIOUS
<1>22. HoldsThree(H, h, A, B, C)
  BY <1>5, <1>6, <1>7, <1>11, <1>18, <1>19, <1>20, <1>21, ThreeLists, Zenon
<1>23. PICK h1, h2 : h1 = PutAll(h, A) /\ h2 = PutAll(h1, B)
  BY Zenon
<1>24. H = PutAll(h2, C)
  <2>1. PutAll(h, (A \o B) \o C) = PutAll(PutAll(PutAll(h, A), B), C)
    BY <1>5, <1>6, <1>7, <1>11, ThreeSteps
  <2> QED
    BY <1>21, <1>23, <2>1
<1>25. h1 \in Headers /\ h2 \in Headers
  BY <1>5, <1>6, <1>11, <1>23, HoldingAll, Zenon
<1>26. Holding(H, K)
  <2>1. Holding(h1, K)
    BY <1>11, <1>13, <1>17, <1>23, HoldingKept, Zenon
  <2>2. Holding(h2, K)
    BY <1>13, <1>18, <1>23, <1>25, <2>1, HoldingKept, Zenon
  <2> QED
    BY <1>13, <1>19, <1>24, <1>25, <2>2, HoldingKept, Zenon
<1>27. Get(H, 26, 2) = 0 /\ Get(H, 28, 1) = 0
  <2>1. 0 .. 31 \subseteq DOMAIN h
    BY <1>10, <1>11, FirstBytes, Zenon
  <2>2. Aside(A)
    BY <1>5, <1>13, RdcuSpotsAside, Zenon
  <2>3. Aside(B) /\ Aside(C)
    BY <1>6, <1>7, <1>13, <1>15, WithinAside, Zenon
  <2>4. Get(h1, 26, 2) = 0 /\ Get(h1, 28, 1) = 0 /\ 0 .. 31 \subseteq DOMAIN h1
    BY <1>5, <1>11, <1>23, <2>1, <2>2, AsideIdentifiers, Zenon
  <2>5. Get(h2, 26, 2) = 0 /\ Get(h2, 28, 1) = 0 /\ 0 .. 31 \subseteq DOMAIN h2
    BY <1>6, <1>23, <1>25, <2>3, <2>4, AsideIdentifiers, Zenon
  <2> QED
    BY <1>7, <1>24, <1>25, <2>3, <2>5, AsideIdentifiers, Zenon
<1>28. DOMAIN H = 0 .. n - 1
  <2>1. DOMAIN H = ((DOMAIN h \cup Covered(A)) \cup Covered(B)) \cup Covered(C)
    BY <1>22, Zenon DEF HoldsThree
  <2>2. Covered(A) \subseteq 0 .. n - 1
    <3>1. Covered(A) \subseteq 0 .. 31
      BY <1>5, <1>13, RdcuSpotsAside, Zenon
    <3> QED
      BY ONLY <1>10, <3>1
  <2>3. n = IF raw THEN 32 ELSE IF t \in ap_imagettes THEN 44 ELSE 36
    BY <1>10, ImagetteHeaderSize
  <2>4. Covered(B) \subseteq 0 .. n - 1
    <3>1. Covered(B) \subseteq 32 .. 35 - 1 /\ (Len(B) = 0 => Covered(B) = {})
      BY <1>6, <1>13, <1>15, CoveredWithin, Zenon
    <3>2. Len(B) \in Nat
      BY <1>3, Zenon DEF Tuple
    <3>3. CASE Len(B) = 0
      BY <3>1, <3>3
    <3>4. CASE Len(B) # 0
      <4>1. n >= 36
        <5>1. Len(B) > 0
          BY ONLY <3>2, <3>4
        <5>2. ~ raw
          BY <1>6, <5>1, Zenon
        <5> QED
          BY <2>3, <5>2
      <4> QED
        BY ONLY <1>10, <3>1, <4>1
    <3> QED
      BY <3>3, <3>4
  <2>5. Covered(C) \subseteq 0 .. n - 1
    <3>1. Covered(C) \subseteq 35 .. 41 - 1 /\ (Len(C) = 0 => Covered(C) = {})
      BY <1>7, <1>13, <1>15, CoveredWithin, Zenon
    <3>2. Len(C) \in Nat
      BY <1>3, Zenon DEF Tuple
    <3>3. CASE Len(C) = 0
      BY <3>1, <3>3
    <3>4. CASE Len(C) # 0
      <4>1. n = 44
        <5>1. Len(C) > 0
          BY ONLY <3>2, <3>4
        <5>2. ~ raw /\ t \in ap_imagettes
          BY <1>7, <5>1, Zenon
        <5> QED
          BY <2>3, <5>2
      <4> QED
        BY ONLY <1>10, <3>1, <4>1
    <3> QED
      BY <3>3, <3>4
  <2> QED
    BY <1>11, <2>1, <2>2, <2>4, <2>5
<1>29. RdcuGenericRead(H) /\ RdcuPairRead(H) /\ RdcuAdaptiveRead(H, t) /\ H \in Headers
  BY <1>5, <1>6, <1>7, <1>22, Zenon DEF HoldsThree
<1>30. Get(H, 4, 3) = size /\ Get(H, 22, 2) = Stored(t, raw)
  BY <1>12, <1>26, Zenon
<1>31. RdcuRead(H, t, bytes, 0, 0)
  BY <1>10, <1>27, <1>28, <1>29, <1>30, Zenon DEF RdcuRead
<1> QED
  BY <1>2, <1>21, <1>31, Zenon

\* It keeps what it says when the identifiers are set.
LEMMA RdcuIdentified ==
  ASSUME NEW h, NEW t \in imagettes, NEW bytes, NEW oldid, NEW oldcounter,
         RdcuRead(h, t, bytes, oldid, oldcounter), NEW id \in Word, NEW counter \in Byte
  PROVE  RdcuRead(PutAll(h, Identifiers(id, counter)), t, bytes, id, counter)
<1>1. PICK g : g = PutAll(h, Identifiers(id, counter))
  OBVIOUS
<1>2. PICK raw \in BOOLEAN : raw = (info.cfg.cmp_mode = CMP_MODE_RAW)
  OBVIOUS
<1>3. PICK n \in Nat : /\ n = cmp_ent_cal_hdr_size(t, raw) /\ n >= 32
                       /\ (~ raw => n >= 36) /\ (~ raw /\ t \in ap_imagettes => n = 44)
  <2>1. t \in imagettes /\ raw \in BOOLEAN
    OBVIOUS
  <2> QED
    BY ONLY <2>1, ImagetteHeaderSize
<1>4. h \in Headers /\ DOMAIN h = 0 .. n - 1
  BY <1>2, <1>3 DEF RdcuRead
<1>5. 0 .. 31 \subseteq DOMAIN h
  BY <1>3, <1>4, FirstBytes, Zenon
<1>6. /\ g \in Headers /\ DOMAIN g = DOMAIN h
      /\ Get(g, 26, 2) = id /\ Get(g, 28, 1) = counter /\ Steady(h, g)
  <2>1. Identified(g, h, id, counter)
    BY <1>1, <1>4, <1>5, IdentifiersSet, Zenon
  <2> QED
    BY <2>1, Zenon DEF Identified
<1>7. ASSUME NEW at \in Nat, NEW m \in 1 .. 3, at + m <= n, at + m <= 26 \/ 29 <= at
      PROVE  Get(g, at, m) = Get(h, at, m)
  <2>1. at .. at + m - 1 \subseteq 0 .. n - 1
    BY ONLY <1>3, <1>7
  <2>2. at .. at + m - 1 \subseteq DOMAIN h
    BY <1>4, <2>1
  <2> QED
    BY <1>6, <1>7, <2>2, Unchanged, Zenon
<1>8. /\ Get(g, 4, 3) = Get(h, 4, 3) /\ Get(g, 7, 3) = Get(h, 7, 3)
      /\ Get(g, 22, 2) = Get(h, 22, 2) /\ Get(g, 24, 1) = Get(h, 24, 1)
      /\ Get(g, 25, 1) = Get(h, 25, 1) /\ Get(g, 29, 1) = Get(h, 29, 1)
      /\ Get(g, 30, 2) = Get(h, 30, 2)
  BY <1>3, <1>7
<1>9. RdcuGenericRead(g)
  BY <1>8, Zenon DEF RdcuRead, RdcuGenericRead
<1>10. RdcuPairRead(g)
  <2> SUFFICES ASSUME ~ raw
               PROVE  Get(g, 32, 2) = info.cfg.spill[IMAGETTE] /\ Get(g, 34, 1) = info.cfg.par[IMAGETTE]
    BY <1>2 DEF RdcuPairRead
  <2>1. Get(h, 32, 2) = info.cfg.spill[IMAGETTE] /\ Get(h, 34, 1) = info.cfg.par[IMAGETTE]
    BY <1>2 DEF RdcuRead, RdcuPairRead
  <2>2. n >= 36
    BY <1>3
  <2>3. Get(g, 32, 2) = Get(h, 32, 2) /\ Get(g, 34, 1) = Get(h, 34, 1)
    BY <1>7, <2>2
  <2> QED
    BY <2>1, <2>3
<1>11. RdcuAdaptiveRead(g, t)
  <2> SUFFICES ASSUME ~ raw, t \in ap_imagettes
               PROVE  /\ Get(g, 35, 2) = info.rcfg.ap1_spill
                      /\ Get(g, 37, 1) = info.rcfg.ap1_golomb_par
                      /\ Get(g, 38, 2) = info.rcfg.ap2_spill
                      /\ Get(g, 40, 1) = info.rcfg.ap2_golomb_par
    BY <1>2 DEF RdcuAdaptiveRead
  <2>1. /\ Get(h, 35, 2) = info.rcfg.ap1_spill /\ Get(h, 37, 1) = info.rcfg.ap1_golomb_par
        /\ Get(h, 38, 2) = info.rcfg.ap2_spill /\ Get(h, 40, 1) = info.rcfg.ap2_golomb_par
    BY <1>2 DEF RdcuRead, RdcuAdaptiveRead
  <2>2. n = 44
    BY <1>3
  <2>3. /\ Get(g, 35, 2) = Get(h, 35, 2) /\ Get(g, 37, 1) = Get(h, 37, 1)
        /\ Get(g, 38, 2) = Get(h, 38, 2) /\ Get(g, 40, 1) = Get(h, 40, 1)
    BY <1>7, <2>2
  <2> QED
    BY <2>1, <2>3
<1> QED
  BY <1>1, <1>6, <1>8, <1>9, <1>10, <1>11, Zenon DEF RdcuRead

\* The getters of an RDCU header give back what it was built from.
LEMMA RdcuHeaderRead ==
  ASSUME NEW t \in imagettes,
         RdcuRead(ent.h, t, BitToByte(info.cmp_size), stamp.id[1], stamp.id[2]),
         info.cmp_size \in Nat, stamp.id \in Word \X Byte,
         info.cfg.cmp_mode = cfg.cmp_mode, info.cfg.model_value = cfg.model_value % 256,
         info.cfg.round = cfg.round, info.cfg.spill[IMAGETTE] = cfg.spill[IMAGETTE],
         info.cfg.par[IMAGETTE] = cfg.par[IMAGETTE], 2 * info.samples = ChunkSize
  PROVE  GenericKept /\ RdcuHeaderKept
<1>1. PICK h : h = ent.h
  OBVIOUS
<1>2. RdcuRead(h, t, BitToByte(info.cmp_size), stamp.id[1], stamp.id[2])
  BY <1>1
<1>3. raw_mode = (info.cfg.cmp_mode = CMP_MODE_RAW) /\ raw_mode \in BOOLEAN
  BY DEF raw_mode
<1>4. cmp_ent_get_data_type(h) = t /\ cmp_ent_get_data_type_raw_bit(h) = raw_mode
  <2>1. Get(h, 22, 2) = Stored(t, raw_mode)
    BY <1>2, <1>3 DEF RdcuRead
  <2>2. TypeNumber(t) \in 1 .. 24 /\ DataTypes[TypeNumber(t)] = t
    BY ImagetteNumber, Zenon
  <2>3. raw_mode \in BOOLEAN
    BY <1>3
  <2> QED
    BY ONLY <2>1, <2>2, <2>3, TypeRead, Zenon
<1>5. <<stamp.id[1], stamp.id[2]>> = stamp.id
  OBVIOUS
<1>6. GenericKept
  <2>1. RdcuGenericRead(h) /\ Get(h, 26, 2) = stamp.id[1] /\ Get(h, 28, 1) = stamp.id[2]
    BY <1>2, Zenon DEF RdcuRead
  <2> QED
    BY <1>1, <1>4, <1>5, <2>1, Zenon DEF GenericKept, RdcuGenericRead, cmp_ent_get_cmp_mode,
       cmp_ent_get_model_value, cmp_ent_get_lossy_cmp_par, cmp_ent_get_original_size,
       cmp_ent_get_reserved, cmp_ent_get_model_id, cmp_ent_get_model_counter
<1>7. PICK n \in Nat : n = cmp_ent_cal_hdr_size(t, raw_mode)
  <2>1. t \in imagettes
    OBVIOUS
  <2> QED
    BY ONLY <1>3, <2>1, ImagetteHeaderSize
<1>8. cmp_ent_get_hdr_size(h) = n
  BY <1>4, <1>7, Zenon DEF cmp_ent_get_hdr_size
<1>9. cmp_ent_get_cmp_data_size(h) = BitToByte(info.cmp_size)
  <2>1. BitToByte(info.cmp_size) \in Nat
    BY DEF BitToByte
  <2>2. cmp_ent_get_size(h) = n + BitToByte(info.cmp_size)
    BY <1>2, <1>3, <1>7 DEF RdcuRead, cmp_ent_get_size
  <2> QED
    BY <1>7, <1>8, <2>1, <2>2 DEF cmp_ent_get_cmp_data_size
<1>10. DOMAIN h = 0 .. n - 1
  BY <1>2, <1>3, <1>7 DEF RdcuRead
<1>11. ~ raw_mode => /\ cmp_ent_get_ima_spill(h) = cfg.spill[IMAGETTE]
                     /\ cmp_ent_get_ima_golomb_par(h) = cfg.par[IMAGETTE]
  BY <1>2, <1>3 DEF RdcuRead, RdcuPairRead, cmp_ent_get_ima_spill, cmp_ent_get_ima_golomb_par
<1>12. ~ raw_mode /\ t \in ap_imagettes =>
         /\ cmp_ent_get_ima_ap1_spill(h) = info.rcfg.ap1_spill
         /\ cmp_ent_get_ima_ap1_golomb_par(h) = info.rcfg.ap1_golomb_par
         /\ cmp_ent_get_ima_ap2_spill(h) = info.rcfg.ap2_spill
         /\ cmp_ent_get_ima_ap2_golomb_par(h) = info.rcfg.ap2_golomb_par
  BY <1>2, <1>3 DEF RdcuRead, RdcuAdaptiveRead, cmp_ent_get_ima_ap1_spill,
     cmp_ent_get_ima_ap1_golomb_par, cmp_ent_get_ima_ap2_spill, cmp_ent_get_ima_ap2_golomb_par
<1>13. RdcuHeaderKept
  BY <1>1, <1>4, <1>8, <1>9, <1>10, <1>11, <1>12, Zenon DEF RdcuHeaderKept
<1> QED
  BY <1>6, <1>13

-----------------------------------------------------------------------------
(* Configurations *)

Bit(x, l) == 2 ^ l <= x /\ x < 2 ^ (l + 1)

\* The highest bit of a parameter.
LEMMA HighestBit ==
  ASSUME NEW x \in 1 .. MAX_NON_IMA_GOLOMB_PAR
  PROVE  \E l \in 0 .. 15, N \in Nat : l = ilog_2(x) /\ N = 2 ^ l /\ N <= x /\ 1 <= N
<1>1. x \in Nat /\ 1 <= x /\ x < 65536
  BY DEF MAX_NON_IMA_GOLOMB_PAR
<1>2. \E l \in 0 .. 16 : Bit(x, l)
  <2>1. CASE 1 <= x /\ x < 2
    <3>1. PICK l \in 0 .. 16 : l = 0
      OBVIOUS
    <3>2. 2 ^ 0 = 1 /\ 2 ^ (0 + 1) = 2
      OBVIOUS
    <3>3. Bit(x, l)
      BY ONLY <2>1, <3>1, <3>2 DEF Bit
    <3> QED
      BY ONLY <3>3, Zenon
  <2>2. CASE 2 <= x /\ x < 4
    <3>1. PICK l \in 0 .. 16 : l = 1
      OBVIOUS
    <3>2. 2 ^ 1 = 2 /\ 2 ^ (1 + 1) = 4
      OBVIOUS
    <3>3. Bit(x, l)
      BY ONLY <2>2, <3>1, <3>2 DEF Bit
    <3> QED
      BY ONLY <3>3, Zenon
  <2>3. CASE 4 <= x /\ x < 8
    <3>1. PICK l \in 0 .. 16 : l = 2
      OBVIOUS
    <3>2. 2 ^ 2 = 4 /\ 2 ^ (2 + 1) = 8
      OBVIOUS
    <3>3. Bit(x, l)
      BY ONLY <2>3, <3>1, <3>2 DEF Bit
    <3> QED
      BY ONLY <3>3, Zenon
  <2>4. CASE 8 <= x /\ x < 16
    <3>1. PICK l \in 0 .. 16 : l = 3
      OBVIOUS
    <3>2. 2 ^ 3 = 8 /\ 2 ^ (3 + 1) = 16
      OBVIOUS
    <3>3. Bit(x, l)
      BY ONLY <2>4, <3>1, <3>2 DEF Bit
    <3> QED
      BY ONLY <3>3, Zenon
  <2>5. CASE 16 <= x /\ x < 32
    <3>1. PICK l \in 0 .. 16 : l = 4
      OBVIOUS
    <3>2. 2 ^ 4 = 16 /\ 2 ^ (4 + 1) = 32
      OBVIOUS
    <3>3. Bit(x, l)
      BY ONLY <2>5, <3>1, <3>2 DEF Bit
    <3> QED
      BY ONLY <3>3, Zenon
  <2>6. CASE 32 <= x /\ x < 64
    <3>1. PICK l \in 0 .. 16 : l = 5
      OBVIOUS
    <3>2. 2 ^ 5 = 32 /\ 2 ^ (5 + 1) = 64
      OBVIOUS
    <3>3. Bit(x, l)
      BY ONLY <2>6, <3>1, <3>2 DEF Bit
    <3> QED
      BY ONLY <3>3, Zenon
  <2>7. CASE 64 <= x /\ x < 128
    <3>1. PICK l \in 0 .. 16 : l = 6
      OBVIOUS
    <3>2. 2 ^ 6 = 64 /\ 2 ^ (6 + 1) = 128
      OBVIOUS
    <3>3. Bit(x, l)
      BY ONLY <2>7, <3>1, <3>2 DEF Bit
    <3> QED
      BY ONLY <3>3, Zenon
  <2>8. CASE 128 <= x /\ x < 256
    <3>1. PICK l \in 0 .. 16 : l = 7
      OBVIOUS
    <3>2. 2 ^ 7 = 128 /\ 2 ^ (7 + 1) = 256
      OBVIOUS
    <3>3. Bit(x, l)
      BY ONLY <2>8, <3>1, <3>2 DEF Bit
    <3> QED
      BY ONLY <3>3, Zenon
  <2>9. CASE 256 <= x /\ x < 512
    <3>1. PICK l \in 0 .. 16 : l = 8
      OBVIOUS
    <3>2. 2 ^ 8 = 256 /\ 2 ^ (8 + 1) = 512
      OBVIOUS
    <3>3. Bit(x, l)
      BY ONLY <2>9, <3>1, <3>2 DEF Bit
    <3> QED
      BY ONLY <3>3, Zenon
  <2>10. CASE 512 <= x /\ x < 1024
    <3>1. PICK l \in 0 .. 16 : l = 9
      OBVIOUS
    <3>2. 2 ^ 9 = 512 /\ 2 ^ (9 + 1) = 1024
      OBVIOUS
    <3>3. Bit(x, l)
      BY ONLY <2>10, <3>1, <3>2 DEF Bit
    <3> QED
      BY ONLY <3>3, Zenon
  <2>11. CASE 1024 <= x /\ x < 2048
    <3>1. PICK l \in 0 .. 16 : l = 10
      OBVIOUS
    <3>2. 2 ^ 10 = 1024 /\ 2 ^ (10 + 1) = 2048
      OBVIOUS
    <3>3. Bit(x, l)
      BY ONLY <2>11, <3>1, <3>2 DEF Bit
    <3> QED
      BY ONLY <3>3, Zenon
  <2>12. CASE 2048 <= x /\ x < 4096
    <3>1. PICK l \in 0 .. 16 : l = 11
      OBVIOUS
    <3>2. 2 ^ 11 = 2048 /\ 2 ^ (11 + 1) = 4096
      OBVIOUS
    <3>3. Bit(x, l)
      BY ONLY <2>12, <3>1, <3>2 DEF Bit
    <3> QED
      BY ONLY <3>3, Zenon
  <2>13. CASE 4096 <= x /\ x < 8192
    <3>1. PICK l \in 0 .. 16 : l = 12
      OBVIOUS
    <3>2. 2 ^ 12 = 4096 /\ 2 ^ (12 + 1) = 8192
      OBVIOUS
    <3>3. Bit(x, l)
      BY ONLY <2>13, <3>1, <3>2 DEF Bit
    <3> QED
      BY ONLY <3>3, Zenon
  <2>14. CASE 8192 <= x /\ x < 16384
    <3>1. PICK l \in 0 .. 16 : l = 13
      OBVIOUS
    <3>2. 2 ^ 13 = 8192 /\ 2 ^ (13 + 1) = 16384
      OBVIOUS
    <3>3. Bit(x, l)
      BY ONLY <2>14, <3>1, <3>2 DEF Bit
    <3> QED
      BY ONLY <3>3, Zenon
  <2>15. CASE 16384 <= x /\ x < 32768
    <3>1. PICK l \in 0 .. 16 : l = 14
      OBVIOUS
    <3>2. 2 ^ 14 = 16384 /\ 2 ^ (14 + 1) = 32768
      OBVIOUS
    <3>3. Bit(x, l)
      BY ONLY <2>15, <3>1, <3>2 DEF Bit
    <3> QED
      BY ONLY <3>3, Zenon
  <2>16. CASE 32768 <= x /\ x < 65536
    <3>1. PICK l \in 0 .. 16 : l = 15
      OBVIOUS
    <3>2. 2 ^ 15 = 32768 /\ 2 ^ (15 + 1) = 65536
      OBVIOUS
    <3>3. Bit(x, l)
      BY ONLY <2>16, <3>1, <3>2 DEF Bit
    <3> QED
      BY ONLY <3>3, Zenon
  <2> QED
    BY ONLY <1>1, <2>1, <2>2, <2>3, <2>4, <2>5, <2>6, <2>7, <2>8, <2>9, <2>10, <2>11, <2>12, <2>13, <2>14, <2>15, <2>16
<1>3. ilog_2(x) \in 0 .. 16 /\ Bit(x, ilog_2(x))
  BY <1>2, Zenon DEF ilog_2, Bit
<1>4. PICK l \in 0 .. 16 : l = ilog_2(x)
  BY <1>3
<1>5. Bit(x, l)
  BY <1>3, <1>4
<1>6. /\ 2 ^ l \in Nat /\ 1 <= 2 ^ l /\ (l = 16 => 2 ^ l = 65536)
  <2>1. CASE l = 0
    <3>1. 2 ^ 0 = 1
      OBVIOUS
    <3> QED
      BY <2>1, <3>1
  <2>2. CASE l = 1
    <3>1. 2 ^ 1 = 2
      OBVIOUS
    <3> QED
      BY <2>2, <3>1
  <2>3. CASE l = 2
    <3>1. 2 ^ 2 = 4
      OBVIOUS
    <3> QED
      BY <2>3, <3>1
  <2>4. CASE l = 3
    <3>1. 2 ^ 3 = 8
      OBVIOUS
    <3> QED
      BY <2>4, <3>1
  <2>5. CASE l = 4
    <3>1. 2 ^ 4 = 16
      OBVIOUS
    <3> QED
      BY <2>5, <3>1
  <2>6. CASE l = 5
    <3>1. 2 ^ 5 = 32
      OBVIOUS
    <3> QED
      BY <2>6, <3>1
  <2>7. CASE l = 6
    <3>1. 2 ^ 6 = 64
      OBVIOUS
    <3> QED
      BY <2>7, <3>1
  <2>8. CASE l = 7
    <3>1. 2 ^ 7 = 128
      OBVIOUS
    <3> QED
      BY <2>8, <3>1
  <2>9. CASE l = 8
    <3>1. 2 ^ 8 = 256
      OBVIOUS
    <3> QED
      BY <2>9, <3>1
  <2>10. CASE l = 9
    <3>1. 2 ^ 9 = 512
      OBVIOUS
    <3> QED
      BY <2>10, <3>1
  <2>11. CASE l = 10
    <3>1. 2 ^ 10 = 1024
      OBVIOUS
    <3> QED
      BY <2>11, <3>1
  <2>12. CASE l = 11
    <3>1. 2 ^ 11 = 2048
      OBVIOUS
    <3> QED
      BY <2>12, <3>1
  <2>13. CASE l = 12
    <3>1. 2 ^ 12 = 4096
      OBVIOUS
    <3> QED
      BY <2>13, <3>1
  <2>14. CASE l = 13
    <3>1. 2 ^ 13 = 8192
      OBVIOUS
    <3> QED
      BY <2>14, <3>1
  <2>15. CASE l = 14
    <3>1. 2 ^ 14 = 16384
      OBVIOUS
    <3> QED
      BY <2>15, <3>1
  <2>16. CASE l = 15
    <3>1. 2 ^ 15 = 32768
      OBVIOUS
    <3> QED
      BY <2>16, <3>1
  <2>17. CASE l = 16
    <3>1. 2 ^ 16 = 65536
      OBVIOUS
    <3> QED
      BY <2>17, <3>1
  <2> QED
    BY <2>1, <2>2, <2>3, <2>4, <2>5, <2>6, <2>7, <2>8, <2>9, <2>10, <2>11, <2>12, <2>13, <2>14, <2>15, <2>16, <2>17
<1>7. l \in 0 .. 15
  BY <1>1, <1>5, <1>6 DEF Bit
<1>8. 2 ^ l <= x
  BY <1>5 DEF Bit
<1>9. PICK N \in Nat : N = 2 ^ l /\ 1 <= N
  BY <1>6
<1> QED
  BY <1>4, <1>7, <1>8, <1>9, Zenon

\* A spillover threshold is a number.
LEMMA SpillTypes ==
  ASSUME NEW g \in Nat, NEW zero \in BOOLEAN, NEW bits \in Nat \ {0}
  PROVE  Spill(g, zero, bits) \in Nat
<1>1. CASE g \notin 1 .. MAX_NON_IMA_GOLOMB_PAR
  BY <1>1 DEF Spill, MaxSpill
<1>2. CASE g \in 1 .. MAX_NON_IMA_GOLOMB_PAR
  <2>1. PICK l \in 0 .. 15, N \in Nat : l = ilog_2(g) /\ N = 2 ^ l /\ N <= g /\ 1 <= N
    BY <1>2, HighestBit
  <2>2. Cutoff(g) = 2 * N - g
    BY <2>1 DEF Cutoff
  <2>3. MaxSpill(g) = (31 - l) * g + (2 * N - g) - 15 - 1
    BY <1>2, <2>1, <2>2 DEF MaxSpill
  <2>4. (31 - l) * g >= 16 * g
    <3>1. PICK k \in Nat : k = 15 - l
      BY <2>1
    <3>2. k * g \in Nat
      BY <3>1
    <3>3. (31 - l) * g = 16 * g + k * g
      BY <2>1, <3>1
    <3> QED
      BY <3>2, <3>3
  <2>5. MaxSpill(g) \in Nat
    <3>1. PICK p \in Int : p = (31 - l) * g
      BY <2>1
    <3>2. 1 <= g
      BY <1>2 DEF MAX_NON_IMA_GOLOMB_PAR
    <3> QED
      BY <2>1, <2>3, <2>4, <3>1, <3>2
  <2>6. bits * g + Cutoff(g) \in Nat
    <3>1. PICK p \in Nat : p = bits * g
      OBVIOUS
    <3>2. PICK b \in Nat : bits = b + 1
      <4>1. bits - 1 \in Nat
        OBVIOUS
      <4> QED
        BY <4>1
    <3>3. p = b * g + g /\ b * g \in Nat
      BY <3>1, <3>2
    <3> QED
      BY <2>1, <2>2, <3>1, <3>3
  <2>7. PICK mx \in Nat, b \in Int : mx = MaxSpill(g) /\ b = bits * g + Cutoff(g)
    BY <2>1, <2>2, <2>5
  <2>8. Spill(g, zero, bits) = IF mx = 0 THEN 0 ELSE IF zero /\ b < mx THEN b ELSE mx
    BY <2>7 DEF Spill
  <2> QED
    BY <2>6, <2>7, <2>8
<1> QED
  BY <1>1, <1>2

ParNames ==
  {"nc_imagette", "saturated_imagette", "s_exp_flags", "s_fx", "s_ncob", "s_efx", "s_ecob",
   "l_exp_flags", "l_fx", "l_ncob", "l_efx", "l_ecob", "l_fx_cob_variance", "nc_offset_mean",
   "nc_offset_variance", "nc_background_mean", "nc_background_variance",
   "nc_background_outlier_pixels", "smearing_mean", "smearing_variance_mean",
   "smearing_outlier_pixels", "fc_imagette", "fc_offset_mean", "fc_offset_variance",
   "fc_background_mean", "fc_background_variance", "fc_background_outlier_pixels"}
ParEntry == [field : ParNames, pair : Pair, bits : Nat \ {0}]

\* One value coded is a list of parameters.
LEMMA ParCoded ==
  ASSUME NEW f \in ParNames, NEW p \in Pair, NEW b \in Nat \ {0}
  PROVE  Coded(f, p, b) \in Seq(ParEntry)
<1>1. [field |-> f, pair |-> p, bits |-> b] \in ParEntry
  BY DEF ParEntry
<1> QED
  BY <1>1 DEF Coded

\* Two lists of them, one behind the other.
LEMMA ParConcat ==
  ASSUME NEW s \in Seq(ParEntry), NEW t \in Seq(ParEntry)
  PROVE  s \o t \in Seq(ParEntry)
OBVIOUS

\* The pairs of parameters, and the widths of the members.
LEMMA ParPairs ==
  /\ IMAGETTE \in Pair /\ EXP_FLAGS \in Pair /\ FX \in Pair /\ OFFSET_MEAN \in Pair
  /\ NCOB \in Pair /\ OFFSET_VARIANCE \in Pair /\ EFX \in Pair /\ AUX_MEAN \in Pair
  /\ ECOB \in Pair /\ AUX_VARIANCE \in Pair /\ FX_COB_VARIANCE \in Pair /\ PIXELS_ERROR \in Pair
  /\ 8 \in Nat \ {0} /\ 16 \in Nat \ {0} /\ 24 \in Nat \ {0} /\ 32 \in Nat \ {0}
BY DEF IMAGETTE, EXP_FLAGS, FX, OFFSET_MEAN, NCOB, OFFSET_VARIANCE, EFX, AUX_MEAN, ECOB,
   AUX_VARIANCE, FX_COB_VARIANCE, PIXELS_ERROR, Pair

ChunkTypes == {"ncam_imagette", "sat_imagette", "short_cadence", "long_cadence",
               "offset_background", "smearing", "f_chain"}

\* A chunk type that is known is one of four.
LEMMA ChunkTypeKnown ==
  ASSUME NEW sub, cmp_col_get_chunk_type(sub) # "unknown"
  PROVE  cmp_col_get_chunk_type(sub) \in ChunkTypes
BY DEF cmp_col_get_chunk_type, ChunkTypes

\* Five lists, one behind the other.
LEMMA ParConcatFive ==
  ASSUME NEW s \in Seq(ParEntry), NEW t \in Seq(ParEntry), NEW u \in Seq(ParEntry),
         NEW v \in Seq(ParEntry), NEW w \in Seq(ParEntry)
  PROVE  s \o t \o u \o v \o w \in Seq(ParEntry)
BY ParConcat, Zenon

\* Every parameter a chunk type provides is a member of struct cmp_par.
LEMMA ParOfTypes ==
  ASSUME NEW t \in ChunkTypes
  PROVE  ParOf(t) \in Seq(ParEntry)
<1>1. CASE t = "ncam_imagette"
  <2>1. PICK p1 \in Seq(ParEntry) : p1 = Coded("nc_imagette", IMAGETTE, 16)
    BY ParPairs, ParCoded DEF ParNames
  <2>2. ParOf(t) = p1
    BY ONLY <1>1, <2>1 DEF ParOf
  <2>3. /\ p1 \in Seq(ParEntry)
    BY ONLY <2>1
  <2>4. p1 \in Seq(ParEntry)
    BY ONLY <2>3, ParConcat, ParConcatFive, Zenon
  <2> QED
    BY ONLY <2>2, <2>4
<1>2. CASE t = "sat_imagette"
  <2>1. PICK p1 \in Seq(ParEntry) : p1 = Coded("saturated_imagette", IMAGETTE, 16)
    BY ParPairs, ParCoded DEF ParNames
  <2>2. ParOf(t) = p1
    BY ONLY <1>2, <2>1 DEF ParOf
  <2>3. /\ p1 \in Seq(ParEntry)
    BY ONLY <2>1
  <2>4. p1 \in Seq(ParEntry)
    BY ONLY <2>3, ParConcat, ParConcatFive, Zenon
  <2> QED
    BY ONLY <2>2, <2>4
<1>3. CASE t = "short_cadence"
  <2>1. PICK p1 \in Seq(ParEntry) : p1 = Coded("s_exp_flags", EXP_FLAGS, 8)
    BY ParPairs, ParCoded DEF ParNames
  <2>2. PICK p2 \in Seq(ParEntry) : p2 = Coded("s_fx", FX, 32)
    BY ParPairs, ParCoded DEF ParNames
  <2>3. PICK p3 \in Seq(ParEntry) : p3 = Coded("s_ncob", NCOB, 32)
    BY ParPairs, ParCoded DEF ParNames
  <2>4. PICK p4 \in Seq(ParEntry) : p4 = Coded("s_efx", EFX, 32)
    BY ParPairs, ParCoded DEF ParNames
  <2>5. PICK p5 \in Seq(ParEntry) : p5 = Coded("s_ecob", ECOB, 32)
    BY ParPairs, ParCoded DEF ParNames
  <2>6. ParOf(t) = p1 \o p2 \o p3 \o p4 \o p5
    BY ONLY <1>3, <2>1, <2>2, <2>3, <2>4, <2>5 DEF ParOf
  <2>7. /\ p1 \in Seq(ParEntry)
       /\ p2 \in Seq(ParEntry)
       /\ p3 \in Seq(ParEntry)
       /\ p4 \in Seq(ParEntry)
       /\ p5 \in Seq(ParEntry)
    BY ONLY <2>1, <2>2, <2>3, <2>4, <2>5
  <2>8. p1 \o p2 \o p3 \o p4 \o p5 \in Seq(ParEntry)
    BY ONLY <2>7, ParConcat, ParConcatFive, Zenon
  <2> QED
    BY ONLY <2>6, <2>8
<1>4. CASE t = "long_cadence"
  <2>1. PICK p1 \in Seq(ParEntry) : p1 = Coded("l_exp_flags", EXP_FLAGS, 24)
    BY ParPairs, ParCoded DEF ParNames
  <2>2. PICK p2 \in Seq(ParEntry) : p2 = Coded("l_fx", FX, 32)
    BY ParPairs, ParCoded DEF ParNames
  <2>3. PICK p3 \in Seq(ParEntry) : p3 = Coded("l_ncob", NCOB, 32)
    BY ParPairs, ParCoded DEF ParNames
  <2>4. PICK p4 \in Seq(ParEntry) : p4 = Coded("l_efx", EFX, 32)
    BY ParPairs, ParCoded DEF ParNames
  <2>5. PICK p5 \in Seq(ParEntry) : p5 = Coded("l_ecob", ECOB, 32)
    BY ParPairs, ParCoded DEF ParNames
  <2>6. PICK p6 \in Seq(ParEntry) : p6 = Coded("l_fx_cob_variance", FX_COB_VARIANCE, 32)
    BY ParPairs, ParCoded DEF ParNames
  <2>7. ParOf(t) = p1 \o p2 \o p3 \o p4 \o p5 \o p6
    BY ONLY <1>4, <2>1, <2>2, <2>3, <2>4, <2>5, <2>6 DEF ParOf
  <2>8. /\ p1 \in Seq(ParEntry)
       /\ p2 \in Seq(ParEntry)
       /\ p3 \in Seq(ParEntry)
       /\ p4 \in Seq(ParEntry)
       /\ p5 \in Seq(ParEntry)
       /\ p6 \in Seq(ParEntry)
    BY ONLY <2>1, <2>2, <2>3, <2>4, <2>5, <2>6
  <2>9. p1 \o p2 \o p3 \o p4 \o p5 \o p6 \in Seq(ParEntry)
    BY ONLY <2>8, ParConcat, ParConcatFive, Zenon
  <2> QED
    BY ONLY <2>7, <2>9
<1>5. CASE t = "offset_background"
  <2>1. PICK p1 \in Seq(ParEntry) : p1 = Coded("nc_offset_mean", OFFSET_MEAN, 32)
    BY ParPairs, ParCoded DEF ParNames
  <2>2. PICK p2 \in Seq(ParEntry) : p2 = Coded("nc_offset_variance", OFFSET_VARIANCE, 32)
    BY ParPairs, ParCoded DEF ParNames
  <2>3. PICK p3 \in Seq(ParEntry) : p3 = Coded("nc_background_mean", AUX_MEAN, 32)
    BY ParPairs, ParCoded DEF ParNames
  <2>4. PICK p4 \in Seq(ParEntry) : p4 = Coded("nc_background_variance", AUX_VARIANCE, 32)
    BY ParPairs, ParCoded DEF ParNames
  <2>5. PICK p5 \in Seq(ParEntry) : p5 = Coded("nc_background_outlier_pixels", PIXELS_ERROR, 16)
    BY ParPairs, ParCoded DEF ParNames
  <2>6. ParOf(t) = p1 \o p2 \o p3 \o p4 \o p5
    BY ONLY <1>5, <2>1, <2>2, <2>3, <2>4, <2>5 DEF ParOf
  <2>7. /\ p1 \in Seq(ParEntry)
       /\ p2 \in Seq(ParEntry)
       /\ p3 \in Seq(ParEntry)
       /\ p4 \in Seq(ParEntry)
       /\ p5 \in Seq(ParEntry)
    BY ONLY <2>1, <2>2, <2>3, <2>4, <2>5
  <2>8. p1 \o p2 \o p3 \o p4 \o p5 \in Seq(ParEntry)
    BY ONLY <2>7, ParConcat, ParConcatFive, Zenon
  <2> QED
    BY ONLY <2>6, <2>8
<1>6. CASE t = "smearing"
  <2>1. PICK p1 \in Seq(ParEntry) : p1 = Coded("smearing_mean", AUX_MEAN, 32)
    BY ParPairs, ParCoded DEF ParNames
  <2>2. PICK p2 \in Seq(ParEntry) : p2 = Coded("smearing_variance_mean", AUX_VARIANCE, 32)
    BY ParPairs, ParCoded DEF ParNames
  <2>3. PICK p3 \in Seq(ParEntry) : p3 = Coded("smearing_outlier_pixels", PIXELS_ERROR, 16)
    BY ParPairs, ParCoded DEF ParNames
  <2>4. ParOf(t) = p1 \o p2 \o p3
    BY ONLY <1>6, <2>1, <2>2, <2>3 DEF ParOf
  <2>5. /\ p1 \in Seq(ParEntry)
       /\ p2 \in Seq(ParEntry)
       /\ p3 \in Seq(ParEntry)
    BY ONLY <2>1, <2>2, <2>3
  <2>6. p1 \o p2 \o p3 \in Seq(ParEntry)
    BY ONLY <2>5, ParConcat, ParConcatFive, Zenon
  <2> QED
    BY ONLY <2>4, <2>6
<1>7. CASE t = "f_chain"
  <2>1. PICK p1 \in Seq(ParEntry) : p1 = Coded("fc_imagette", IMAGETTE, 16)
    BY ParPairs, ParCoded DEF ParNames
  <2>2. PICK p2 \in Seq(ParEntry) : p2 = Coded("fc_offset_mean", OFFSET_MEAN, 32)
    BY ParPairs, ParCoded DEF ParNames
  <2>3. PICK p3 \in Seq(ParEntry) : p3 = Coded("fc_offset_variance", OFFSET_VARIANCE, 32)
    BY ParPairs, ParCoded DEF ParNames
  <2>4. PICK p4 \in Seq(ParEntry) : p4 = Coded("fc_background_mean", AUX_MEAN, 32)
    BY ParPairs, ParCoded DEF ParNames
  <2>5. PICK p5 \in Seq(ParEntry) : p5 = Coded("fc_background_variance", AUX_VARIANCE, 32)
    BY ParPairs, ParCoded DEF ParNames
  <2>6. PICK p6 \in Seq(ParEntry) : p6 = Coded("fc_background_outlier_pixels", PIXELS_ERROR, 16)
    BY ParPairs, ParCoded DEF ParNames
  <2>7. ParOf(t) = p1 \o p2 \o p3 \o p4 \o p5 \o p6
    BY ONLY <1>7, <2>1, <2>2, <2>3, <2>4, <2>5, <2>6 DEF ParOf
  <2>8. /\ p1 \in Seq(ParEntry)
       /\ p2 \in Seq(ParEntry)
       /\ p3 \in Seq(ParEntry)
       /\ p4 \in Seq(ParEntry)
       /\ p5 \in Seq(ParEntry)
       /\ p6 \in Seq(ParEntry)
    BY ONLY <2>1, <2>2, <2>3, <2>4, <2>5, <2>6
  <2>9. p1 \o p2 \o p3 \o p4 \o p5 \o p6 \in Seq(ParEntry)
    BY ONLY <2>8, ParConcat, ParConcatFive, Zenon
  <2> QED
    BY ONLY <2>7, <2>9
<1> QED
  BY <1>1, <1>2, <1>3, <1>4, <1>5, <1>6, <1>7 DEF ChunkTypes

\* A configuration chunks are compressed with.
LEMMA InitCfgIs ==
  ASSUME setting \in Settings, NEW mode \in CmpMode
  PROVE  /\ Cfg(init_cmp_cfg_from_cmp_par(mode)) /\ init_cmp_cfg_from_cmp_par(mode).round = 0
         /\ init_cmp_cfg_from_cmp_par(mode).cmp_mode = mode
<1>1. /\ \A member \in DOMAIN setting.par : setting.par[member] \in Nat
      /\ "model_value" \in DOMAIN setting.par
      /\ \A j \in DOMAIN ParOf(chunk_type) : ParOf(chunk_type)[j].field \in DOMAIN setting.par
  BY SettingsAssumption, Zenon DEF chunk_type
<1>2. chunk_type \in ChunkTypes
  <2>1. /\ \A k \in DOMAIN setting.layout :
             cmp_col_get_chunk_type(setting.layout[k].sub) # "unknown"
    BY SettingsAssumption, Zenon
  <2>2. 1 \in DOMAIN setting.layout
    <3>1. DOMAIN setting.layout = 1 .. Count(setting) /\ Count(setting) \in Nat \ {0}
      BY Layout
    <3> QED
      BY <3>1
  <2> QED
    BY <2>1, <2>2, ChunkTypeKnown, Zenon DEF chunk_type
<1>3. PICK pars : pars = ParOf(chunk_type)
  OBVIOUS
<1>4. pars \in Seq(ParEntry)
  BY <1>2, <1>3, ParOfTypes
<1>5. \A j \in DOMAIN pars : /\ pars[j].bits \in Nat \ {0} /\ setting.par[pars[j].field] \in Nat
  <2>1. \A j \in DOMAIN pars : pars[j] \in ParEntry
    BY <1>4
  <2>2. \A j \in DOMAIN pars : pars[j].bits \in Nat \ {0}
    BY <2>1 DEF ParEntry
  <2>3. \A j \in DOMAIN pars : pars[j].field \in DOMAIN setting.par
    BY <1>1, <1>3
  <2> QED
    BY <1>1, <2>2, <2>3
<1> DEFINE at(k) == CHOOSE j \in DOMAIN pars : pars[j].pair = k
           set == {pars[j].pair : j \in DOMAIN pars}
           zero == zero_escape_mech_is_used(mode)
           par == [k \in Pair |-> IF k \in set THEN setting.par[pars[at(k)].field] ELSE 0]
           spill == [k \in Pair |->
                       IF k \in set
                       THEN Spill(setting.par[pars[at(k)].field], zero, pars[at(k)].bits) ELSE 0]
<1>6. init_cmp_cfg_from_cmp_par(mode) =
        [cmp_mode |-> mode, model_value |-> setting.par["model_value"], round |-> 0,
         par |-> par, spill |-> spill]
  BY <1>3 DEF init_cmp_cfg_from_cmp_par
<1>7. ASSUME NEW k \in set
      PROVE  /\ setting.par[pars[at(k)].field] \in Nat
             /\ Spill(setting.par[pars[at(k)].field], zero, pars[at(k)].bits) \in Nat
  <2>1. at(k) \in DOMAIN pars
    BY <1>7
  <2>2. PICK j \in DOMAIN pars : j = at(k)
    BY <2>1
  <2>3. zero \in BOOLEAN
    BY DEF zero_escape_mech_is_used
  <2>4. pars[j].bits \in Nat \ {0} /\ setting.par[pars[j].field] \in Nat
    BY <1>5
  <2>5. Spill(setting.par[pars[j].field], zero, pars[j].bits) \in Nat
    BY <2>3, <2>4, SpillTypes
  <2> QED
    BY <2>2, <2>4, <2>5
<1> HIDE DEF at, set, zero
<1>8. par \in [Pair -> Nat] /\ spill \in [Pair -> Nat]
  BY <1>7
<1> HIDE DEF par, spill
<1>9. mode \in Nat /\ setting.par["model_value"] \in Nat
  BY <1>1 DEF CmpMode, CMP_MODE_RAW, CMP_MODE_DIFF_MULTI
<1> QED
  BY <1>6, <1>8, <1>9 DEF Cfg

\* The configuration compress_like_rdcu makes from the RDCU's.
LEMMA RdcuCfgIs ==
  ASSUME NEW r \in RdcuConfigs
  PROVE  /\ Cfg(RdcuCfg(r)) /\ RdcuCfg(r).cmp_mode = r.cmp_mode
         /\ RdcuCfg(r).model_value = r.model_value /\ RdcuCfg(r).round = r.round
<1>1. r \in [cmp_mode : Nat, model_value : Nat, round : Nat, golomb_par : Nat, spill : Nat,
             ap1_golomb_par : Nat, ap1_spill : Nat, ap2_golomb_par : Nat, ap2_spill : Nat]
  BY HeaderAssumption, Zenon
<1> QED
  BY <1>1 DEF Cfg, RdcuCfg, ZeroCfg

\* The configuration nothing was set in.
LEMMA ZeroCfgIs == Cfg(ZeroCfg)
BY DEF Cfg, ZeroCfg

-----------------------------------------------------------------------------
(* The state: the parts of the invariant are about values, not variables, so *)
(* that a step that leaves the values alone keeps them.                      *)

SizeOf(s) == Offsets(s)[Count(s) + 1]

\* The chunk of a reading.
IsChunk(s, r, b) ==
  /\ Over(b, Places(s))
  /\ \A k \in 1 .. Count(s) : b[Offsets(s)[k]] = Column(HdrOf(s, r, k), DataOf(s, r, k))

CallerOk(s, r, b, p) ==
  /\ s \in Settings /\ r \in 1 .. MaxEntities + 1 /\ IsChunk(s, r, b)
  /\ p # "idle" => r <= MaxEntities

StampType == [start : [1 .. 4 -> Word], end : [1 .. 4 -> Word], id : Word \X Byte]

IsEntity(e) == e = [h |-> e.h, body |-> e.body]

\* After the entity is sent.
Received == {"received", "chunk", "raw chunk", "rdcu", "rdcu data", "decompressed", "rejected"}
Phases == {"idle", "collections", "compressed", "built"} \cup Received

PhaseOk(s, p, e, st, size, bytes) ==
  /\ p \in Phases
  /\ p = "collections" =>
       /\ ~ s.rdcu /\ e.h = NoBuffer /\ size \in Nat /\ st.id = <<0, 0>>
       /\ \E k \in 1 .. Count(s) + 1 : bytes = Offsets(s)[k]
  /\ p = "compressed" => s.rdcu /\ e = NoEntity /\ st = NoStamp
  /\ p = "built" => e # NoEntity

\* struct cmp_info of a compression with a struct rdcu_cfg.
InfoOf(s, c, inf) ==
  /\ inf.rcfg \in RdcuConfigs /\ c = RdcuCfg(inf.rcfg) /\ c.round <= MAX_ICU_ROUND
  /\ inf.cfg = [c EXCEPT !.model_value = c.model_value % 256, !.round = c.round % 256]
  /\ inf.samples = s.layout[1].n /\ inf.cmp_size \in Nat

InfoOk(s, p, c, inf) == s.rdcu /\ p # "idle" => InfoOf(s, c, inf)

WordsValid(words) ==
  \A q \in DOMAIN words : ParsAreValid(words[q].setup.par, words[q].setup.spill)

WordsOk(e, inf) ==
  /\ \A o \in DOMAIN e.body : WordsValid(e.body[o].words)
  /\ WordsValid(inf.words)

\* What the getters find, for the values it depends on.
IsRaw(c) == c.cmp_mode = CMP_MODE_RAW

ChunkHeaderOf(s, c, size, h, st) ==
  /\ h \in Headers /\ DOMAIN h = IF IsRaw(c) THEN 0 .. 31 ELSE 0 .. 61
  /\ WordsRead(h, 0, Version[1], Version[2]) /\ Get(h, 4, 3) = size
  /\ Get(h, 22, 2) = Stored("chunk", IsRaw(c))
  /\ Get(h, 7, 3) = SizeOf(s) /\ Get(h, 24, 1) = c.cmp_mode /\ Get(h, 25, 1) = c.model_value
  /\ Get(h, 26, 2) = st.id[1] /\ Get(h, 28, 1) = st.id[2]
  /\ Get(h, 29, 1) = 0 /\ Get(h, 30, 2) = c.round
  /\ StampsRead(h, st.start, st.end)
  /\ ~ IsRaw(c) =>
       \A k \in Pair : Get(h, SpillAt(k), 3) = c.spill[k] /\ Get(h, ParAt(k), 2) = c.par[k]

\* The header of a chunk, for the sender's own variables.
LEMMA ChunkHeaderOfIs ==
  ASSUME setting \in Settings, NEW h, NEW st
  PROVE  ChunkHeaderOf(setting, cfg, dst_size, h, st)
           <=> ChunkRead(h, st.start, st.end, st.id[1], st.id[2])
<1>1. ChunkSize = SizeOf(setting)
  BY BoundAssumption, ChunkIs DEF SizeOf
<1>2. raw_mode = IsRaw(cfg)
  BY DEF raw_mode, IsRaw
<1> QED
  BY <1>1, <1>2, Zenon DEF ChunkHeaderOf, ChunkRead, GenericRead, PairsRead

RdcuHeaderOf(inf, h, t, id) ==
  LET raw == IsRaw(inf.cfg)
  IN  /\ h \in Headers /\ DOMAIN h = 0 .. cmp_ent_cal_hdr_size(t, raw) - 1
      /\ Get(h, 4, 3) = cmp_ent_cal_hdr_size(t, raw) + BitToByte(inf.cmp_size)
      /\ Get(h, 22, 2) = Stored(t, raw)
      /\ Get(h, 7, 3) = 2 * inf.samples /\ Get(h, 24, 1) = inf.cfg.cmp_mode
      /\ Get(h, 25, 1) = inf.cfg.model_value /\ Get(h, 29, 1) = 0
      /\ Get(h, 30, 2) = inf.cfg.round
      /\ ~ raw => Get(h, 32, 2) = inf.cfg.spill[IMAGETTE] /\ Get(h, 34, 1) = inf.cfg.par[IMAGETTE]
      /\ ~ raw /\ t \in ap_imagettes =>
           /\ Get(h, 35, 2) = inf.rcfg.ap1_spill /\ Get(h, 37, 1) = inf.rcfg.ap1_golomb_par
           /\ Get(h, 38, 2) = inf.rcfg.ap2_spill /\ Get(h, 40, 1) = inf.rcfg.ap2_golomb_par
      /\ Get(h, 26, 2) = id[1] /\ Get(h, 28, 1) = id[2]

\* The header of an RDCU entity, for the sender's own variables.
LEMMA RdcuHeaderOfIs ==
  ASSUME NEW h, NEW t, NEW id
  PROVE  RdcuHeaderOf(info, h, t, id) <=> RdcuRead(h, t, BitToByte(info.cmp_size), id[1], id[2])
BY Zenon DEF RdcuHeaderOf, RdcuRead, RdcuGenericRead, RdcuPairRead, RdcuAdaptiveRead, IsRaw

HeaderHolds(s, c, size, inf, h, st) ==
  IF s.rdcu THEN \E t \in imagettes : RdcuHeaderOf(inf, h, t, st.id)
  ELSE ChunkHeaderOf(s, c, size, h, st) /\ c.model_value < Limit(1) /\ size \in Nat

HeaderOk(s, p, c, size, inf, e, st) ==
  p = "built" \/ (p \in Received /\ e # NoEntity) => HeaderHolds(s, c, size, inf, e.h, st)

CallerInv == CallerOk(setting, reading, chunk, pc)
TypeInv == Cfg(cfg) /\ stamp \in StampType /\ IsEntity(ent)
PhaseInv == PhaseOk(setting, pc, ent, stamp, dst_size, read_bytes)
InfoInv == InfoOk(setting, pc, cfg, info)
HeaderInv == HeaderOk(setting, pc, cfg, dst_size, info, ent, stamp)
WordsInv == WordsOk(ent, info)

SenderInv == CallerInv /\ TypeInv /\ PhaseInv /\ InfoInv /\ HeaderInv /\ WordsInv

\* The invariant implies that the parameters were checked.
LEMMA SenderInvChecked ==
  ASSUME SenderInv PROVE ParsChecked
BY Zenon DEF SenderInv, WordsInv, WordsOk, WordsValid, ParsChecked

\* A step of the receiver.
LEMMA ReceiverKeeps ==
  ASSUME SenderInv, pc \in Received, pc' \in Received,
         UNCHANGED <<setting, reading, chunk, cfg, stamp, dst_size, read_bytes, info, ent>>
  PROVE  SenderInv'
<1>1. /\ pc \notin {"idle", "built", "compressed", "collections"}
      /\ pc' \notin {"idle", "built", "compressed", "collections"}
  BY DEF Received
<1>2. CallerInv'
  BY <1>1 DEF SenderInv, CallerInv, CallerOk
<1>3. TypeInv'
  BY DEF SenderInv, TypeInv
<1>4. PhaseInv'
  BY <1>1, Zenon DEF SenderInv, PhaseInv, PhaseOk, Phases
<1>5. InfoInv'
  BY <1>1, Zenon DEF SenderInv, InfoInv, InfoOk
<1>6. HeaderInv'
  BY <1>1, Zenon DEF SenderInv, HeaderInv, HeaderOk
<1>7. WordsInv'
  BY DEF SenderInv, WordsInv
<1> QED
  BY <1>2, <1>3, <1>4, <1>5, <1>6, <1>7 DEF SenderInv

\* Offsets and sizes are numbers.
LEMMA SizeTypes ==
  ASSUME NEW s \in Settings, NEW k \in 1 .. Count(s) + 1
  PROVE  Offsets(s)[k] \in Nat /\ SizeOf(s) \in Nat
<1>1. IsOffsets(s, Offsets(s)) /\ Count(s) \in Nat
  BY OffsetsExist, Layout
<1> QED
  BY <1>1 DEF IsOffsets, SizeOf

\* What the caller gives: a setting, and a chunk of its size.
LEMMA SettingChunk ==
  ASSUME CallerInv
  PROVE  /\ setting \in Settings /\ ChunkSize = SizeOf(setting) /\ ChunkSize \in Nat
         /\ IsChunk(setting, reading, chunk) /\ reading \in 1 .. MaxEntities + 1
<1>1. setting \in Settings /\ IsChunk(setting, reading, chunk) /\ reading \in 1 .. MaxEntities + 1
  BY DEF CallerInv, CallerOk
<1>2. ChunkSize = SizeOf(setting)
  BY <1>1, ChunkIs DEF SizeOf
<1>3. 1 \in 1 .. Count(setting) + 1
  BY <1>1, Layout
<1> QED
  BY <1>1, <1>2, <1>3, SizeTypes

\* The entity of a chunk has the header of its configuration.
LEMMA HeaderKeptHolds ==
  ASSUME SenderInv PROVE HeaderKept
<1> SUFFICES ASSUME pc = "built"
             PROVE  GenericKept /\ IF setting.rdcu THEN RdcuHeaderKept ELSE ChunkHeaderKept
  BY DEF HeaderKept
<1>1. /\ setting \in Settings /\ ChunkSize = SizeOf(setting)
      /\ IsChunk(setting, reading, chunk)
  BY SettingChunk DEF SenderInv
<1>2. HeaderHolds(setting, cfg, dst_size, info, ent.h, stamp)
  BY DEF SenderInv, HeaderInv, HeaderOk
<1>3. stamp \in StampType /\ Cfg(cfg)
  BY DEF SenderInv, TypeInv
<1>4. stamp.start \in [1 .. 4 -> Word] /\ stamp.end \in [1 .. 4 -> Word] /\ stamp.id \in Word \X Byte
  BY <1>3 DEF StampType
<1>5. CASE ~ setting.rdcu
  <2>1. /\ ChunkHeaderOf(setting, cfg, dst_size, ent.h, stamp) /\ cfg.model_value < Limit(1)
    BY <1>2, <1>5, Zenon DEF HeaderHolds
  <2>2. ChunkRead(ent.h, stamp.start, stamp.end, stamp.id[1], stamp.id[2])
    BY <1>1, <2>1, ChunkHeaderOfIs, Zenon
  <2>3. cfg.model_value \in Nat
    BY <1>3 DEF Cfg
  <2>4. GenericKept /\ ChunkHeaderKept
    BY <1>4, <2>1, <2>2, <2>3, ChunkHeaderRead, Zenon
  <2> QED
    BY <1>5, <2>4
<1>6. CASE setting.rdcu
  <2>1. PICK t \in imagettes : RdcuHeaderOf(info, ent.h, t, stamp.id)
    BY <1>2, <1>6, Zenon DEF HeaderHolds
  <2>2. RdcuRead(ent.h, t, BitToByte(info.cmp_size), stamp.id[1], stamp.id[2])
    BY <2>1, RdcuHeaderOfIs, Zenon
  <2>3. InfoOf(setting, cfg, info)
    BY <1>6 DEF SenderInv, InfoInv, InfoOk
  <2>4. /\ info.cfg = [cfg EXCEPT !.model_value = cfg.model_value % 256, !.round = cfg.round % 256]
        /\ cfg = RdcuCfg(info.rcfg) /\ cfg.round <= 3 /\ info.samples = setting.layout[1].n
        /\ info.cmp_size \in Nat
    BY <2>3 DEF InfoOf, MAX_ICU_ROUND
  <2>5. cfg.round \in 0 .. 3 /\ cfg.round % 256 = cfg.round
    BY <1>3, <2>4 DEF Cfg
  <2>6. /\ info.cfg.cmp_mode = cfg.cmp_mode /\ info.cfg.model_value = cfg.model_value % 256
        /\ info.cfg.round = cfg.round /\ info.cfg.spill = cfg.spill /\ info.cfg.par = cfg.par
    BY <2>4, <2>5 DEF RdcuCfg
  <2>7. ChunkSize = 2 * info.samples
    <3>1. IsOffsets(setting, Offsets(setting)) /\ Count(setting) = 1
      BY <1>1, <1>6, OffsetsExist, Layout
    <3>2. TypeOf(setting, 1) = "imagette" /\ HeaderOf(setting) = 0
      BY <1>6 DEF TypeOf, HeaderOf
    <3>3. LengthOf(setting, 1) = setting.layout[1].n * 2
      BY <3>2 DEF LengthOf, size_of_a_sample, imagettes
    <3>4. Offsets(setting)[1 + 1] = 0 + 0 + setting.layout[1].n * 2
      BY <3>1, <3>2, <3>3 DEF IsOffsets
    <3>5. setting.layout[1].n \in Nat
      BY <1>1, <3>1, Layout
    <3> QED
      BY <1>1, <2>4, <3>1, <3>4, <3>5 DEF SizeOf
  <2>8. GenericKept /\ RdcuHeaderKept
    <3>1. /\ info.cfg.spill[IMAGETTE] = cfg.spill[IMAGETTE] /\ info.cfg.par[IMAGETTE] = cfg.par[IMAGETTE]
          /\ 2 * info.samples = ChunkSize /\ info.cmp_size \in Nat
      BY <2>4, <2>6, <2>7
    <3> QED
      BY <1>4, <2>1, <2>2, <2>6, <3>1, RdcuHeaderRead, Zenon
  <2> QED
    BY <1>6, <2>8
<1> QED
  BY <1>5, <1>6

\* The entity before the first compression.
LEMMA NothingThere ==
  /\ DOMAIN NoEntity.body = {} /\ IsEntity(NoEntity) /\ NoEntity.h = NoBuffer
  /\ NoStamp \in StampType /\ NoStamp.id = <<0, 0>>
  /\ WordsValid(<<>>)
  /\ ~ \E o \in DOMAIN NoEntity.body : TRUE
<1>1. 0 \in Word /\ 0 \in Byte
  BY DEF Word, Byte
<1>2. <<0, 0, 0, 0>> \in [1 .. 4 -> Word]
  BY <1>1
<1>3. NoStamp \in StampType /\ NoStamp.id = <<0, 0>>
  BY <1>1, <1>2 DEF NoStamp, StampType
<1> QED
  BY <1>3 DEF NoEntity, IsEntity, NoBuffer, WordsValid

\* A timestamp is four words.
LEMMA StampsTyped ==
  ASSUME NEW x \in Stamps PROVE x \in [1 .. 4 -> Word]
BY HeaderAssumption, Zenon

\* The identifiers fit into their fields.
LEMMA IdsTyped ==
  ASSUME NEW x \in Ids PROVE x[1] \in Word /\ x[2] \in Byte
<1>1. x \in Word \X Byte
  BY HeaderAssumption, Zenon
<1> QED
  BY <1>1

\* The invariant holds when the program starts.
LEMMA InitSender ==
  ASSUME Init PROVE SenderInv
<1>1. setting \in Settings /\ reading = 1 /\ chunk = Chunk(1) /\ pc = "idle"
      /\ cfg = ZeroCfg /\ stamp = NoStamp /\ info = NoInfo /\ ent = NoEntity
  BY DEF Init
<1>2. 1 \in 1 .. MaxEntities + 1
  BY BoundAssumption
<1>3. IsChunk(setting, 1, Chunk(1))
  BY <1>1, <1>2, ChunkIs DEF IsChunk
<1>4. CallerInv
  BY <1>1, <1>2, <1>3 DEF CallerInv, CallerOk
<1>5. TypeInv
  BY <1>1, NothingThere, ZeroCfgIs DEF TypeInv
<1>6. PhaseInv /\ InfoInv /\ HeaderInv
  BY <1>1 DEF PhaseInv, PhaseOk, InfoInv, InfoOk, HeaderInv, HeaderOk, Phases, Received
<1>7. WordsInv
  <2>1. NoInfo.words = <<>>
    BY DEF NoInfo
  <2> QED
    BY <1>1, <2>1, NothingThere DEF WordsInv, WordsOk
<1> QED
  BY <1>4, <1>5, <1>6, <1>7 DEF SenderInv

\* A step after which the caller is idle.
LEMMA FailureKeeps ==
  ASSUME SenderInv, pc' = "idle", UNCHANGED <<setting, reading, chunk>>,
         Cfg(cfg'), UNCHANGED <<stamp, ent>>, WordsValid(info'.words)
  PROVE  SenderInv'
<1>1. CallerInv'
  BY DEF SenderInv, CallerInv, CallerOk
<1>2. TypeInv'
  BY DEF SenderInv, TypeInv
<1>3. PhaseInv' /\ InfoInv' /\ HeaderInv'
  BY DEF PhaseInv, PhaseOk, InfoInv, InfoOk, HeaderInv, HeaderOk, Phases, Received
<1>4. WordsInv'
  BY DEF SenderInv, WordsInv, WordsOk
<1> QED
  BY <1>1, <1>2, <1>3, <1>4 DEF SenderInv

\* compress_chunk keeps the invariant.
LEMMA CompressChunkKeeps ==
  ASSUME SenderInv, NEW mode \in CmpMode, NEW start \in Stamps, compress_chunk(mode, start)
  PROVE  SenderInv'
<1>1. /\ ~ setting.rdcu /\ reading <= MaxEntities
      /\ cfg' = init_cmp_cfg_from_cmp_par(mode) /\ stamp' = [NoStamp EXCEPT !.start = start]
      /\ dst_size' = IF mode = CMP_MODE_RAW THEN GENERIC_HEADER_SIZE ELSE NON_IMAGETTE_HEADER_SIZE
      /\ read_bytes' = 0 /\ ent' = NoEntity /\ pc' = "collections"
      /\ UNCHANGED <<setting, reading, chunk, info>>
  BY DEF compress_chunk, caller
<1>2. setting \in Settings
  BY SettingChunk DEF SenderInv
<1>3. CallerInv'
  BY <1>1 DEF SenderInv, CallerInv, CallerOk
<1>4. stamp' \in StampType /\ stamp'.id = <<0, 0>>
  BY <1>1, StampsTyped, NothingThere DEF StampType
<1>5. TypeInv'
  BY <1>1, <1>2, <1>4, InitCfgIs, NothingThere DEF TypeInv
<1>6. PhaseInv'
  <2>1. 1 \in 1 .. Count(setting) + 1 /\ Offsets(setting)[1] = 0
    BY <1>2, Layout, OffsetsExist DEF IsOffsets
  <2>2. \E k \in 1 .. Count(setting) + 1 : read_bytes' = Offsets(setting)[k]
    BY <1>1, <2>1
  <2>3. dst_size' \in Nat
    BY <1>1 DEF GENERIC_HEADER_SIZE, NON_IMAGETTE_HEADER_SIZE
  <2>4. ent'.h = NoBuffer
    BY <1>1, NothingThere
  <2>5. pc' \in Phases /\ pc' = "collections"
    BY <1>1 DEF Phases
  <2> QED
    BY <1>1, <1>4, <2>2, <2>3, <2>4, <2>5 DEF PhaseInv, PhaseOk
<1>7. InfoInv' /\ HeaderInv'
  BY <1>1 DEF InfoInv, InfoOk, HeaderInv, HeaderOk, Received
<1>8. WordsInv'
  BY <1>1, NothingThere DEF SenderInv, WordsInv, WordsOk
<1> QED
  BY <1>3, <1>5, <1>6, <1>7, <1>8 DEF SenderInv

\* Where compress_chunk() is in the chunk.
LEMMA CollectionIs ==
  ASSUME SenderInv, AtCollection
  PROVE  \E k \in 1 .. Count(setting) :
           /\ read_bytes = Offsets(setting)[k]
           /\ Col.hdr = HdrOf(setting, reading, k) /\ Col.hdr.len = LengthOf(setting, k)
           /\ Col.data = DataOf(setting, reading, k) /\ DataType = TypeOf(setting, k)
           /\ Offsets(setting)[k + 1] = read_bytes + COLLECTION_HDR_SIZE + Col.hdr.len
<1>1. pc = "collections" /\ read_bytes < ChunkSize
  BY DEF AtCollection
<1>2. /\ ~ setting.rdcu
      /\ \E k \in 1 .. Count(setting) + 1 : read_bytes = Offsets(setting)[k]
  BY <1>1 DEF SenderInv, PhaseInv, PhaseOk
<1>3. /\ setting \in Settings /\ ChunkSize = SizeOf(setting) /\ ChunkSize \in Nat
      /\ IsChunk(setting, reading, chunk)
  BY SettingChunk DEF SenderInv
<1>4. PICK k \in 1 .. Count(setting) + 1 : read_bytes = Offsets(setting)[k]
  BY <1>2
<1>5. k \in 1 .. Count(setting)
  <2>1. k # Count(setting) + 1
    BY <1>1, <1>3, <1>4, SizeTypes DEF SizeOf
  <2>2. Count(setting) \in Nat
    BY <1>3, Layout
  <2> QED
    BY <2>1, <2>2
<1>6. Col = Column(HdrOf(setting, reading, k), DataOf(setting, reading, k))
  BY <1>3, <1>4, <1>5 DEF Col, IsChunk
<1>7. Col.hdr = HdrOf(setting, reading, k) /\ Col.data = DataOf(setting, reading, k)
  BY <1>6, ColIs
<1>8. HdrOf(setting, reading, k) =
        [sub |-> setting.layout[k].sub, len |-> LengthOf(setting, k), tag |-> reading]
  BY <1>2 DEF HdrOf
<1>9. Col.hdr.len = LengthOf(setting, k) /\ Col.hdr.sub = setting.layout[k].sub
  BY <1>7, <1>8
<1>10. DataType = TypeOf(setting, k)
  BY <1>2, <1>9 DEF DataType, TypeOf
<1>11. HeaderOf(setting) = COLLECTION_HDR_SIZE
  BY <1>2 DEF HeaderOf
<1>12. Offsets(setting)[k + 1] = read_bytes + COLLECTION_HDR_SIZE + Col.hdr.len
  BY <1>3, <1>4, <1>5, <1>9, <1>11, OffsetsExist DEF IsOffsets
<1> QED
  BY <1>4, <1>5, <1>7, <1>9, <1>10, <1>12

\* A collection written to the entity keeps the invariant.
LEMMA FinishKeeps ==
  ASSUME SenderInv, AtCollection, NEW words, NEW data, NEW size \in Nat,
         Finish(words, data, size), WordsValid(words)
  PROVE  SenderInv'
<1>1. PICK k \in 1 .. Count(setting) :
        Offsets(setting)[k + 1] = read_bytes + COLLECTION_HDR_SIZE + Col.hdr.len
  BY CollectionIs
<1>2. PICK o, col : /\ col.words = words
                    /\ ent' = [ent EXCEPT !.body = With(ent.body, o, col)]
                    /\ dst_size' = dst_size + SizeField + COLLECTION_HDR_SIZE + size
                    /\ read_bytes' = Offsets(setting)[k + 1]
                    /\ pc = "collections"
                    /\ UNCHANGED <<setting, reading, chunk, pc, cfg, stamp, info>>
  <2>1. PICK col : col = [size |-> size, hdr |-> Col.hdr, words |-> words, data |-> data]
    OBVIOUS
  <2>2. col.words = words
    BY <2>1
  <2>3. ent' = [ent EXCEPT !.body = With(ent.body, dst_size - HeaderSize, col)]
    BY <2>1 DEF Finish
  <2>4. /\ dst_size' = dst_size + SizeField + COLLECTION_HDR_SIZE + size
        /\ read_bytes' = Offsets(setting)[k + 1] /\ pc = "collections"
        /\ UNCHANGED <<setting, reading, chunk, pc, cfg, stamp, info>>
    BY <1>1 DEF Finish, caller, AtCollection
  <2> QED
    BY <2>2, <2>3, <2>4, Zenon
<1>3. ent = [h |-> ent.h, body |-> ent.body]
  BY DEF SenderInv, TypeInv, IsEntity
<1>4. ent' = [h |-> ent.h, body |-> With(ent.body, o, col)]
  BY <1>2, <1>3
<1>5. CallerInv' /\ InfoInv'
  BY <1>2 DEF SenderInv, CallerInv, InfoInv
<1>6. TypeInv'
  BY <1>2, <1>4 DEF SenderInv, TypeInv, IsEntity
<1>7. PhaseInv'
  <2>1. dst_size \in Nat /\ ~ setting.rdcu /\ ent.h = NoBuffer /\ stamp.id = <<0, 0>>
    BY <1>2 DEF SenderInv, PhaseInv, PhaseOk
  <2>2. dst_size' \in Nat
    BY <1>2, <2>1 DEF SizeField, COLLECTION_HDR_SIZE, CMP_COLLECTION_FILD_SIZE
  <2>3. k + 1 \in 1 .. Count(setting) + 1
    BY <1>1, SettingChunk, Layout DEF SenderInv
  <2>4. \E l \in 1 .. Count(setting) + 1 : read_bytes' = Offsets(setting)[l]
    BY <1>2, <2>3
  <2>5. ent'.h = NoBuffer
    BY <1>4, <2>1
  <2>6. pc' \in Phases /\ pc' = "collections"
    BY <1>2 DEF Phases
  <2> QED
    BY <1>2, <2>1, <2>2, <2>4, <2>5, <2>6 DEF PhaseInv, PhaseOk
<1>8. HeaderInv'
  BY <1>2 DEF HeaderInv, HeaderOk, Received
<1>9. WordsInv'
  <2>1. \A x \in DOMAIN ent.body : WordsValid(ent.body[x].words)
    BY DEF SenderInv, WordsInv, WordsOk
  <2>2. ASSUME NEW x \in DOMAIN ent'.body PROVE WordsValid(ent'.body[x].words)
    <3>1. x \in DOMAIN ent.body \cup {o} /\ ent'.body[x] = IF x = o THEN col ELSE ent.body[x]
      BY <1>4, <2>2 DEF With
    <3> QED
      BY <1>2, <2>1, <3>1
  <2> QED
    BY <1>2, <2>2 DEF SenderInv, WordsInv, WordsOk
<1> QED
  BY <1>5, <1>6, <1>7, <1>8, <1>9 DEF SenderInv

\* A collection keeps the invariant, stored or compressed.
LEMMA CollectionKeeps ==
  ASSUME SenderInv, \/ RawCollection \/ StoredRaw
                    \/ AtCollection /\ \E size \in 0 .. Col.hdr.len : Compressed(size)
  PROVE  SenderInv'
<1>1. AtCollection /\ (\E words, data : WordsValid(words) /\ \E size \in Nat : Finish(words, data, size))
  <2>1. AtCollection
    BY DEF RawCollection, StoredRaw, Checked
  <2>2. PICK k \in 1 .. Count(setting) :
          /\ Col.hdr.len = LengthOf(setting, k) /\ Col.data = DataOf(setting, reading, k)
          /\ DataType = TypeOf(setting, k)
    BY <2>1, CollectionIs
  <2>3. /\ setting \in Settings /\ reading \in 1 .. MaxEntities + 1
    BY SettingChunk DEF SenderInv
  <2>4. Col.hdr.len \in Nat /\ DataType \in Types
    BY <2>2, <2>3, Layout
  <2>5. CASE RawCollection \/ StoredRaw
    <3>1. Finish(<<>>, InEntity, Col.hdr.len)
      BY <2>5 DEF RawCollection, StoredRaw
    <3> QED
      BY <2>1, <2>4, <3>1, NothingThere
  <2>6. CASE \E size \in 0 .. Col.hdr.len : Compressed(size)
    <3>1. PICK size \in 0 .. Col.hdr.len : Compressed(size)
      BY <2>6
    <3>2. /\ Finish(Encode(cfg, DataType, Col.data, Model), <<>>, size)
          /\ SpecificValid(cfg, DataType) /\ cfg.cmp_mode # CMP_MODE_RAW
      BY <3>1 DEF Compressed, Checked, raw_mode
    <3>3. /\ Col.data \in Samples(DataType, setting.layout[k].n)
          /\ setting.layout[k].n \in Nat
      BY <2>2, <2>3, DataTyped, Layout DEF SamplesOf
    <3>4. WordsValid(Encode(cfg, DataType, Col.data, Model))
      BY <2>4, <3>2, <3>3, EncodeChecked, Zenon DEF WordsValid
    <3>5. size \in Nat
      BY <2>4, <3>1
    <3> QED
      BY <2>1, <3>2, <3>4, <3>5
  <2> QED
    BY <2>5, <2>6
<1> QED
  BY <1>1, FinishKeeps

\* cmp_ent_build_chunk_header keeps the invariant.
LEMMA HeaderKeeps ==
  ASSUME SenderInv, NEW end \in Stamps, cmp_ent_build_chunk_header(end)
  PROVE  SenderInv'
<1>1. /\ pc = "collections" /\ pc' = "built"
      /\ ~ Refused(ChunkHeader) /\ ~ Refused(Timestamps(end))
      /\ ent' = [ent EXCEPT !.h = PutAll(ent.h, ChunkHeader \o Timestamps(end))]
      /\ stamp' = [stamp EXCEPT !.end = end]
      /\ UNCHANGED <<setting, reading, chunk, cfg, dst_size, read_bytes, info>>
  BY DEF cmp_ent_build_chunk_header, caller
<1>2. /\ setting \in Settings /\ ChunkSize = SizeOf(setting) /\ ChunkSize \in Nat
  BY SettingChunk DEF SenderInv
<1>3. ~ setting.rdcu /\ ent.h = NoBuffer /\ dst_size \in Nat /\ stamp.id = <<0, 0>>
  BY <1>1 DEF SenderInv, PhaseInv, PhaseOk
<1>4. Cfg(cfg) /\ stamp \in StampType /\ ent = [h |-> ent.h, body |-> ent.body]
  BY DEF SenderInv, TypeInv, IsEntity
<1>5. stamp.start \in [1 .. 4 -> Word] /\ end \in [1 .. 4 -> Word]
  BY <1>4, StampsTyped DEF StampType
<1>6. PICK h : h = PutAll(NoBuffer, ChunkHeader \o Timestamps(end))
  OBVIOUS
<1>7. /\ ChunkRead(h, stamp.start, end, 0, 0) /\ cfg.model_value < Limit(1)
  BY <1>1, <1>2, <1>3, <1>4, <1>5, <1>6, ChunkHeaderBuilt, Zenon
<1>8. /\ stamp' \in StampType /\ stamp'.start = stamp.start /\ stamp'.end = end
      /\ stamp'.id = <<0, 0>>
  BY <1>1, <1>3, <1>4, <1>5 DEF StampType
<1>9. ent' = [h |-> h, body |-> ent.body]
  BY <1>1, <1>3, <1>4, <1>6
<1>10. ChunkHeaderOf(setting, cfg, dst_size, h, stamp')
  <2>1. PICK st : st = stamp'
    OBVIOUS
  <2>2. st.start = stamp.start /\ st.end = end /\ st.id[1] = 0 /\ st.id[2] = 0
    BY <1>8, <2>1
  <2>3. ChunkRead(h, st.start, st.end, st.id[1], st.id[2])
    BY <1>7, <2>2, Zenon
  <2>4. ChunkHeaderOf(setting, cfg, dst_size, h, st)
    BY <1>2, <2>3, ChunkHeaderOfIs, Zenon
  <2> QED
    BY <2>1, <2>4
<1>11. HeaderHolds(setting, cfg, dst_size, info, h, stamp')
  BY <1>3, <1>7, <1>10, Zenon DEF HeaderHolds
<1>12. HeaderInv'
  <2>1. ent'.h = h
    BY <1>9
  <2> QED
    BY <1>1, <1>11, <2>1 DEF HeaderInv, HeaderOk
<1>13. CallerInv' /\ InfoInv'
  BY <1>1 DEF SenderInv, CallerInv, CallerOk, InfoInv, InfoOk
<1>14. TypeInv'
  BY <1>1, <1>4, <1>8, <1>9 DEF TypeInv, IsEntity
<1>15. PhaseInv'
  <2>1. h # NoBuffer
    <3>1. DOMAIN h = IF raw_mode THEN 0 .. 31 ELSE 0 .. 61
      BY <1>7, Zenon DEF ChunkRead
    <3>2. 0 \in DOMAIN h
      BY <3>1
    <3> QED
      BY <3>2, NothingWritten
  <2>2. ent' # NoEntity
    BY <1>9, <2>1, NothingThere
  <2>3. pc' \in Phases /\ pc' = "built"
    BY <1>1 DEF Phases
  <2> QED
    BY <2>2, <2>3 DEF PhaseInv, PhaseOk
<1>16. WordsInv'
  BY <1>1, <1>9 DEF SenderInv, WordsInv, WordsOk
<1> QED
  BY <1>12, <1>13, <1>14, <1>15, <1>16 DEF SenderInv

\* compress_chunk_set_model_id_and_counter keeps the invariant.
LEMMA IdentifiersKeep ==
  ASSUME SenderInv, NEW x \in Ids, compress_chunk_set_model_id_and_counter(x[1], x[2])
  PROVE  SenderInv'
<1>1. PICK id \in Word, counter \in Byte : id = x[1] /\ counter = x[2]
  BY IdsTyped
<1>2. PICK h : h = PutAll(ent.h, Identifiers(id, counter))
  OBVIOUS
<1>3. /\ pc = "built"
      /\ ent' = [ent EXCEPT !.h = h]
      /\ stamp' = [stamp EXCEPT !.id = <<id, counter>>]
      /\ UNCHANGED <<setting, reading, chunk, pc, cfg, dst_size, read_bytes, info>>
  BY <1>1, <1>2 DEF compress_chunk_set_model_id_and_counter, caller, Identifiers
<1>4. Cfg(cfg) /\ stamp \in StampType /\ ent = [h |-> ent.h, body |-> ent.body]
  BY DEF SenderInv, TypeInv, IsEntity
<1>5. ent' = [h |-> h, body |-> ent.body]
  BY <1>3, <1>4
<1>6. /\ stamp' \in StampType /\ stamp'.start = stamp.start /\ stamp'.end = stamp.end
      /\ stamp'.id = <<id, counter>>
  BY <1>3, <1>4 DEF StampType
<1>7. setting \in Settings
  BY SettingChunk DEF SenderInv
<1>8. HeaderHolds(setting, cfg, dst_size, info, ent.h, stamp)
  BY <1>3 DEF SenderInv, HeaderInv, HeaderOk
<1>9. PICK st : st = stamp'
  OBVIOUS
<1>10. st.start = stamp.start /\ st.end = stamp.end /\ st.id[1] = id /\ st.id[2] = counter
  BY <1>6, <1>9
<1>11. HeaderHolds(setting, cfg, dst_size, info, h, st) /\ h # NoBuffer
  <2>1. CASE setting.rdcu
    <3>1. PICK t \in imagettes : RdcuHeaderOf(info, ent.h, t, stamp.id)
      BY <1>8, <2>1, Zenon DEF HeaderHolds
    <3>2. RdcuRead(ent.h, t, BitToByte(info.cmp_size), stamp.id[1], stamp.id[2])
      BY <3>1, RdcuHeaderOfIs, Zenon
    <3>3. RdcuRead(h, t, BitToByte(info.cmp_size), id, counter)
      BY <1>2, <3>2, RdcuIdentified, Zenon
    <3>4. RdcuHeaderOf(info, h, t, st.id)
      BY <1>10, <3>3, RdcuHeaderOfIs, Zenon
    <3>5. h # NoBuffer
      <4>1. PICK raw \in BOOLEAN : raw = (info.cfg.cmp_mode = CMP_MODE_RAW)
        OBVIOUS
      <4>2. PICK n \in Nat : n = cmp_ent_cal_hdr_size(t, raw) /\ n >= 32
        <5>1. t \in imagettes /\ raw \in BOOLEAN
          OBVIOUS
        <5> QED
          BY ONLY <5>1, ImagetteHeaderSize
      <4>3. DOMAIN h = 0 .. n - 1
        BY <3>3, <4>1, <4>2 DEF RdcuRead
      <4>4. 0 \in DOMAIN h
        BY <4>2, <4>3
      <4> QED
        BY <4>4, NothingWritten
    <3> QED
      BY <2>1, <3>4, <3>5, Zenon DEF HeaderHolds
  <2>2. CASE ~ setting.rdcu
    <3>1. /\ ChunkHeaderOf(setting, cfg, dst_size, ent.h, stamp) /\ cfg.model_value < Limit(1)
          /\ dst_size \in Nat
      BY <1>8, <2>2, Zenon DEF HeaderHolds
    <3>2. ChunkRead(ent.h, stamp.start, stamp.end, stamp.id[1], stamp.id[2])
      BY <1>7, <3>1, ChunkHeaderOfIs, Zenon
    <3>3. ChunkRead(h, stamp.start, stamp.end, id, counter)
      BY <1>2, <3>2, ChunkIdentified, Zenon
    <3>4. ChunkHeaderOf(setting, cfg, dst_size, h, st)
      BY <1>7, <1>10, <3>3, ChunkHeaderOfIs, Zenon
    <3>5. h # NoBuffer
      <4>1. DOMAIN h = IF raw_mode THEN 0 .. 31 ELSE 0 .. 61
        BY <3>3, Zenon DEF ChunkRead
      <4>2. 0 \in DOMAIN h
        BY <4>1
      <4> QED
        BY <4>2, NothingWritten
    <3> QED
      BY <2>2, <3>1, <3>4, <3>5, Zenon DEF HeaderHolds
  <2> QED
    BY <2>1, <2>2
<1>12. HeaderInv'
  <2>1. ent'.h = h
    BY <1>5
  <2> QED
    BY <1>3, <1>9, <1>11, <2>1 DEF HeaderInv, HeaderOk
<1>13. CallerInv' /\ InfoInv'
  BY <1>3 DEF SenderInv, CallerInv, CallerOk, InfoInv, InfoOk
<1>14. TypeInv'
  BY <1>3, <1>4, <1>5, <1>6 DEF TypeInv, IsEntity
<1>15. PhaseInv'
  <2>1. ent' # NoEntity
    BY <1>5, <1>11, NothingThere
  <2>2. pc' \in Phases /\ pc' = "built"
    BY <1>3 DEF Phases
  <2> QED
    BY <2>1, <2>2 DEF PhaseInv, PhaseOk
<1>16. WordsInv'
  BY <1>3, <1>5 DEF SenderInv, WordsInv, WordsOk
<1> QED
  BY <1>12, <1>13, <1>14, <1>15, <1>16 DEF SenderInv

\* The only collection of an RDCU input.
LEMMA InputIs ==
  ASSUME SenderInv, setting.rdcu
  PROVE  /\ Input = DataOf(setting, reading, 1) /\ setting.layout[1].n \in Nat
         /\ Input \in Samples("imagette", setting.layout[1].n)
         /\ Len(Input) = setting.layout[1].n /\ Offsets(setting)[1] = 0
         /\ 1 \in 1 .. Count(setting) /\ Count(setting) = 1
<1>1. /\ setting \in Settings /\ IsChunk(setting, reading, chunk)
      /\ reading \in 1 .. MaxEntities + 1
  BY SettingChunk DEF SenderInv
<1>2. Count(setting) = 1 /\ Offsets(setting)[1] = 0 /\ setting.layout[1].n \in Nat
  BY <1>1, Layout, OffsetsExist DEF IsOffsets
<1>3. chunk[0] = Column(HdrOf(setting, reading, 1), DataOf(setting, reading, 1))
  BY <1>1, <1>2 DEF IsChunk
<1>4. Input = DataOf(setting, reading, 1)
  BY <1>3, ColIs DEF Input
<1>5. TypeOf(setting, 1) = "imagette"
  BY DEF TypeOf
<1>6. Input \in Samples("imagette", setting.layout[1].n)
  BY <1>1, <1>2, <1>4, <1>5, DataTyped DEF SamplesOf
<1>7. Len(Input) = setting.layout[1].n
  <2>1. Input \in [1 .. setting.layout[1].n -> [Members("imagette") -> Int]]
    BY <1>6 DEF Samples
  <2> QED
    BY <1>2, <2>1
<1> QED
  BY <1>2, <1>4, <1>6, <1>7

\* The information compress_like_rdcu leaves.
LEMMA InfoIs ==
  ASSUME SenderInv, setting.rdcu, NEW r \in RdcuConfigs, NEW bits \in Nat, NEW words, NEW data,
         RdcuCfg(r).round <= MAX_ICU_ROUND
  PROVE  InfoOf(setting, RdcuCfg(r), Info(r, bits, words, data))
<1>1. RdcuCfg(r).model_value = r.model_value /\ RdcuCfg(r).round = r.round
  BY RdcuCfgIs
<1> QED
  BY <1>1, InputIs DEF InfoOf, Info

\* compress_like_rdcu keeps the invariant.
LEMMA RdcuKeeps ==
  ASSUME SenderInv, NEW r \in RdcuConfigs, NEW size \in 0 .. ChunkSize,
         compress_like_rdcu(r, 8 * size)
  PROVE  SenderInv'
<1>1. PICK c : c = RdcuCfg(r)
  OBVIOUS
<1>2. PICK words, data :
        /\ info' = Info(r, 8 * size, words, data)
        /\ \/ words = <<>>
           \/ c.cmp_mode # CMP_MODE_RAW /\ words = Encode(c, "imagette", Input, RdcuModel)
  BY <1>1 DEF compress_like_rdcu
<1>3. /\ AtInput /\ RdcuValid(c) /\ cfg' = c /\ stamp' = NoStamp /\ ent' = NoEntity
      /\ pc' = "compressed" /\ UNCHANGED <<setting, reading, chunk, dst_size, read_bytes>>
  BY <1>1 DEF compress_like_rdcu, caller
<1>4. /\ setting \in Settings /\ ChunkSize \in Nat
  BY SettingChunk DEF SenderInv
<1>5. setting.rdcu /\ reading <= MaxEntities
  BY <1>3 DEF AtInput
<1>6. Cfg(c)
  BY <1>1, RdcuCfgIs
<1>7. GenericValid(c) /\ SpecificValid(c, "imagette") /\ c.round <= MAX_ICU_ROUND
  BY <1>3 DEF RdcuValid, GenericValid
<1>8. InfoOf(setting, c, info')
  <2>1. 8 * size \in Nat
    BY <1>4
  <2> QED
    BY <1>1, <1>2, <1>5, <1>7, <2>1, InfoIs
<1>9. WordsValid(info'.words)
  <2>1. info'.words = words
    BY <1>2 DEF Info
  <2>2. CASE words = <<>>
    BY <2>1, <2>2, NothingThere
  <2>3. CASE c.cmp_mode # CMP_MODE_RAW /\ words = Encode(c, "imagette", Input, RdcuModel)
    <3>1. "imagette" \in Types
      BY DEF Types
    <3>2. /\ setting.layout[1].n \in Nat /\ Input \in Samples("imagette", setting.layout[1].n)
      BY <1>5, InputIs
    <3>3. WordsValid(words)
      BY <1>7, <2>3, <3>1, <3>2, EncodeChecked, Zenon DEF WordsValid
    <3> QED
      BY <2>1, <3>3
  <2> QED
    BY <1>2, <2>2, <2>3
<1>10. CallerInv'
  BY <1>3, <1>5 DEF SenderInv, CallerInv, CallerOk
<1>11. TypeInv'
  BY <1>3, <1>6, NothingThere DEF TypeInv
<1>12. PhaseInv'
  BY <1>3, <1>5 DEF PhaseInv, PhaseOk, Phases
<1>13. InfoInv'
  BY <1>3, <1>8 DEF InfoInv, InfoOk
<1>14. HeaderInv'
  BY <1>3 DEF HeaderInv, HeaderOk, Received
<1>15. WordsInv'
  BY <1>3, <1>9, NothingThere DEF WordsInv, WordsOk
<1> QED
  BY <1>10, <1>11, <1>12, <1>13, <1>14, <1>15 DEF SenderInv

\* It does when it fails.
LEMMA RdcuFailureKeeps ==
  ASSUME SenderInv, NEW r \in RdcuConfigs,
         \/ compress_like_rdcu_refuses(r)
         \/ \E n \in 0 .. 1 : compress_like_rdcu_small_buffer(r, n)
  PROVE  SenderInv'
<1>1. /\ pc' = "idle" /\ cfg' = RdcuCfg(r)
      /\ UNCHANGED <<setting, reading, chunk, stamp, ent>>
  BY DEF compress_like_rdcu_refuses, compress_like_rdcu_small_buffer, Fails, caller
<1>2. info'.words = <<>>
  <2>1. Info(r, 0, <<>>, <<>>).words = <<>>
    BY DEF Info
  <2>2. [Info(r, 0, <<>>, <<>>) EXCEPT !.cmp_err = 1].words = <<>>
    BY DEF Info
  <2> QED
    BY <2>1, <2>2 DEF compress_like_rdcu_refuses, compress_like_rdcu_small_buffer
<1> QED
  BY <1>1, <1>2, RdcuCfgIs, NothingThere, FailureKeeps

\* cmp_ent_write_rdcu_cmp_pars keeps the invariant.
LEMMA WriteKeeps ==
  ASSUME SenderInv, NEW t \in imagettes, NEW raw \in BOOLEAN, cmp_ent_write_rdcu_cmp_pars(t, raw)
  PROVE  SenderInv'
<1>1. PICK bytes, created, h :
        /\ bytes = BitToByte(info.cmp_size) /\ created = cmp_ent_create(t, raw, bytes)
        /\ h = PutAll(created.h, RdcuHeader(t))
  OBVIOUS
<1>2. PICK col : col = [size |-> bytes, hdr |-> NoHeader, words |-> info.words, data |-> info.data]
  OBVIOUS
<1>3. /\ pc = "compressed" /\ created.size > 0 /\ raw = (info.cfg.cmp_mode = CMP_MODE_RAW)
      /\ ~ Refused(RdcuHeader(t)) /\ pc' = "built"
      /\ ent' = [h |-> h, body |-> With(NoBuffer, 0, col)]
      /\ UNCHANGED <<setting, reading, chunk, cfg, stamp, dst_size, read_bytes, info>>
  BY <1>1, <1>2 DEF cmp_ent_write_rdcu_cmp_pars, caller, sender
<1>4. setting.rdcu /\ stamp = NoStamp
  BY <1>3 DEF SenderInv, PhaseInv, PhaseOk
<1>5. InfoOf(setting, cfg, info)
  BY <1>3, <1>4 DEF SenderInv, InfoInv, InfoOk
<1>6. Cfg(cfg) /\ stamp \in StampType
  BY DEF SenderInv, TypeInv
<1>7. RdcuTyped
  <2>1. /\ info.rcfg \in RdcuConfigs /\ cfg = RdcuCfg(info.rcfg)
        /\ info.cfg = [cfg EXCEPT !.model_value = cfg.model_value % 256, !.round = cfg.round % 256]
        /\ info.samples = setting.layout[1].n /\ info.cmp_size \in Nat
    BY <1>5 DEF InfoOf
  <2>2. info.samples \in Nat
    BY <1>4, <2>1, InputIs
  <2>3. Cfg(info.cfg)
    BY <1>6, <2>1 DEF Cfg, RdcuCfg
  <2>4. info.rcfg \in [cmp_mode : Nat, model_value : Nat, round : Nat, golomb_par : Nat,
                       spill : Nat, ap1_golomb_par : Nat, ap1_spill : Nat,
                       ap2_golomb_par : Nat, ap2_spill : Nat]
    BY <2>1, HeaderAssumption, Zenon
  <2> QED
    BY <2>1, <2>2, <2>3, <2>4 DEF RdcuTyped
<1>8. bytes \in Nat
  BY <1>1, <1>7 DEF RdcuTyped, BitToByte
<1>9. Created(created.h, t, raw, bytes)
  BY <1>1, <1>3, <1>8, CreatedIs, Zenon
<1>10. RdcuRead(h, t, bytes, 0, 0)
  <2>1. t \in imagettes /\ raw \in BOOLEAN
    OBVIOUS
  <2> QED
    BY ONLY <1>1, <1>3, <1>7, <1>8, <1>9, <2>1, RdcuHeaderBuilt, Zenon
<1>11. RdcuHeaderOf(info, h, t, stamp.id)
  <2>1. stamp.id[1] = 0 /\ stamp.id[2] = 0
    BY <1>4, NothingThere
  <2>2. RdcuRead(h, t, BitToByte(info.cmp_size), stamp.id[1], stamp.id[2])
    BY <1>1, <1>10, <2>1, Zenon
  <2> QED
    BY <2>2, RdcuHeaderOfIs, Zenon
<1>12. HeaderHolds(setting, cfg, dst_size, info, h, stamp)
  BY <1>4, <1>11, Zenon DEF HeaderHolds
<1>13. h # NoBuffer
  <2>1. PICK n \in Nat : n = cmp_ent_cal_hdr_size(t, raw) /\ n >= 32
    <3>1. t \in imagettes /\ raw \in BOOLEAN
      OBVIOUS
    <3> QED
      BY ONLY <3>1, ImagetteHeaderSize
  <2>2. DOMAIN h = 0 .. n - 1
    BY <1>3, <1>10, <2>1 DEF RdcuRead
  <2>3. 0 \in DOMAIN h
    BY <2>1, <2>2
  <2> QED
    BY <2>3, NothingWritten
<1>14. ent'.h = h /\ IsEntity(ent') /\ ent' # NoEntity
  BY <1>3, <1>13, NothingThere DEF IsEntity
<1>15. HeaderInv'
  BY <1>3, <1>12, <1>14 DEF HeaderInv, HeaderOk
<1>16. CallerInv' /\ InfoInv'
  BY <1>3 DEF SenderInv, CallerInv, CallerOk, InfoInv, InfoOk
<1>17. TypeInv'
  BY <1>3, <1>6, <1>14 DEF TypeInv
<1>18. PhaseInv'
  BY <1>3, <1>14 DEF PhaseInv, PhaseOk, Phases
<1>19. WordsInv'
  <2>1. ASSUME NEW x \in DOMAIN ent'.body PROVE WordsValid(ent'.body[x].words)
    <3>1. ent'.body = With(NoBuffer, 0, col)
      BY <1>3
    <3>2. x = 0 /\ ent'.body[x] = col
      BY <2>1, <3>1, NothingWritten DEF With
    <3>3. col.words = info.words
      BY <1>2
    <3> QED
      BY <3>2, <3>3 DEF SenderInv, WordsInv, WordsOk
  <2> QED
    BY <1>3, <2>1 DEF SenderInv, WordsInv, WordsOk
<1> QED
  BY <1>15, <1>16, <1>17, <1>18, <1>19 DEF SenderInv

\* The entity on its way keeps the invariant.
LEMMA SendKeeps ==
  ASSUME SenderInv, Send PROVE SenderInv'
<1>1. /\ pc \in {"built", "compressed"} /\ pc' = "received"
      /\ UNCHANGED <<setting, reading, chunk, cfg, stamp, dst_size, read_bytes, info, ent>>
  BY DEF Send, caller
<1>2. CallerInv'
  BY <1>1 DEF SenderInv, CallerInv, CallerOk
<1>3. TypeInv' /\ WordsInv'
  BY <1>1 DEF SenderInv, TypeInv, WordsInv
<1>4. PhaseInv'
  BY <1>1 DEF PhaseInv, PhaseOk, Phases, Received
<1>5. InfoInv'
  BY <1>1 DEF SenderInv, InfoInv, InfoOk
<1>6. HeaderInv'
  <2>1. CASE pc = "built"
    BY <1>1, <2>1 DEF SenderInv, HeaderInv, HeaderOk
  <2>2. CASE pc = "compressed"
    <3>1. ent = NoEntity
      BY <2>2 DEF SenderInv, PhaseInv, PhaseOk
    <3> QED
      BY <1>1, <3>1 DEF HeaderInv, HeaderOk
  <2> QED
    BY <1>1, <2>1, <2>2
<1> QED
  BY <1>2, <1>3, <1>4, <1>5, <1>6 DEF SenderInv

\* The next chunk keeps the invariant.
LEMMA NextChunkKeeps ==
  ASSUME SenderInv, NextChunk PROVE SenderInv'
<1>1. /\ pc = "decompressed" /\ pc' = "idle" /\ reading' = reading + 1
      /\ chunk' = Chunk(reading + 1) /\ cfg' = ZeroCfg /\ stamp' = NoStamp
      /\ info' = NoInfo /\ ent' = NoEntity /\ UNCHANGED setting
  BY DEF NextChunk
<1>2. setting \in Settings /\ reading \in 1 .. MaxEntities + 1 /\ reading <= MaxEntities
  BY <1>1 DEF SenderInv, CallerInv, CallerOk
<1>3. reading + 1 \in 1 .. MaxEntities + 1
  BY <1>2, BoundAssumption
<1>4. IsChunk(setting, reading + 1, Chunk(reading + 1))
  BY <1>2, <1>3, ChunkIs DEF IsChunk
<1>5. CallerInv'
  BY <1>1, <1>2, <1>3, <1>4 DEF CallerInv, CallerOk
<1>6. TypeInv'
  BY <1>1, NothingThere, ZeroCfgIs DEF TypeInv
<1>7. PhaseInv' /\ InfoInv' /\ HeaderInv'
  BY <1>1 DEF PhaseInv, PhaseOk, InfoInv, InfoOk, HeaderInv, HeaderOk, Phases, Received
<1>8. WordsInv'
  <2>1. NoInfo.words = <<>>
    BY DEF NoInfo
  <2> QED
    BY <1>1, <2>1, NothingThere DEF WordsInv, WordsOk
<1> QED
  BY <1>5, <1>6, <1>7, <1>8 DEF SenderInv

\* A step of the RDCU decompression ends or is refused.
LEMMA FromRdcuStays ==
  ASSUME NEW c, NEW n, FromRdcu(c, n)
  PROVE  pc' \in {"received", "decompressed", "rejected"}
BY DEF FromRdcu, Return

\* The decompressor keeps the invariant.
LEMMA DecompressionKeeps ==
  ASSUME SenderInv, Decompression PROVE SenderInv'
<1>1. CASE \E null \in BOOLEAN : decompress_cmp_entiy(null)
  <2>1. /\ pc = "received" /\ UNCHANGED <<caller, sender, ent>>
        /\ pc' \in {"rejected", "rdcu", "raw chunk", "chunk"}
    BY <1>1 DEF decompress_cmp_entiy
  <2> QED
    BY <2>1, ReceiverKeeps DEF Received, caller, sender
<1>2. CASE \E null \in BOOLEAN : decompress_rdcu_data(null)
  <2>1. /\ pc = "received" /\ UNCHANGED <<caller, sender, ent>>
        /\ pc' \in {"rejected", "rdcu data"}
    BY <1>2 DEF decompress_rdcu_data
  <2> QED
    BY <2>1, ReceiverKeeps DEF Received, caller, sender
<1>3. CASE RawChunk \/ ChunkDecompressed
  <2>1. /\ pc \in {"raw chunk", "chunk"} /\ UNCHANGED <<caller, sender, ent>>
        /\ pc' \in {"received", "decompressed"}
    BY <1>3 DEF RawChunk, ChunkDecompressed, Return
  <2> QED
    BY <2>1, ReceiverKeeps DEF Received, caller, sender
<1>4. CASE DecompressCollection
  <2>1. /\ pc = "chunk" /\ UNCHANGED <<caller, sender, ent>>
        /\ pc' \in {"rejected", "chunk"}
    BY <1>4 DEF DecompressCollection
  <2> QED
    BY <2>1, ReceiverKeeps DEF Received, caller, sender
<1>5. CASE DecompressRdcuEntity \/ DecompressRdcuData
  <2>1. /\ pc \in {"rdcu", "rdcu data"} /\ UNCHANGED <<caller, sender, ent>>
        /\ pc' \in {"received", "decompressed", "rejected"}
    BY <1>5, FromRdcuStays DEF DecompressRdcuEntity, DecompressRdcuData
  <2> QED
    BY <2>1, ReceiverKeeps DEF Received, caller, sender
<1> QED
  BY <1>1, <1>2, <1>3, <1>4, <1>5 DEF Decompression

\* Every step keeps the sender's invariant.
LEMMA SenderSteps ==
  ASSUME SenderInv, [Next]_vars PROVE SenderInv'
<1>1. CASE Compression
  <2>1. CASE \E mode \in CmpMode, start \in Stamps : compress_chunk(mode, start)
    BY <2>1, CompressChunkKeeps
  <2>2. CASE \/ RawCollection \/ StoredRaw
             \/ AtCollection /\ \E size \in 0 .. Col.hdr.len : Compressed(size)
    BY <2>2, CollectionKeeps
  <2>3. CASE \/ CollectionRefused \/ NoRoomForHeader \/ \E end \in Stamps : HeaderRefused(end)
             \/ AtCollection /\ \E n \in 0 .. Len(Col.data) - 1 : SmallBuffer(n)
    <3>1. pc' = "idle" /\ UNCHANGED <<setting, reading, chunk, stamp, ent, cfg, info>>
      BY <2>3 DEF CollectionRefused, NoRoomForHeader, HeaderRefused, SmallBuffer, Fails, caller, sender
    <3>2. Cfg(cfg') /\ WordsValid(info'.words)
      BY <3>1 DEF SenderInv, TypeInv, WordsInv, WordsOk
    <3> QED
      BY <3>1, <3>2, FailureKeeps
  <2>4. CASE \E end \in Stamps : cmp_ent_build_chunk_header(end)
    BY <2>4, HeaderKeeps
  <2>5. CASE \E id \in Ids : compress_chunk_set_model_id_and_counter(id[1], id[2])
    BY <2>5, IdentifiersKeep
  <2> QED
    BY <1>1, <2>1, <2>2, <2>3, <2>4, <2>5 DEF Compression
<1>2. CASE RdcuCompression
  <2>1. CASE \E r \in RdcuConfigs, size \in 0 .. ChunkSize :
               size \in Shorter(ChunkSize) \cup {ChunkSize} /\ compress_like_rdcu(r, 8 * size)
    BY <2>1, RdcuKeeps
  <2>2. CASE \/ \E r \in RdcuConfigs : compress_like_rdcu_refuses(r)
             \/ \E r \in RdcuConfigs, n \in 0 .. 1 : compress_like_rdcu_small_buffer(r, n)
    BY <2>2, RdcuFailureKeeps
  <2>3. CASE \E type \in imagettes, raw \in BOOLEAN : cmp_ent_write_rdcu_cmp_pars(type, raw)
    BY <2>3, WriteKeeps
  <2> QED
    BY <1>2, <2>1, <2>2, <2>3, Zenon DEF RdcuCompression
<1>3. CASE Decompression
  BY <1>3, DecompressionKeeps
<1>4. CASE Send
  BY <1>4, SendKeeps
<1>5. CASE NextChunk
  BY <1>5, NextChunkKeeps
<1>6. CASE UNCHANGED vars
  <2>1. UNCHANGED <<setting, reading, chunk, pc, cfg, stamp, dst_size, read_bytes, info, ent>>
    BY <1>6 DEF vars, caller, sender
  <2> QED
    BY <2>1 DEF SenderInv, CallerInv, TypeInv, PhaseInv, InfoInv, HeaderInv, WordsInv
<1> QED
  BY <1>1, <1>2, <1>3, <1>4, <1>5, <1>6 DEF Next, Stop

\* ParsChecked: every code word in an entity, on its way included, was written with a Golomb
\* parameter and a spillover threshold that cmp_cfg_icu_is_invalid had accepted.
THEOREM ParsCheckedCorrect == Spec => []ParsChecked
<1>1. Init => SenderInv
  BY InitSender
<1>2. SenderInv /\ [Next]_vars => SenderInv'
  BY SenderSteps
<1>3. SenderInv => ParsChecked
  BY SenderInvChecked
<1> QED
  BY <1>1, <1>2, <1>3, PTL DEF Spec

\* HeaderKept: the getters read from a finished entity what compression and caller put into
\* it, in every order of the setters.
THEOREM HeaderKeptCorrect == Spec => []HeaderKept
<1>1. Init => SenderInv
  BY InitSender
<1>2. SenderInv /\ [Next]_vars => SenderInv'
  BY SenderSteps
<1>3. SenderInv => HeaderKept
  BY HeaderKeptHolds
<1> QED
  BY <1>1, <1>2, <1>3, PTL DEF Spec
=============================================================================
