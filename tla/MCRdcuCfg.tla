------------------------------ MODULE MCRdcuCfg ------------------------------
(* An SRAM of sixteen bytes and uint32_t of seven bits: lengths that fit, that
   are too large, and that are zero bytes once they are doubled. The data start
   at the beginning of the SRAM or at an address that is not aligned, the model
   is updated in place or at the end of the SRAM. *)
EXTENDS RdcuCfg

MCLayouts ==
  {a \in [Buf -> {0, 4, 6, 8, 12}] :
     a["data"] \in {0, 6} /\ a["new_model"] \in {a["model"], 12}}
=============================================================================
