----------------------------- MODULE MCRdcuRegs -----------------------------
(* Model checking of RdcuRegs: the registers a group at a time, each control   *)
(* register with the status register that shows it.                            *)
EXTENDS RdcuRegs

AllFocus ==
  {{"core_ctrl", "lvds_core_status"}, {"lvds_ctrl", "lvds_core_status"},
   {"spw_link_ctrl", "spw_link_status"}, {"adc_ctrl", "adc_status"},
   {"compr_ctrl", "compr_status"}, {"compressor_param1", "used_param1"},
   {"compressor_param2", "used_param1", "used_param2"},
   {"adaptive_param1", "adaptive_param2"}, {"num_samples", "samples_used"},
   {"new_model_start_addr", "new_model_addr_used"},
   {"data_start_addr", "model_start_addr"},
   {"compr_data_buf_start_addr", "compr_data_buf_len"},
   {"sram_edac_ctrl", "sram_edac_status"}, {"rdcu_reset", "rdcu_status"},
   {"fpga_version", "spw_err_cntrs"}, {"rmap_last_err", "rmap_no_reply_err_cntrs"},
   {"rmap_pckt_err_cntrs", "adc_values_1"}, {"adc_values_2", "adc_values_3"},
   {"adc_values_4", "compr_error"}, {"compr_data_start_addr", "compr_data_size"},
   {"compr_data_adaptive_1_size", "compr_data_adaptive_2_size"}}

\* The register of the board key alone
ResetFocus == {{"rdcu_reset", "rdcu_status"}}

AllPaths == {[dst |-> <<>>, reply |-> <<>>],
             [dst |-> <<1, 3>>, reply |-> <<2, 4, 6, 0>>]}
AllPatterns == {{0, 9, 18, 31}}
TwoSlots == {0, 1}
=============================================================================
