--------------------------- MODULE MCRdcuCompress ---------------------------
(* Buffers that two compressions use by turns for other things: the data of one
   are where the bitstream of the other was, the model is updated in its place or
   apart.  Among the configurations are one with few samples in raw mode, one with
   a buffer for the output, one whose model register is refused, and one that is
   invalid.  Two of the four SRAM chips, one that displays its bypass status. *)
EXTENDS RdcuCompress

C(mode, samples, data, model, new, buf) ==
  [mode |-> mode, samples |-> samples, data |-> data, model |-> model, new |-> new,
   buf |-> buf, input |-> TRUE, model_buf |-> TRUE, output |-> FALSE, new_buf |-> TRUE,
   refused |-> "no"]

MCCfgs ==
  {C("raw", 2, "A", "M", "M", "B"),
   [C("diff", 4, "B", "M", "M", "A") EXCEPT !.refused = "setter"],
   [C("diff", 4, "A", "M", "M", "B") EXCEPT !.output = TRUE],
   C("model", 4, "A", "M", "M", "C"),
   C("model", 4, "B", "N", "M", "C"),
   [C("raw", 4, "C", "M", "M", "B") EXCEPT !.input = FALSE, !.new_buf = FALSE,
                                           !.refused = "check"]}
=============================================================================
