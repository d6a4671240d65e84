----------------------------- MODULE MCSramSync -----------------------------
(* An SRAM of four words; arguments that are aligned, unaligned, at the end of
   the SRAM and beyond it, and sizes that wrap around in "32" (5) bits. *)
EXTENDS SramSync

SomeAddr == {0, 8, 16, 6}
SomeSize == {0, 4, 8, 28, 2}
=============================================================================
