---------------------------- MODULE MCSampleCodec ----------------------------
(* Model checking of SampleCodec: registers of a few bits, every Golomb        *)
(* parameter and spillover threshold that is valid for them.                   *)
EXTENDS SampleCodec
=============================================================================
