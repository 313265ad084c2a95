---------------------------- MODULE RangeCallMC ----------------------------
(* RangeCall, with the arithmetic of UwbTime in small words, for TLC. *)
EXTENDS UwbRange
=============================================================================
