---------------------------- MODULE MCI960Frames -----------------------------
(* I960Frames on a stack of a few frames.                                   *)
EXTENDS I960Frames
==============================================================================
