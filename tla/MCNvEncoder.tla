----------------------------- MODULE MCNvEncoder -----------------------------
(* Model checking of NvEncoder: threads and contexts are model values.     *)
EXTENDS NvEncoder
=============================================================================
