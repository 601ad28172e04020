--------------------------- MODULE MCSharedThread ---------------------------
(* Two threads, a VP9 decoder, an encoder, and three devices: ordinal 0     *)
(* only decodes, ordinal 1 decodes 10 bits and encodes 8, ordinal 2 only    *)
(* encodes, up to 10 bits.                                                  *)
EXTENDS SharedThread, TLC

ThreadSymmetry == Permutations(Threads)
=============================================================================
