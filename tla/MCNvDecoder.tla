----------------------------- MODULE MCNvDecoder -----------------------------
(* One decoder called from a small set of threads. The threads are          *)
(* interchangeable, so safety runs use them as a symmetry set.              *)
EXTENDS NvDecoder, TLC

ThreadSymmetry == Permutations(Threads)
=============================================================================
