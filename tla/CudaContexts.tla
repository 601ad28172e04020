---------------------------- MODULE CudaContexts ----------------------------
(***************************************************************************)
(* The CUDA driver's per-thread stacks of current contexts, as the crate   *)
(* uses them (external code, sys.rs binds it):                             *)
(*   - cuCtxCreate_v2 creates a context and makes it current: a push       *)
(*     (device.rs "pops + destroys" names the inverse);                    *)
(*   - cuCtxPushCurrent_v2 / cuCtxPopCurrent_v2 push and pop;              *)
(*   - cuCtxDestroy_v2 pops the context if it is current on the calling    *)
(*     thread and leaves every other stack entry where it is.              *)
(* `stack' below is a function from threads to sequences of contexts, the  *)
(* current context of a thread being the last of its sequence.             *)
(***************************************************************************)
EXTENDS Naturals, Sequences

CONSTANT NoContext     \* what a thread with an empty stack has as current

Current(contexts) ==
  IF contexts = <<>> THEN NoContext ELSE contexts[Len(contexts)]

PushOn(stack, t, c) == [stack EXCEPT ![t] = Append(@, c)]

\* SubSeq of an empty sequence is empty: popping an empty stack fails in the
\* driver and changes nothing.
PopFrom(stack, t) == [stack EXCEPT ![t] = SubSeq(@, 1, Len(@) - 1)]

DestroyOn(stack, t, c) ==
  IF Current(stack[t]) = c THEN PopFrom(stack, t) ELSE stack
=============================================================================
