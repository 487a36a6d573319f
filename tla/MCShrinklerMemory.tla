-------------------------- MODULE MCShrinklerMemory --------------------------
(* ShrinklerMemory with a load area that ends where the stack's reach ends. *)
EXTENDS ShrinklerMemory

\* One more byte of output, or a load address one higher, would not be clear.
ASSUME LoadAddress + MaxOutput = StackBottom
=============================================================================
