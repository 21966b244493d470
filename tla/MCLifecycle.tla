----------------------------- MODULE MCLifecycle -----------------------------
(* Lifecycle with two open handlers, two close handlers and a few messages.  *)
EXTENDS Lifecycle, TLC

MsgSymmetry == Permutations(Msgs)
=============================================================================
