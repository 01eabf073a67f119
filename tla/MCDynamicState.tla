--------------------------- MODULE MCDynamicState ---------------------------
(* A small instance of DynamicStateMachine for TLC: two values beside the  *)
(* default, four report steps, so that an add can skip over two of them.   *)
EXTENDS DynamicStateMachine

MCValue == {"default", "a", "b"}
=============================================================================
