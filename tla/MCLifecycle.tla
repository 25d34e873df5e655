---------------------------- MODULE MCLifecycle ----------------------------
(* One client of Order and one caller of Halt.                              *)
EXTENDS ChainLifecycle
=============================================================================
