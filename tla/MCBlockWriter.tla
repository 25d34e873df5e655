--------------------------- MODULE MCBlockWriter ---------------------------
(* The block writer with a few blocks of every kind and up to two crashes. *)
EXTENDS BlockWriter
=============================================================================
