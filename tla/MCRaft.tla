------------------------------- MODULE MCRaft -------------------------------
(***************************************************************************)
(* Two orderers, one of which a config envelope removes.                   *)
(***************************************************************************)
EXTENDS RaftChain

CONSTANTS o1, o2, Removed

MCRemoves(e) == Removed

MCTwo == <<o1, o2>>

MCBatchSize == [maxMessageCount |-> 2, preferredMaxBytes |-> 4]
=============================================================================
