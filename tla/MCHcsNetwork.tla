---------------------------- MODULE MCHcsNetwork ----------------------------
(* The HCS network on small sets.  An envelope has size 1, or 3 if it is   *)
(* large: with a PreferredMaxBytes of 1 a message overflows the one before *)
(* it, and a large one gets a block of its own.                            *)
EXTENDS HcsNetwork, TLC

CONSTANTS TwoChunks,           \* envelopes too large for one chunk
          Large,
          MaxMessageCount,
          PreferredMaxBytes

MCVerify(m) == TRUE
MCSizeOf == [e \in Envelopes |-> IF e \in Large THEN 3 ELSE 1]
MCCountOf == [e \in Envelopes |-> IF e \in TwoChunks THEN 2 ELSE 1]
MCBatchSize == [maxMessageCount |-> MaxMessageCount,
                preferredMaxBytes |-> PreferredMaxBytes]

(* Config updates are all alike, and so are the orderers clients send to,  *)
(* the other orderers, and normal messages of one size.                    *)
Symmetry == Permutations(Brokers) \cup Permutations(Orderers \ Brokers)
              \cup Permutations(Configs)
              \cup Permutations(Normals \ (TwoChunks \cup Large))
=============================================================================
