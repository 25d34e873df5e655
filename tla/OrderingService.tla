-------------------------- MODULE OrderingService --------------------------
(***************************************************************************)
(* What an ordering service promises a channel, whatever orders it: there  *)
(* is one sequence of blocks, which only grows; every ordering node holds  *)
(* a prefix of it, which grows too, except that a node which crashes may   *)
(* come back without the last block it wrote.                              *)
(***************************************************************************)
EXTENDS Naturals, Sequences

CONSTANT Nodes

VARIABLES channel,   \* the blocks of the channel
          copy       \* [Nodes -> the blocks a node has written]

ServiceInit == channel = <<>> /\ copy = [n \in Nodes |-> <<>>]

IsSequence(s) == s \in Seq({s[i] : i \in DOMAIN s})

(* The sequence t starts with s.                                           *)
StartsWith(t, s) == Len(s) <= Len(t) /\ SubSeq(t, 1, Len(s)) = s

(* Blocks are ordered.                                                     *)
Order == /\ StartsWith(channel', channel)
         /\ channel' # channel => IsSequence(channel')
         /\ UNCHANGED copy

(* A node writes the next blocks.                                          *)
Write(n) == /\ UNCHANGED channel
            /\ \E k \in Len(copy[n]) .. Len(channel) :
                 copy' = [copy EXCEPT ![n] = SubSeq(channel, 1, k)]

(* A node crashes before its last block is on disk.                        *)
Lose(n) == /\ UNCHANGED channel
           /\ copy[n] # <<>>
           /\ copy' = [copy EXCEPT ![n] = SubSeq(@, 1, Len(@) - 1)]

ServiceNext == Order \/ \E n \in Nodes : Write(n) \/ Lose(n)

ServiceSpec == ServiceInit /\ [][ServiceNext]_<<channel, copy>>
-----------------------------------------------------------------------------
(* No two nodes hold different blocks under one number.                    *)
NoFork ==
  \A m, n \in Nodes :
    \A i \in DOMAIN copy[m] \cap DOMAIN copy[n] : copy[m][i] = copy[n][i]
=============================================================================
