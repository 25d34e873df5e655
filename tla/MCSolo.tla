------------------------------- MODULE MCSolo -------------------------------
(***************************************************************************)
(* A configuration with an orderer group that holds the batch size and a   *)
(* Writers element next to it; two administrators, each the mod_policy of  *)
(* a part of the tree.                                                     *)
(***************************************************************************)
EXTENDS SoloChain, TLC

CONSTANTS middle, large, c1, c2

MCSize == (middle :> 2) @@ (large :> 5)

(* With a Uint32Size of 7 a middle and a large envelope wrap the count     *)
(* around under the first, which isolates neither.                         *)
MCBatchSizes == {[maxMessageCount |-> 2, preferredMaxBytes |-> 5],
                 [maxMessageCount |-> 3, preferredMaxBytes |-> 3]}

OrdererGroup == <<"Orderer">>
BatchSizePath == <<"Orderer", "BatchSize">>
WritersPath  == <<"Writers">>

MCIsGroup(p) == p \in {Root, OrdererGroup}

MCSatisfies(signers, policy) == policy \in signers

MCAdmits(map, env) ==
  WritersPath \in DOMAIN map /\ env \in map[WritersPath].content

MCBatchSizeOf(map) == map[BatchSizePath].content

Element(version, policy, content) ==
  [version |-> version, modPolicy |-> policy, content |-> content]

MCInitialMap ==
  (Root          :> Element(0, "channelAdmin", {"Orderer", "Writers"})) @@
  (OrdererGroup  :> Element(0, "ordererAdmin", {"BatchSize"})) @@
  (BatchSizePath :> Element(0, "ordererAdmin",
                      [maxMessageCount |-> 3, preferredMaxBytes |-> 3])) @@
  (WritersPath   :> Element(0, "channelAdmin", {middle, large}))

Signers == {{"channelAdmin"}, {"ordererAdmin"}}

Prefixes(p) == {SubSeq(p, 1, n) : n \in 0 .. Len(p)}

(* Give element p a new content; its groups are read and left alone.       *)
SetElement(map, p, content, signers) ==
  LET read == Restrict(map, Prefixes(p))
  IN  [readSet  |-> read,
       writeSet |-> [read EXCEPT ![p].version = @ + 1, ![p].content = content],
       signers  |-> signers]

(* Remove Writers from the root, or put it back, as configtxlator does: a  *)
(* new version of the root with the members it shall have.                 *)
RemoveWriters(map, signers) ==
  LET read == Restrict(map, {Root, OrdererGroup})
  IN  [readSet  |-> read,
       writeSet |-> [read EXCEPT ![Root].version = @ + 1,
                                 ![Root].content = @ \ {"Writers"}],
       signers  |-> signers]

AddWriters(map, content, signers) ==
  LET read == Restrict(map, {Root, OrdererGroup})
  IN  [readSet  |-> read,
       writeSet |-> [read EXCEPT ![Root].version = @ + 1,
                                 ![Root].content = @ \cup {"Writers"}]
                    @@ (WritersPath :> Element(0, "channelAdmin", content)),
       signers  |-> signers]

MCDrafts(map) ==
  UNION {
    {SetElement(map, BatchSizePath, b, {"ordererAdmin"}) :
       b \in MCBatchSizes \ {map[BatchSizePath].content}},
    IF WritersPath \in DOMAIN map
      THEN {SetElement(map, WritersPath, {middle}, {"channelAdmin"})}
           \cup {RemoveWriters(map, s) : s \in Signers}
      ELSE {AddWriters(map, {large}, {"channelAdmin"})}}
=============================================================================
