------------------------------ MODULE ConfigTx ------------------------------
(***************************************************************************)
(* common/configtx: how a configuration update is checked against the      *)
(* configuration in force and what configuration results.                  *)
(*                                                                         *)
(* A configuration is a tree of groups, values and policies.  Like the     *)
(* validator, which flattens the tree into a map from paths to elements,   *)
(* the model keeps a function from paths (sequences of names, the root     *)
(* group is the empty path) to elements.  The content of a group is the    *)
(* set of the names of its members; values and policies are opaque.        *)
(***************************************************************************)
EXTENDS Naturals, Sequences, Functions

CONSTANTS Satisfies(_, _),  \* do the signers satisfy a mod_policy?
          IsGroup(_)        \* is the element at a path a group?

Root == <<>>

(* Faulty verifyReadSet: the versions are not compared.                    *)
verifyReadSetByKey(map, readSet) == DOMAIN readSet \subseteq DOMAIN map

verifyReadSet(map, readSet) ==
  \A p \in DOMAIN readSet : /\ p \in DOMAIN map
                            /\ map[p].version = readSet[p].version

(* The elements the update changes: those not read at the same version.    *)
computeDeltaSet(readSet, writeSet) ==
  {p \in DOMAIN writeSet :
     ~ (p \in DOMAIN readSet /\ readSet[p].version = writeSet[p].version)}

(* Faulty verifyDeltaSet: no policy is evaluated for a group.              *)
verifyDeltaSetLeavesOnly(map, update, delta) ==
  /\ delta # {}
  /\ \A p \in delta :
       IF p \in DOMAIN map
         THEN /\ update.writeSet[p].version = map[p].version + 1
              /\ p = Root \/ Satisfies(update.signers, map[p].modPolicy)
         ELSE update.writeSet[p].version = 0

(* A new element starts at version 0; an existing one advances by one, if  *)
(* the signers satisfy the mod_policy it has so far.                       *)
verifyDeltaSet(map, update, delta) ==
  /\ delta # {}
  /\ \A p \in delta :
       IF p \in DOMAIN map
         THEN /\ update.writeSet[p].version = map[p].version + 1
              /\ Satisfies(update.signers, map[p].modPolicy)
         ELSE update.writeSet[p].version = 0

computeUpdateResult(map, update, delta) ==
  [p \in DOMAIN map \cup delta |->
     IF p \in delta THEN update.writeSet[p] ELSE map[p]]

(* recurseConfigMap walks from the root along the members of the groups.   *)
Reachable(map) ==
  {p \in DOMAIN map :
     \A n \in 0 .. Len(p) - 1 :
       /\ SubSeq(p, 1, n) \in DOMAIN map
       /\ IsGroup(SubSeq(p, 1, n))
       /\ p[n + 1] \in map[SubSeq(p, 1, n)].content}

(* It fails on a member without an element.                                *)
Complete(map) ==
  \A p \in Reachable(map) :
    IsGroup(p) => \A m \in map[p].content : Append(p, m) \in DOMAIN map

(* What mapConfig makes of a ConfigGroup: its elements and no others.      *)
IsTree(map) ==
  /\ Root \in DOMAIN map
  /\ DOMAIN map \subseteq Seq(STRING)
  /\ DOMAIN map = Reachable(map)
  /\ Complete(map)
  /\ \A p \in DOMAIN map : map[p].version \in Nat

(* authorizeUpdate, then configMapToConfig: may the update be applied, and *)
(* what tree does it give?                                                 *)
Authorized(map, update) ==
  LET delta == computeDeltaSet(update.readSet, update.writeSet)
      full  == computeUpdateResult(map, update, delta)
  IN  /\ verifyReadSet(map, update.readSet)
      /\ verifyDeltaSet(map, update, delta)
      /\ DOMAIN update.writeSet \subseteq DOMAIN full   \* verifyFullProposedConfig
      /\ Complete(full)

UpdatedMap(map, update) ==
  LET delta == computeDeltaSet(update.readSet, update.writeSet)
      full  == computeUpdateResult(map, update, delta)
  IN  Restrict(full, Reachable(full))

(* The ConfigEnvelope an authorized update leads to.                       *)
proposeConfigUpdate(config, update) ==
  [sequence   |-> config.sequence + 1,
   map        |-> UpdatedMap(config.map, update),
   lastUpdate |-> update]

(* The check of a ConfigEnvelope before it takes effect.                   *)
Validate(config, env) ==
  /\ env.sequence = config.sequence + 1
  /\ Authorized(config.map, env.lastUpdate)
  /\ env.map = UpdatedMap(config.map, env.lastUpdate)
=============================================================================
