------------------------------ MODULE EtcdRaft ------------------------------
(***************************************************************************)
(* vendor/go.etcd.io/etcd/raft, as orderer/consensus/etcdraft uses it.     *)
(* What its user can tell is kept: there is one committed log; an entry    *)
(* that a leader appended and that is not committed is lost with the next  *)
(* leader or survives, even after a leader that did not know it; only the  *)
(* leader of the moment commits, and it commits an entry of its own term   *)
(* first.  The messages that bring this about are not modelled: an action  *)
(* has the effect of an exchange of them.                                  *)
(***************************************************************************)
EXTENDS Naturals, Sequences, FiniteSets, FiniteSetsExt

CONSTANTS Nodes,     \* the orderers, each with its Raft identifier
          None,      \* no leader, nothing
          Candidates,\* bound: the nodes that campaign
          MaxTerm,   \* bound: elections
          MaxIndex   \* bound: log entries

ASSUME RaftAssumption == /\ IsFiniteSet(Nodes) /\ Candidates \subseteq Nodes
                         /\ None \notin Nodes
                         /\ MaxTerm \in Nat /\ MaxIndex \in Nat

VARIABLES term,      \* the latest term
          leader,    \* its leader, or None when the leader stepped down
          log,       \* the log of the leader, Seq([term, kind, value])
          commit,    \* the length of the committed log
          pendingConfIndex, \* the leader takes no other config change before it
          tails,     \* what earlier leaders' logs hold after the committed log
          voters,    \* [Nodes -> SUBSET Nodes], the configuration applied
          snap       \* [Nodes -> [index, number, voters]], the stored snapshot

raft == <<term, leader, log, commit, pendingConfIndex, tails, voters, snap>>

RaftInit == /\ term = 0
            /\ leader = None
            /\ log = <<>>
            /\ commit = 0
            /\ pendingConfIndex = 0
            /\ tails = {}
            /\ voters = [n \in Nodes |-> Nodes]
            /\ snap = [n \in Nodes |-> [index |-> 0, number |-> 0,
                                        voters |-> Nodes]]

Uncommitted(l) == SubSeq(l, commit + 1, Len(l))

IsMajority(Q, S) == 2 * Cardinality(Q \cap S) > Cardinality(S)

(* A node wins the votes of a majority of its voters, with a log that      *)
(* holds all that is committed and any part of what was only appended, and *)
(* appends the empty entry of its term.  What is in its log before may     *)
(* hold a change of the configuration.                                     *)
Elect(n, live) ==
  /\ n \in Candidates /\ n \in voters[n] /\ IsMajority(live, voters[n])
  /\ term < MaxTerm
  /\ term' = term + 1
  /\ leader' = n
  /\ \E t \in tails \cup {Uncommitted(log)} : \E k \in 0..Len(t) :
       log' = Append(SubSeq(log, 1, commit) \o SubSeq(t, 1, k),
                     [term |-> term + 1, kind |-> "empty", value |-> None])
  /\ Len(log') <= MaxIndex
  /\ pendingConfIndex' = Len(log') - 1
  /\ tails' = (tails \cup {Uncommitted(log)}) \ {<<>>}
  /\ UNCHANGED <<commit, voters, snap>>

(* The leader finds an entry of its term on a majority of its voters; what *)
(* other logs hold in its place is overwritten.                            *)
Commit(live) ==
  /\ leader # None /\ leader \in live /\ IsMajority(live, voters[leader])
  /\ \E i \in commit+1..Len(log) :
       /\ log[i].term = term
       /\ commit' = i
  /\ tails' = {}
  /\ UNCHANGED <<term, leader, log, pendingConfIndex, voters, snap>>

AppendEntry(n, kind, value) ==
  /\ leader = n /\ Len(log) < MaxIndex
  /\ log' = Append(log, [term |-> term, kind |-> kind, value |-> value])
  /\ UNCHANGED <<term, leader, commit, tails, voters, snap>>

(* MsgProp on the leader, from Node.Propose: the entry is appended.        *)
Propose(n, value) ==
  /\ AppendEntry(n, "block", value)
  /\ UNCHANGED pendingConfIndex

(* MsgProp on the leader, from Node.ProposeConfChange, when the library    *)
(* has applied the entries up to applied: while there may be a change that *)
(* is not applied, an empty entry takes the place of another.              *)
ProposeChange(n, value, applied) ==
  IF pendingConfIndex > applied
    THEN AppendEntry(n, "empty", None) /\ UNCHANGED pendingConfIndex
    ELSE AppendEntry(n, "conf", value) /\ pendingConfIndex' = Len(log')
=============================================================================
