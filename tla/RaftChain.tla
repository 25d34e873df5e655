----------------------------- MODULE RaftChain -----------------------------
(***************************************************************************)
(* orderer/consensus/etcdraft: the chain that turns envelopes into blocks  *)
(* on the Raft leader, proposes the blocks to Raft and writes what Raft    *)
(* commits.  One record per orderer holds what its Chain object and its    *)
(* run goroutine hold; the operators below take such a record, c, to the   *)
(* record the function of the same name leaves.                            *)
(*                                                                         *)
(* A block's hash is the block itself.  An envelope in a block carries the *)
(* config sequence it was last validated under.  A block on the ledger     *)
(* carries the consenter metadata it was written with.                     *)
(***************************************************************************)
EXTENDS EtcdRaft, BlockCutter, SequencesExt

CONSTANTS Normals, Configs,   \* envelopes
          ConsenterList,      \* the consenters in the order of the config
          Removes(_),         \* the consenter a config envelope removes, or None
          BatchSize,
          MaxInflightBlocks,
          Snapshotters,       \* nodes whose SnapshotIntervalSize any block reaches
          MaxCrashes          \* bound: crashes

ASSUME RaftChainAssumption ==
  /\ Normals \cap Configs = {}
  /\ Range(ConsenterList) = Nodes
  /\ \A e \in Configs : Removes(e) \in Nodes \cup {None}
  /\ Snapshotters \subseteq Nodes
  /\ MaxInflightBlocks \in Nat \ {0} /\ MaxCrashes \in Nat

VARIABLES chain,       \* [Nodes -> the record of the orderer's Chain]
          submitted,   \* envelopes clients have sent
          crashes,
          committed,   \* history: the blocks the committed log brings
          stale        \* history: a deposed leader's block came to Raft late

history == <<committed, stale>>

vars == <<raft, chain, submitted, crashes, history>>

Genesis == [number |-> 0, prev |-> None, data |-> <<>>]

RaftID(n) == CHOOSE i \in DOMAIN ConsenterList : ConsenterList[i] = n

NoMetadata == [index |-> 0, ids |-> {}]

lastBlock(c) == IF c.ledger = <<>> THEN Genesis ELSE Last(c.ledger).block

isConfig(tx) == tx \in Configs

IsConfigBlock(b) == b.data # <<>> /\ isConfig(b.data[1].tx)

(* support.Sequence(): the config blocks applied so far.                   *)
Sequence(c) == Len(SelectSeq(c.ledger, LAMBDA e : IsConfigBlock(e.block)))

(* The consenters of the channel's current config.                         *)
Consenters(c) ==
  Nodes \ {Removes(e.block.data[1].tx) :
             e \in {f \in Range(c.ledger) : IsConfigBlock(f.block)}}

(* The identifiers of the consenters after a restart: metadata without a   *)
(* mapping makes them 1, 2, ... in the order of the config.                *)
ReadBlockMetadata(m, consenters) ==
  LET list == SelectSeq(ConsenterList, LAMBDA n : n \in consenters)
  IN  [n \in consenters |-> IF m = NoMetadata
                              THEN CHOOSE i \in DOMAIN list : list[i] = n
                              ELSE RaftID(n)]

(* HandleChain and NewChain on a ledger, with the snapshot the storage     *)
(* holds waiting for run.  A node that would take another's identifier is  *)
(* not followed any further.                                               *)
NewChain(n, ledger, stored) ==
  LET m    == IF ledger = <<>> THEN NoMetadata ELSE Last(ledger).metadata
      cons == Consenters([ledger |-> ledger])
  IN  [status |-> IF n \notin cons THEN "inactive"
                  ELSE IF ReadBlockMetadata(m, cons)[n] # RaftID(n)
                    THEN "mistaken"
                  ELSE "running",
       soft |-> None, submitting |-> TRUE, justElected |-> FALSE,
       configInflight |-> FALSE, blockInflight |-> 0, bc |-> None,
       propC |-> <<>>, proposing |-> FALSE, cancelled |-> {},
       receiver |-> NewReceiver, due |-> FALSE, gc |-> None,
       ticking |-> FALSE, ledger |-> ledger, raftIndex |-> m.index,
       ids |-> cons, applied |-> m.index, replayed |-> ledger # <<>>,
       confChangeInProgress |-> None, confProposal |-> None, snapC |-> stored]

-----------------------------------------------------------------------------
(* Creating and proposing blocks.                                          *)

createNextBlock(prev, batch) ==
  [number |-> prev.number + 1, prev |-> prev, data |-> batch]

(* The statuses of an orderer that panicked: its queue of blocks was full, *)
(* it took an entry without a block for a snapshot, or it found what it    *)
(* takes for impossible.                                                   *)
Panics == {"full", "snapshot", "panic"}

(* propC holds the buffered blocks and the one the proposing goroutine has *)
(* taken, unless that is slow and has taken none yet; a send that would    *)
(* block is a "Programming error" panic.  So is a block creator that is    *)
(* nil.                                                                    *)
proposeBatch(c, batch, slow) ==
  IF c.bc = None THEN [c EXCEPT !.status = "panic"]
  ELSE IF Len(c.propC) >= MaxInflightBlocks +
                            (IF c.proposing /\ ~slow THEN 1 ELSE 0)
    THEN [c EXCEPT !.status = "full"]
    ELSE LET b == createNextBlock(c.bc, batch)
         IN  [c EXCEPT !.bc = b, !.propC = Append(@, b),
                       !.configInflight = @ \/ IsConfigBlock(b),
                       !.blockInflight = @ + 1]

propose(c, batches, slow) ==
  FoldLeft(LAMBDA d, batch : proposeBatch(d, batch, slow), c, batches)

(* ordered: a config envelope cuts what is pending and stands alone.       *)
ordered(c, msg) ==
  IF isConfig(msg.tx)
    THEN [batches |-> (IF c.receiver.pendingBatch = <<>> THEN <<>>
                       ELSE <<Cut(c.receiver).batch>>) \o <<<<msg>>>>,
          pending |-> FALSE, receiver |-> Cut(c.receiver).receiver]
    ELSE Ordered(c.receiver, msg, 1, BatchSize)

(* The submit case of run, on the leader, for a message that is valid.     *)
orderMessage(c, msg, slow) ==
  LET o == ordered(c, msg)
      p == propose([c EXCEPT !.receiver = o.receiver, !.ticking = o.pending],
                   o.batches, slow)
  IN  [p EXCEPT !.submitting = ~p.configInflight
                               /\ p.blockInflight < MaxInflightBlocks]

-----------------------------------------------------------------------------
(* Leadership.                                                             *)

(* The change a config block asked for and Raft has not made yet.          *)
getInFlightConfChange(c, n) ==
  IF c.confChangeInProgress # None THEN c.confChangeInProgress
  ELSE IF IsConfigBlock(lastBlock(c)) /\ voters[n] # c.ids
    THEN CHOOSE v \in voters[n] : v \notin c.ids
    ELSE None

(* Faulty becomeLeader: a change that is not finished is not resumed.      *)
becomeLeaderAfresh(c, n) ==
  [c EXCEPT !.blockInflight = 0, !.justElected = TRUE, !.submitting = FALSE,
            !.propC = <<>>, !.proposing = TRUE]


becomeLeader(c, n) ==
  LET cc == getInFlightConfChange(c, n)
      l  == [c EXCEPT !.blockInflight = 0, !.justElected = TRUE,
                      !.submitting = FALSE, !.propC = <<>>, !.proposing = TRUE]
  IN  IF cc = None THEN l
      ELSE [l EXCEPT !.confProposal = cc, !.confChangeInProgress = cc,
                     !.configInflight = TRUE]

(* The context of the proposing goroutine is cancelled.  The goroutine may *)
(* see it late: it keeps the blocks of its queue.                          *)
becomeFollower(c) ==
  [c EXCEPT !.cancelled = IF c.proposing /\ c.propC # <<>> THEN @ \cup {c.propC}
                          ELSE @,
            !.propC = <<>>, !.proposing = FALSE, !.blockInflight = 0,
            !.receiver = Cut(@).receiver, !.ticking = FALSE,
            !.submitting = TRUE, !.bc = None]

softState(c, n, newLeader) ==
  LET changed == IF newLeader = c.soft THEN c
                 ELSE IF newLeader = n THEN becomeLeader(c, n)
                 ELSE IF c.soft = n THEN becomeFollower(c)
                 ELSE c
  IN  [changed EXCEPT !.soft = newLeader]

-----------------------------------------------------------------------------
(* Applying what Raft commits.                                             *)

(* The ledger refuses a block that does not extend its last one; its       *)
(* writer panics.                                                          *)
writeToLedger(c, b, metadata) ==
  IF b.prev # lastBlock(c) THEN [c EXCEPT !.status = "panic"]
  ELSE [c EXCEPT !.ledger = Append(@, [block |-> b, metadata |-> metadata])]

(* The config must be the successor of the current one.                    *)
applicable(c, b) == b.data[1].seq = Sequence(c)

(* The consenters after a config block; each keeps its identifier.         *)
ComputeMembershipChanges(ids, b) == ids \ {Removes(b.data[1].tx)}

(* The metadata of a config block is a clone taken before the block's own  *)
(* Raft index is recorded.                                                 *)
writeConfigBlock(c, b) ==
  LET gone == Removes(b.data[1].tx)
      ids  == ComputeMembershipChanges(c.ids, b)
      w    == writeToLedger([c EXCEPT !.ids = ids, !.configInflight = FALSE],
                            b, [index |-> c.raftIndex, ids |-> ids])
  IN  IF ~applicable(c, b) THEN [c EXCEPT !.status = "panic"]
      ELSE IF ids = c.ids THEN w
      ELSE [w EXCEPT !.confProposal = gone, !.confChangeInProgress = gone,
                     !.configInflight = TRUE]

writeBlock(c, b, index) ==
  LET d == [c EXCEPT !.blockInflight = IF @ > 0 THEN @ - 1 ELSE 0]
  IN  IF b.number > lastBlock(c).number + 1 THEN [c EXCEPT !.status = "panic"]
      ELSE IF b.number < lastBlock(c).number + 1 THEN c
      ELSE IF IsConfigBlock(b) THEN writeConfigBlock(d, b)
      ELSE writeToLedger([d EXCEPT !.raftIndex = index], b,
                         [index |-> index, ids |-> c.ids])

applyConfChange(c, gone) ==
  IF c.confChangeInProgress = gone
    THEN [c EXCEPT !.confChangeInProgress = None, !.configInflight = FALSE]
    ELSE c

applyEntry(c, entry, index) ==
  [(CASE entry.kind = "block" -> writeBlock(c, entry.value, index)
      [] entry.kind = "conf"  -> applyConfChange(c, entry.value)
      [] entry.kind = "empty" -> c) EXCEPT !.applied = index]

(* Faulty end of apply: a new leader serves before it has applied its log. *)
afterApplyAtOnce(c, lastIndex) ==
  IF c.justElected
    THEN [c EXCEPT !.bc = lastBlock(c), !.submitting = TRUE,
                   !.justElected = FALSE]
    ELSE c

(* The end of the apply case: when a new leader starts to serve.           *)
afterApply(c, lastIndex) ==
  IF c.justElected
    THEN IF lastIndex > c.applied \/ c.configInflight THEN c
         ELSE [c EXCEPT !.bc = lastBlock(c), !.submitting = TRUE,
                        !.justElected = FALSE]
    ELSE IF c.configInflight THEN [c EXCEPT !.submitting = FALSE]
    ELSE IF c.blockInflight < MaxInflightBlocks
      THEN [c EXCEPT !.submitting = TRUE]
      ELSE c

(* catchUp: blocks pulled from another orderer are written, and signed     *)
(* again, without consenter metadata.                                      *)
pull(c, b) ==
  IF IsConfigBlock(b) /\ ~applicable(c, b) THEN [c EXCEPT !.status = "panic"]
  ELSE writeToLedger(
         IF IsConfigBlock(b) THEN [c EXCEPT !.ids = ComputeMembershipChanges(@, b)]
         ELSE c, b, NoMetadata)

catchUp(c, source, number) ==
  FoldLeft(LAMBDA d, e : pull(d, e.block), c,
           SubSeq(source, lastBlock(c).number + 1, number))

-----------------------------------------------------------------------------
Running(n) == chain[n].status = "running"

Live == {n \in Nodes : Running(n)}

(* The orderers whose ledger can be read.                                  *)
Reachable == {n \in Nodes : chain[n].status \notin Panics \cup {"down"}}

Init == /\ RaftInit
        /\ chain = [n \in Nodes |-> NewChain(n, <<>>, FALSE)]
        /\ submitted = {}
        /\ crashes = 0
        /\ committed = <<>>
        /\ stale = FALSE

(* Faulty submission: a message validated under an older config is ordered *)
(* as it is.                                                               *)
SubmitUnvalidated(n) ==
  /\ Running(n) /\ chain[n].submitting /\ chain[n].soft = n
  /\ \E tx \in (Normals \cup Configs) \ submitted :
     \E seq \in {Sequence(chain[m]) : m \in Nodes}, slow \in BOOLEAN :
       /\ submitted' = submitted \cup {tx}
       /\ chain' = [chain EXCEPT ![n] =
                      orderMessage(@, [tx |-> tx, seq |-> seq], slow)]
  /\ UNCHANGED <<raft, crashes, history>>

(* A message, valid under the config sequence some orderer validated it    *)
(* at, reaches the leader's chain from a client or from a follower.  It is *)
(* validated again if the leader's sequence is higher.                     *)
Submit(n) ==
  /\ Running(n) /\ chain[n].submitting /\ chain[n].soft = n
  /\ \E tx \in (Normals \cup Configs) \ submitted :
     \E seq \in {Sequence(chain[m]) : m \in Nodes}, slow \in BOOLEAN :
       /\ submitted' = submitted \cup {tx}
       /\ chain' = [chain EXCEPT ![n] = orderMessage(@,
                      [tx |-> tx, seq |-> Max({seq, Sequence(@)})], slow)]
  /\ UNCHANGED <<raft, crashes, history>>

(* The batch timer.                                                        *)
BatchTimeout(n) ==
  /\ Running(n) /\ chain[n].ticking
  /\ LET c == [chain[n] EXCEPT !.ticking = FALSE,
                               !.receiver = Cut(@).receiver]
         b == Cut(chain[n].receiver).batch
     IN  \E slow \in BOOLEAN :
           chain' = [chain EXCEPT ![n] = IF b = <<>> THEN c
                                         ELSE propose(c, <<b>>, slow)]
  /\ UNCHANGED <<raft, submitted, crashes, history>>

(* The proposing goroutine hands a block to Raft.  A leader that is        *)
(* deposed loses it; if Raft knows already, it refuses the block and the   *)
(* goroutine ends, leaving the queue.                                      *)
ProposeBlock(n) ==
  /\ Running(n) /\ chain[n].proposing /\ chain[n].propC # <<>>
  /\ \/ /\ Propose(n, Head(chain[n].propC))
        /\ chain' = [chain EXCEPT ![n].propC = Tail(@)]
     \/ \E goesOn \in BOOLEAN :
          /\ leader # n
          /\ chain' = [chain EXCEPT ![n].propC = Tail(@),
                                    ![n].proposing = goesOn]
          /\ UNCHANGED raft
  /\ UNCHANGED <<submitted, crashes, history>>

(* A proposing goroutine that was cancelled has a block for Raft, which    *)
(* takes it if the node leads again: select may take either of the cases   *)
(* that are ready.                                                         *)
ProposeCancelled(n) ==
  /\ Running(n)
  /\ \E q \in chain[n].cancelled :
       /\ Propose(n, Head(q))
       /\ chain' = [chain EXCEPT ![n].cancelled = (@ \ {q}) \cup ({Tail(q)} \ {<<>>})]
  /\ stale' = TRUE
  /\ UNCHANGED <<submitted, crashes, committed>>

(* The goroutine that proposes a configuration change; Raft drops it on    *)
(* any node but the leader.  The library counts an entry as applied only   *)
(* after its Ready, and after a restart it delivers those since the        *)
(* snapshot again: what it has applied may be behind the chain.            *)
ProposeConfChange(n) ==
  /\ Running(n) /\ chain[n].confProposal # None
  /\ \/ \E i \in (IF chain[n].replayed THEN snap[n].index
                  ELSE chain[n].applied - 1)..chain[n].applied :
          ProposeChange(n, chain[n].confProposal, i)
     \/ leader # n /\ UNCHANGED raft
  /\ chain' = [chain EXCEPT ![n].confProposal = None]
  /\ UNCHANGED <<submitted, crashes, history>>

(* Raft tells node.run of another leader, or of none: a leader that hears  *)
(* of no majority has stepped down.                                        *)
LeaderSeen(n, l) ==
  \/ l \in {chain[n].soft, leader} /\ UNCHANGED leader
  \/ l = None /\ term < MaxTerm /\ leader' = IF leader = n THEN None ELSE leader

(* The end of apply: once enough data is applied, the entry becomes the    *)
(* snapshot, if the gc goroutine is free; else it is left for the next     *)
(* entry.  An entry that holds no block has no header to log.              *)
collect(c, n, i) ==
  LET due == c.due \/ (n \in Snapshotters /\ log[i].kind = "block")
  IN  IF ~due \/ c.gc # None THEN [c EXCEPT !.due = due]
      ELSE IF log[i].kind # "block" THEN [c EXCEPT !.status = "snapshot"]
      ELSE [c EXCEPT !.due = FALSE,
                     !.gc = [index |-> i, number |-> log[i].value.number,
                             voters |-> voters[n]]]

(* One Ready of Raft: node.run hands the new leader, if it changed, and    *)
(* the next committed entry, if there is one, to the apply case of run.    *)
Ready(n) ==
  /\ Running(n) /\ ~chain[n].snapC
  /\ \E k \in {0, 1}, l \in {chain[n].soft, leader, None} :
       LET s == softState(chain[n], n, l)
           i == s.applied + 1
           a == applyEntry(s, log[i], i)
           c == IF k = 0 THEN s
                ELSE IF snap[n].index >= i THEN [a EXCEPT !.status = "panic"]
                ELSE IF a.status # "running" THEN a
                ELSE collect(a, n, i)
       IN  /\ k = 1 => i <= commit
           /\ k = 1 \/ l # chain[n].soft
           /\ LeaderSeen(n, l)
           /\ chain' = [chain EXCEPT ![n] =
                IF c.status # "running" THEN c ELSE afterApply(c, Len(log))]
           /\ voters' = IF k = 1 /\ log[i].kind = "conf"
                          THEN [voters EXCEPT ![n] = @ \ {log[i].value}]
                          ELSE voters
  /\ UNCHANGED <<term, log, commit, pendingConfIndex, tails, snap, submitted, crashes, history>>

(* The gc goroutine: the snapshot is stored, unless Raft has stored a      *)
(* later one from the leader, and the log is compacted.                    *)
TakeSnapshot(n) ==
  /\ Running(n) /\ chain[n].gc # None
  /\ snap' = [snap EXCEPT ![n] = IF chain[n].gc.index > @.index
                                   THEN chain[n].gc ELSE @]
  /\ chain' = [chain EXCEPT ![n].gc = None]
  /\ UNCHANGED <<term, leader, log, commit, pendingConfIndex, tails, voters, submitted,
                 crashes, history>>

(* A follower behind the leader's compaction stores its snapshot, which    *)
(* node.run hands to run; run does the same with the stored one at start.  *)
ReceiveSnapshot(n) ==
  /\ Running(n) /\ ~chain[n].snapC /\ leader \notin {n, None} /\ Running(leader)
  /\ chain[n].applied < snap[leader].index /\ snap[n] # snap[leader]
  /\ snap' = [snap EXCEPT ![n] = snap[leader]]
  /\ voters' = [voters EXCEPT ![n] = snap[leader].voters]
  /\ chain' = [chain EXCEPT ![n].snapC = TRUE]
  /\ UNCHANGED <<term, leader, log, commit, pendingConfIndex, tails, submitted, crashes,
                 history>>

(* The snapshot case of run.                                               *)
ApplySnapshot(n) ==
  /\ Running(n) /\ chain[n].snapC
  /\ LET c == [chain[n] EXCEPT !.snapC = FALSE]
     IN  IF snap[n].index <= c.applied
           THEN chain' = [chain EXCEPT ![n] = c]
           ELSE \E m \in Reachable :
                  /\ Len(chain[m].ledger) >= snap[n].number
                  /\ chain' = [chain EXCEPT ![n] =
                       catchUp([c EXCEPT !.applied = snap[n].index],
                               chain[m].ledger, snap[n].number)]
  /\ UNCHANGED <<raft, submitted, crashes, history>>

(* A node without a leader for long pulls the last config block of another *)
(* orderer: it halts if it was evicted, after its blocks are appended, and *)
(* catches up with that block otherwise.                                   *)
ConfirmSuspicion(n) ==
  /\ Running(n) /\ chain[n].soft = None /\ ~chain[n].snapC
  /\ \E m \in Reachable :
       LET numbers == {i \in DOMAIN chain[m].ledger :
                         IsConfigBlock(chain[m].ledger[i].block)}
           last    == Max(numbers)
           pulled  == SubSeq(chain[m].ledger, 1, last)
       IN  /\ numbers # {} /\ last > Len(chain[n].ledger)
           /\ chain' = [chain EXCEPT ![n] =
                IF n \in Consenters([ledger |-> pulled])
                  THEN catchUp(@, pulled, last)
                  ELSE [@ EXCEPT !.status = "halted", !.ledger = @ \o
                          SubSeq(pulled, Len(@) + 1, last)]]
  /\ UNCHANGED <<raft, submitted, crashes, history>>

StepDown(n) == leader' = IF leader = n THEN None ELSE leader

(* A node that has applied its own removal halts.                          *)
HaltRemoved(n) ==
  /\ Running(n) /\ n \notin voters[n]
  /\ chain' = [chain EXCEPT ![n].status = "halted"]
  /\ StepDown(n)
  /\ UNCHANGED <<term, log, commit, pendingConfIndex, tails, voters, snap, submitted, crashes,
                 history>>


(* A crash loses the last block if it was still being written.             *)
Crash(n) ==
  /\ Running(n) /\ crashes < MaxCrashes
  /\ crashes' = crashes + 1
  /\ StepDown(n)
  /\ \E k \in {i \in 0..1 : i <= Len(chain[n].ledger)} :
       chain' = [chain EXCEPT ![n].status = "down",
                              ![n].ledger = SubSeq(@, 1, Len(@) - k)]
  /\ UNCHANGED <<term, log, commit, pendingConfIndex, tails, voters, snap, submitted, history>>

Restart(n) ==
  /\ chain[n].status = "down"
  /\ chain' = [chain EXCEPT ![n] = NewChain(n, @.ledger, snap[n].index > 0)]
  /\ UNCHANGED <<raft, submitted, crashes, history>>

(* The blocks among log entries, less those whose number is taken.         *)
BlocksOf(entries) ==
  FoldLeft(LAMBDA blocks, e :
             IF e.kind = "block" /\ e.value.number = Len(blocks) + 1
               THEN Append(blocks, e.value) ELSE blocks,
           <<>>, entries)

(* A step of Raft.  The votes a candidate asks for leave with a Ready that *)
(* has told its chain that there is no leader.                             *)
RaftStep ==
  /\ \/ /\ \E n \in Live : chain[n].soft = None /\ ~chain[n].snapC /\ Elect(n, Live)
        /\ UNCHANGED committed
     \/ Commit(Live) /\ committed' = BlocksOf(SubSeq(log, 1, commit'))
  /\ UNCHANGED <<chain, submitted, crashes, stale>>

Next == \/ RaftStep
        \/ \E n \in Nodes : \/ Submit(n)
                            \/ BatchTimeout(n)
                            \/ ProposeBlock(n)
                            \/ ProposeCancelled(n)
                            \/ ProposeConfChange(n)
                            \/ Ready(n)
                            \/ TakeSnapshot(n)
                            \/ ReceiveSnapshot(n)
                            \/ ApplySnapshot(n)
                            \/ ConfirmSuspicion(n)
                            \/ HaltRemoved(n)
                            \/ Crash(n)
                            \/ Restart(n)

RaftSpec == Init /\ [][Next]_vars

-----------------------------------------------------------------------------
(* The chains hold what their fields are declared to hold.                 *)
RaftTypeOK ==
  /\ submitted \subseteq Normals \cup Configs
  /\ leader \in Nodes \cup {None}
  /\ commit \in 0..Len(log)
  /\ \A n \in Nodes :
       /\ chain[n].soft \in Nodes \cup {None}
       /\ chain[n].blockInflight \in 0..MaxInflightBlocks + 1
       /\ chain[n].applied \in 0..commit
       /\ chain[n].ids \subseteq Nodes

(* No orderer finds what it takes for impossible: there is a block creator *)
(* whenever a block is created, Raft never delivers a block or an entry    *)
(* out of turn, every block it delivers extends the ledger, and a          *)
(* committed config always applies; all this unless a deposed leader's     *)
(* block came to Raft late.                                                *)
NeverPanics == ~stale => \A n \in Nodes : chain[n].status # "panic"

(* Every envelope in a block was validated under the config in force at    *)
(* that block, although leaders change, validation was done elsewhere and  *)
(* a deposed leader's block may come to Raft late.                         *)
OrderedUnderCurrentConfig ==
  \A n \in Nodes : \A i \in DOMAIN chain[n].ledger :
    LET configs == {j \in 1..i-1 : IsConfigBlock(chain[n].ledger[j].block)}
    IN  \A e \in Range(chain[n].ledger[i].block.data) : e.seq = Cardinality(configs)

(* The leader serves clients only when Raft's voters are the consenters of *)
(* the config on its ledger, however leadership moved during a change.     *)
ServesInSync ==
  \A n \in Live : leader = n /\ chain[n].soft = n /\ chain[n].submitting =>
    voters[n] = Consenters(chain[n])

(* Every block Raft commits extends the one committed before it, whoever   *)
(* led: no leader builds on a block it has not seen, so none is discarded; *)
(* unless a deposed leader's block came to Raft late.                      *)
HashChained ==
  LET entries == SelectSeq(SubSeq(log, 1, commit), LAMBDA x : x.kind = "block")
  IN  ~stale => \A i \in DOMAIN entries :
        /\ entries[i].value.number = i
        /\ entries[i].value.prev = IF i = 1 THEN Genesis ELSE entries[i-1].value

Service == INSTANCE OrderingService
             WITH channel <- committed,
                  copy <- [n \in Nodes |-> [i \in DOMAIN chain[n].ledger |->
                                              chain[n].ledger[i].block]]

(* The chains implement an ordering service: what Raft commits is one      *)
(* growing sequence of blocks and every ledger a prefix of it, through     *)
(* restarts, snapshots, pulled blocks and entries delivered again.         *)
ImplementsOrderingService == Service!ServiceSpec

(* "Quit proposing blocks, discarded %d blocks in the queue": a leader that *)
(* was deposed proposes none of them any more.                             *)
CancelledIsDiscarded == ~stale

(* The limit of in-flight blocks takes effect, as propose expects: "limit  *)
(* of in-flight blocks does not properly take effect or block is proposed  *)
(* by follower" is a programming error.                                    *)
InflightIsLimited == \A n \in Nodes : chain[n].status # "full"

(* A snapshot is only ever taken of an entry that holds a block.           *)
SnapshotsAreBlocks == \A n \in Nodes : chain[n].status # "snapshot"

(* "this is true when there is config block or ConfChange in flight".      *)
ConfigInflightIsAccurate ==
  \A n \in Nodes : Running(n) /\ chain[n].configInflight =>
    \/ \E b \in Range(chain[n].propC) : IsConfigBlock(b)
    \/ chain[n].confChangeInProgress # None
    \/ \E t \in tails \cup {SubSeq(log, chain[n].applied + 1, Len(log))} :
         \E x \in Range(t) : x.kind = "block" /\ IsConfigBlock(x.value)

(* "we restore raft metadata information from the recently committed block *)
(* meta data": a restarted orderer takes the identifier it had.            *)
KnowsItself == \A n \in Nodes : chain[n].status # "mistaken"
=============================================================================
