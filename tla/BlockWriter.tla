----------------------------- MODULE BlockWriter -----------------------------
(***************************************************************************)
(* orderer/common/multichannel/blockwriter.go: the thread of the chain     *)
(* creates a block and hands it to the writer, and a goroutine annotates   *)
(* the block and appends it to the ledger while the thread goes on.  The   *)
(* mutex committingBlock is taken by the thread and released by the        *)
(* goroutine.                                                              *)
(*                                                                         *)
(* A block keeps its number, the number of the block its header links to,  *)
(* its kind, the configuration sequence it installs, the consenter's meta- *)
(* data and its LAST_CONFIG.  The metadata the consenter passes is known   *)
(* by the number of the block it was made for.  A block of kind "channel"  *)
(* creates another channel, "migration" changes the consensus type.        *)
(***************************************************************************)
EXTENDS Integers, Sequences

CONSTANTS MaxBlocks,    \* bound on the height of the ledger
          MaxCrashes    \* bound on the number of crashes

ASSUME BlockWriterAssumption == MaxBlocks \in Nat /\ MaxCrashes \in Nat

VARIABLES ledger,              \* the blocks on disk; block n is ledger[n + 1]
          lastBlock,           \* the block handed over last
          lastConfigBlockNum,
          lastConfigSeq,
          sequence,            \* support.Sequence(): configuration in force
          committingBlock,     \* is the mutex held?
          committer,           \* what the goroutine does next
          caller,              \* what the thread of the chain does next
          crashes

vars == <<ledger, lastBlock, lastConfigBlockNum, lastConfigSeq, sequence,
          committingBlock, committer, caller, crashes>>

ConfigKinds == {"config", "migration"}
Kinds == ConfigKinds \cup {"normal", "channel"}

Block == [number : Nat, previous : Int, kind : Kinds, configSeq : Nat,
          metadata : Seq(Nat), lastConfig : Nat]

Genesis == [number |-> 0, previous |-> -1, kind |-> "config", configSeq |-> 0,
            metadata |-> <<>>, lastConfig |-> 0]

Idle == [stage |-> "idle"]

(* newBlockWriter on the genesis block.                                    *)
Init == /\ ledger = <<Genesis>>
        /\ lastBlock = Genesis
        /\ lastConfigBlockNum = 0
        /\ lastConfigSeq = 0
        /\ sequence = 0
        /\ committingBlock = FALSE
        /\ committer = "idle"
        /\ caller = Idle
        /\ crashes = 0

-----------------------------------------------------------------------------
(* CreateNextBlock links the block to lastBlock; the thread then calls     *)
(* WriteBlock or WriteConfigBlock with the metadata for this block, which  *)
(* a change of the consensus type drops.                                   *)
CreateNextBlock(kind) ==
  LET n == lastBlock.number + 1
  IN  /\ caller = Idle
      /\ n < MaxBlocks
      /\ caller' = [stage |-> IF kind \in ConfigKinds THEN "update" ELSE "write",
                    block |-> [number     |-> n,
                               previous   |-> lastBlock.number,
                               kind       |-> kind,
                               configSeq  |-> IF kind \in ConfigKinds
                                                THEN sequence + 1 ELSE 0,
                               metadata   |-> IF kind = "migration"
                                                THEN <<>> ELSE <<n>>,
                               lastConfig |-> 0]]
      /\ UNCHANGED <<ledger, lastBlock, lastConfigBlockNum, lastConfigSeq,
                     sequence, committingBlock, committer, crashes>>

(* Faulty update: the bundle changes while a block is being committed.     *)
UpdateWithoutWaiting ==
  /\ caller.stage = "update"
  /\ sequence' = caller.block.configSeq
  /\ caller' = [caller EXCEPT !.stage = "write"]
  /\ UNCHANGED <<ledger, lastBlock, lastConfigBlockNum, lastConfigSeq,
                 committingBlock, committer, crashes>>

(* WriteConfigBlock: wait until the block before is committed, then let    *)
(* the new configuration take effect.                                      *)
WriteConfigBlock ==
  /\ caller.stage = "update"
  /\ ~committingBlock
  /\ sequence' = caller.block.configSeq
  /\ caller' = [caller EXCEPT !.stage = "write"]
  /\ UNCHANGED <<ledger, lastBlock, lastConfigBlockNum, lastConfigSeq,
                 committingBlock, committer, crashes>>

(* WriteBlock: take the mutex, start the goroutine, return.                *)
WriteBlock ==
  /\ caller.stage = "write"
  /\ ~committingBlock
  /\ committingBlock' = TRUE
  /\ lastBlock' = caller.block
  /\ committer' = "annotate"
  /\ caller' = Idle
  /\ UNCHANGED <<ledger, lastConfigBlockNum, lastConfigSeq, sequence, crashes>>

(* commitBlock up to the append: addLastConfig and addBlockSignature.      *)
addLastConfig ==
  LET isNew == sequence > lastConfigSeq
      index == IF isNew THEN lastBlock.number ELSE lastConfigBlockNum
  IN  /\ committer = "annotate"
      /\ committer' = "append"
      /\ lastConfigBlockNum' = index
      /\ lastConfigSeq' = IF isNew THEN sequence ELSE lastConfigSeq
      /\ lastBlock' = [lastBlock EXCEPT !.lastConfig = index]
      /\ UNCHANGED <<ledger, sequence, committingBlock, caller, crashes>>

(* Faulty commit: the mutex stays locked.                                  *)
commitKeepsLock ==
  /\ committer = "append"
  /\ ledger' = Append(ledger, lastBlock)
  /\ committer' = "idle"
  /\ UNCHANGED <<lastBlock, lastConfigBlockNum, lastConfigSeq, sequence,
                 committingBlock, caller, crashes>>

(* The rest of commitBlock: support.Append, and the deferred unlock.       *)
commitBlock ==
  /\ committer = "append"
  /\ ledger' = Append(ledger, lastBlock)
  /\ committer' = "idle"
  /\ committingBlock' = FALSE
  /\ UNCHANGED <<lastBlock, lastConfigBlockNum, lastConfigSeq, sequence, caller,
                 crashes>>

(* A crash at any point, then newBlockWriter: the configuration in force   *)
(* is that of the block LAST_CONFIG of the last block names.               *)
newBlockWriter ==
  LET last == ledger[Len(ledger)]
      seq  == ledger[last.lastConfig + 1].configSeq
  IN  /\ crashes < MaxCrashes
      /\ crashes' = crashes + 1
      /\ lastBlock' = last
      /\ lastConfigBlockNum' = last.lastConfig
      /\ sequence' = seq
      /\ lastConfigSeq' = seq
      /\ committingBlock' = FALSE
      /\ committer' = "idle"
      /\ caller' = Idle
      /\ UNCHANGED ledger

Next == \/ \E kind \in Kinds : CreateNextBlock(kind)
        \/ WriteConfigBlock
        \/ WriteBlock
        \/ addLastConfig
        \/ commitBlock
        \/ newBlockWriter

Spec == Init /\ [][Next]_vars

(* The goroutine runs, and the thread gets the mutex once it is free.      *)
FairSpec == Spec /\ WF_vars(addLastConfig) /\ WF_vars(commitBlock)
                 /\ WF_vars(WriteConfigBlock) /\ WF_vars(WriteBlock)
-----------------------------------------------------------------------------
(* The type of the state; the last config block is one handed over.        *)
TypeOK == /\ ledger \in Seq(Block) \ {<<>>}
          /\ lastBlock \in Block
          /\ lastConfigBlockNum \in 0 .. lastBlock.number
          /\ lastConfigSeq \in Nat
          /\ sequence \in Nat
          /\ committingBlock \in BOOLEAN
          /\ committer \in {"idle", "annotate", "append"}
          /\ caller \in [stage : {"idle"}]
                         \cup [stage : {"update", "write"}, block : Block]
          /\ crashes \in Nat

(* The ledger is a chain without gaps, and each block carries the metadata *)
(* the consenter made for that very block, although the goroutine works on *)
(* bw.lastBlock while the next block is being created.                     *)
LedgerIsChain ==
  \A i \in 1 .. Len(ledger) :
    /\ ledger[i].number = i - 1
    /\ ledger[i].previous = i - 2
    /\ ledger[i].metadata = IF i = 1 \/ ledger[i].kind = "migration"
                              THEN <<>> ELSE <<i - 1>>

(* LAST_CONFIG of every block on disk names the newest config block at or  *)
(* before it, also for the blocks around a crash: peers and a restarting   *)
(* orderer take the configuration in force from there.                     *)
LastConfigIsNewest ==
  \A i \in 1 .. Len(ledger) :
    /\ ledger[i].lastConfig \in 0 .. i - 1
    /\ ledger[ledger[i].lastConfig + 1].kind \in ConfigKinds
    /\ \A j \in ledger[i].lastConfig + 2 .. i : ledger[j].kind \notin ConfigKinds

(* The writer is at most one block ahead of the disk, so a crash loses no  *)
(* more than the block handed over last.                                   *)
AtMostOneBehind == lastBlock.number \in {Len(ledger) - 1, Len(ledger)}

(* A block that was created and not yet appended continues the chain.      *)
Continues(block, n) ==
  /\ block.number = n
  /\ block.previous = n - 1
  /\ block.metadata = IF block.kind = "migration" THEN <<>> ELSE <<n>>

(* A config block took effect and addLastConfig has not seen it yet.       *)
Installing == \/ caller.stage = "write" /\ caller.block.kind \in ConfigKinds
              \/ committer = "annotate" /\ lastBlock.kind \in ConfigKinds

(* The mutex is held exactly while the goroutine runs, and the block it    *)
(* works on is the next block of the ledger.                               *)
LockInv ==
  /\ committingBlock <=> committer # "idle"
  /\ committer = "idle" => lastBlock.number = Len(ledger) - 1
  /\ committer # "idle" => Continues(lastBlock, Len(ledger))

(* The last config the writer knows is that of the ledger, or of the block *)
(* about to be appended; the sequence is ahead of lastConfigSeq only while *)
(* a config block is being installed.                                      *)
ConfigInv ==
  /\ committer # "append" => lastConfigBlockNum = ledger[Len(ledger)].lastConfig
  /\ committer = "append" =>
       /\ lastBlock.lastConfig = lastConfigBlockNum
       /\ lastConfigBlockNum = IF lastBlock.kind \in ConfigKinds
                                 THEN lastBlock.number
                                 ELSE ledger[Len(ledger)].lastConfig
  /\ Installing => sequence > lastConfigSeq
  /\ ~Installing => sequence = lastConfigSeq

(* The block the thread holds continues lastBlock, and a config block that *)
(* took effect is not overtaken by the commit of another block.            *)
CallerInv ==
  /\ caller # Idle => Continues(caller.block, lastBlock.number + 1)
  /\ caller.stage = "update" => /\ caller.block.kind \in ConfigKinds
                                /\ caller.block.configSeq > sequence
  /\ (caller.stage = "write" /\ caller.block.kind \in ConfigKinds)
       => committer = "idle"

(* Why the ledger stays right: the mutex, the last config and the thread   *)
(* keep in step, whatever the interleaving of WriteConfigBlock, WriteBlock *)
(* and commitBlock.                                                        *)
WriterInv == /\ TypeOK /\ LedgerIsChain /\ LastConfigIsNewest
             /\ LockInv /\ ConfigInv /\ CallerInv

(* A block handed to the writer reaches the ledger unless the orderer      *)
(* crashes: no lock is left behind on the way.                             *)
HandedOverIsCommitted ==
  \A n \in 1 .. MaxBlocks - 1 :
    (caller # Idle /\ caller.block.number = n /\ crashes = MaxCrashes)
      ~> (Len(ledger) > n)
=============================================================================
