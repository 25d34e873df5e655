--------------------------- MODULE OrdererProofs ---------------------------
(***************************************************************************)
(* Three things an orderer rests on, each proved from its own module: the  *)
(* block writer, the ordering service that the consenters implement, and   *)
(* the goroutines of an HCS chain from Start to Halt.                      *)
(***************************************************************************)
EXTENDS ChainLifecycle, BlockWriter, OrderingService, TLAPS


-----------------------------------------------------------------------------
(* The block writer, for every bound on blocks and crashes.                *)

(* The writer starts in a state of the invariant.                          *)
LEMMA InitWriterInv == Init => WriterInv
<1> SUFFICES ASSUME Init PROVE WriterInv
  OBVIOUS
<1> USE DEF Init, Genesis
<1>1. /\ Len(ledger) = 1 /\ ledger[1] = Genesis
      /\ Genesis \in Block /\ ledger \in Seq(Block) \ {<<>>}
  BY DEF Block, Kinds, ConfigKinds
<1>2. TypeOK
  <2>1. caller \in [stage : {"idle"}] \cup [stage : {"update", "write"}, block : Block]
    BY DEF Idle
  <2>2. lastBlock.number = 0 /\ lastConfigBlockNum \in 0 .. lastBlock.number
    OBVIOUS
  <2>3. committingBlock \in BOOLEAN /\ committer \in {"idle", "annotate", "append"}
    BY Zenon
  <2> QED BY <1>1, <2>1, <2>2, <2>3 DEF TypeOK
<1>3. LedgerIsChain
  BY <1>1 DEF LedgerIsChain
<1>4. LastConfigIsNewest
  BY <1>1 DEF LastConfigIsNewest, ConfigKinds
<1>5. LockInv
  BY <1>1 DEF LockInv
<1>6. ConfigInv
  BY <1>1 DEF ConfigInv, Installing, Idle
<1>7. CallerInv
  BY DEF CallerInv, Idle
<1> QED BY <1>2, <1>3, <1>4, <1>5, <1>6, <1>7 DEF WriterInv

(* What the type invariant says of the thread: it is idle or holds a block *)
(* it is about to update the configuration with, or to write.              *)
LEMMA CallerCases ==
  ASSUME TypeOK
  PROVE  \/ caller = Idle
         \/ /\ caller # Idle
            /\ caller.stage \in {"update", "write"}
            /\ caller.block \in Block
            /\ caller = [stage |-> caller.stage, block |-> caller.block]
BY DEF TypeOK, Idle

(* CreateNextBlock keeps the invariant: nothing on disk or in the writer   *)
(* changes, and the new block continues lastBlock.                         *)
LEMMA CreateKeeps ==
  ASSUME WriterInv, NEW kind \in Kinds, CreateNextBlock(kind)
  PROVE  WriterInv'
<1> DEFINE n == lastBlock.number + 1
           block == [number |-> n, previous |-> lastBlock.number, kind |-> kind,
                     configSeq |-> IF kind \in ConfigKinds THEN sequence + 1 ELSE 0,
                     metadata |-> IF kind = "migration" THEN <<>> ELSE <<n>>,
                     lastConfig |-> 0]
           stage == IF kind \in ConfigKinds THEN "update" ELSE "write"
<1>1. /\ caller = Idle
      /\ caller' = [stage |-> stage, block |-> block]
      /\ UNCHANGED <<ledger, lastBlock, lastConfigBlockNum, lastConfigSeq,
                     sequence, committingBlock, committer, crashes>>
  BY DEF CreateNextBlock
<1>2. n \in Nat /\ lastBlock.number \in Nat /\ sequence \in Nat
  <2>1. lastBlock \in Block /\ sequence \in Nat
    BY Zenon DEF WriterInv, TypeOK
  <2>2. lastBlock.number \in Nat
    BY <2>1 DEF Block
  <2> QED BY <2>1, <2>2
<1>3. block \in Block
  BY <1>2 DEF Block
<1>4. TypeOK'
  BY <1>1, <1>3 DEF WriterInv, TypeOK
<1>5. LedgerIsChain' /\ LastConfigIsNewest' /\ LockInv'
  BY <1>1 DEF WriterInv, LedgerIsChain, LastConfigIsNewest, LockInv, Continues
<1>6. ConfigInv'
  BY <1>1 DEF WriterInv, ConfigInv, Installing, Idle
<1>7. CallerInv'
  BY <1>1, <1>2 DEF CallerInv, Continues
<1> QED BY <1>4, <1>5, <1>6, <1>7 DEF WriterInv

(* WriteConfigBlock keeps the invariant: with the mutex free, the block    *)
(* that raises the sequence is the next one addLastConfig will see.        *)
LEMMA UpdateKeeps ==
  ASSUME WriterInv, WriteConfigBlock
  PROVE  WriterInv'
<1>1. /\ caller.stage = "update"
      /\ ~committingBlock
      /\ sequence' = caller.block.configSeq
      /\ caller' = [caller EXCEPT !.stage = "write"]
      /\ UNCHANGED <<ledger, lastBlock, lastConfigBlockNum, lastConfigSeq,
                     committingBlock, committer, crashes>>
  BY DEF WriteConfigBlock
<1>2. /\ caller.block \in Block
      /\ caller = [stage |-> "update", block |-> caller.block]
  BY <1>1, CallerCases DEF WriterInv, Idle
<1>3. caller' = [stage |-> "write", block |-> caller.block]
  BY <1>1, <1>2
<1>4. committer = "idle"
  BY <1>1 DEF WriterInv, LockInv
<1>5. caller.block.configSeq \in Nat /\ lastConfigSeq \in Nat /\ sequence \in Nat
  BY <1>2 DEF WriterInv, TypeOK, Block
<1>6. TypeOK'
  BY <1>1, <1>2, <1>3, <1>5 DEF WriterInv, TypeOK
<1>7. LedgerIsChain' /\ LastConfigIsNewest' /\ LockInv'
  BY <1>1 DEF WriterInv, LedgerIsChain, LastConfigIsNewest, LockInv, Continues
<1>8. caller.block.kind \in ConfigKinds /\ sequence' > lastConfigSeq
  BY <1>1, <1>4, <1>5 DEF WriterInv, ConfigInv, CallerInv, Installing
<1>9. ConfigInv'
  BY <1>1, <1>3, <1>4, <1>8 DEF WriterInv, ConfigInv, Installing
<1>10. CallerInv'
  <2>1. Continues(caller.block, lastBlock.number + 1)
    BY <1>1 DEF WriterInv, CallerInv, Idle
  <2> QED BY <1>1, <1>3, <1>4, <2>1 DEF CallerInv, Continues
<1> QED BY <1>6, <1>7, <1>9, <1>10 DEF WriterInv

(* WriteBlock keeps the invariant: with the mutex free, the block handed   *)
(* over is the next one of the ledger.                                     *)
LEMMA WriteKeeps ==
  ASSUME WriterInv, WriteBlock
  PROVE  WriterInv'
<1>1. /\ caller.stage = "write"
      /\ ~committingBlock
      /\ committingBlock' = TRUE
      /\ lastBlock' = caller.block
      /\ committer' = "annotate"
      /\ caller' = Idle
      /\ UNCHANGED <<ledger, lastConfigBlockNum, lastConfigSeq, sequence, crashes>>
  BY DEF WriteBlock
<1>2. caller.block \in Block /\ caller # Idle
  BY <1>1, CallerCases DEF WriterInv, Idle
<1>3. committer = "idle"
  BY <1>1 DEF WriterInv, LockInv
<1>4. Len(ledger) \in Nat /\ lastBlock.number = Len(ledger) - 1
  BY <1>3 DEF WriterInv, LockInv, TypeOK
<1>5. Continues(caller.block, Len(ledger))
  BY <1>2, <1>4 DEF WriterInv, CallerInv, Continues
<1>6. TypeOK'
  <2>1. lastConfigBlockNum' \in 0 .. lastBlock'.number
    BY <1>1, <1>4, <1>5 DEF WriterInv, TypeOK, Continues
  <2> QED BY <1>1, <1>2, <2>1 DEF WriterInv, TypeOK, Idle
<1>7. LedgerIsChain' /\ LastConfigIsNewest'
  BY <1>1 DEF WriterInv, LedgerIsChain, LastConfigIsNewest
<1>8. LockInv'
  BY <1>1, <1>5 DEF LockInv, Continues
<1>9. ConfigInv'
  BY <1>1, <1>3 DEF WriterInv, ConfigInv, Installing, Idle
<1>10. CallerInv'
  BY <1>1 DEF CallerInv, Idle
<1> QED BY <1>6, <1>7, <1>8, <1>9, <1>10 DEF WriterInv

(* addLastConfig keeps the invariant: the sequence is new exactly when the *)
(* block it annotates is a config block.                                   *)
LEMMA AnnotateKeeps ==
  ASSUME WriterInv, addLastConfig
  PROVE  WriterInv'
<1> DEFINE index == IF sequence > lastConfigSeq THEN lastBlock.number
                                                ELSE lastConfigBlockNum
<1>1. /\ committer = "annotate"
      /\ committer' = "append"
      /\ lastConfigBlockNum' = index
      /\ lastConfigSeq' = IF sequence > lastConfigSeq THEN sequence ELSE lastConfigSeq
      /\ lastBlock' = [lastBlock EXCEPT !.lastConfig = index]
      /\ UNCHANGED <<ledger, sequence, committingBlock, caller, crashes>>
  BY DEF addLastConfig
<1>2. /\ lastBlock \in Block /\ lastBlock.number \in Nat
      /\ lastConfigBlockNum \in 0 .. lastBlock.number
      /\ sequence \in Nat /\ lastConfigSeq \in Nat
  BY DEF WriterInv, TypeOK, Block
<1>3. /\ lastBlock' \in Block
      /\ lastBlock'.number = lastBlock.number
      /\ lastBlock'.previous = lastBlock.previous
      /\ lastBlock'.kind = lastBlock.kind
      /\ lastBlock'.metadata = lastBlock.metadata
      /\ lastBlock'.lastConfig = index
  BY <1>1, <1>2 DEF Block
<1>4. ~(caller.stage = "write" /\ caller.block.kind \in ConfigKinds)
  BY <1>1 DEF WriterInv, CallerInv
<1>5. /\ lastBlock.kind \in ConfigKinds => sequence > lastConfigSeq
      /\ lastBlock.kind \notin ConfigKinds => sequence = lastConfigSeq
  BY <1>1, <1>4 DEF WriterInv, ConfigInv, Installing
<1>6. lastConfigSeq' = sequence
  BY <1>1, <1>2, <1>5
<1>7. TypeOK'
  BY <1>1, <1>2, <1>3, <1>6 DEF WriterInv, TypeOK
<1>8. LedgerIsChain' /\ LastConfigIsNewest'
  BY <1>1 DEF WriterInv, LedgerIsChain, LastConfigIsNewest
<1>9. LockInv'
  BY <1>1, <1>3 DEF WriterInv, LockInv, Continues
<1>10. ConfigInv'
  <2>1. lastConfigBlockNum = ledger[Len(ledger)].lastConfig
    BY <1>1 DEF WriterInv, ConfigInv
  <2>2. ~Installing'
    BY <1>1, <1>4 DEF Installing
  <2>3. index = IF lastBlock.kind \in ConfigKinds THEN lastBlock.number
                                                  ELSE ledger[Len(ledger)].lastConfig
    BY <1>2, <1>5, <2>1
  <2> QED BY <1>1, <1>3, <1>6, <2>2, <2>3 DEF ConfigInv
<1>11. CallerInv'
  BY <1>1, <1>3 DEF WriterInv, CallerInv, Continues
<1> QED BY <1>7, <1>8, <1>9, <1>10, <1>11 DEF WriterInv

(* commitBlock keeps the invariant: the block appended continues the chain *)
(* and names itself or the config block the block before it names.         *)
LEMMA CommitKeeps ==
  ASSUME WriterInv, commitBlock
  PROVE  WriterInv'
<1> DEFINE len == Len(ledger)
<1>1. /\ committer = "append"
      /\ ledger' = Append(ledger, lastBlock)
      /\ committer' = "idle"
      /\ committingBlock' = FALSE
      /\ UNCHANGED <<lastBlock, lastConfigBlockNum, lastConfigSeq, sequence,
                     caller, crashes>>
  BY DEF commitBlock
<1>2. ledger \in Seq(Block) /\ lastBlock \in Block /\ len \in Nat /\ len > 0
  BY DEF WriterInv, TypeOK
<1>3. /\ ledger' \in Seq(Block) \ {<<>>}
      /\ Len(ledger') = len + 1
      /\ ledger'[len + 1] = lastBlock
      /\ \A i \in 1 .. len : ledger'[i] = ledger[i]
  BY <1>1, <1>2
<1>4. Continues(lastBlock, len)
  BY <1>1 DEF WriterInv, LockInv
<1>5. /\ lastBlock.lastConfig = lastConfigBlockNum
      /\ lastConfigBlockNum = IF lastBlock.kind \in ConfigKinds
                                THEN lastBlock.number
                                ELSE ledger[len].lastConfig
  BY <1>1 DEF WriterInv, ConfigInv
<1>6. TypeOK'
  BY <1>1, <1>3, Zenon DEF WriterInv, TypeOK
<1>7. LedgerIsChain'
  <2> DEFINE Link(b, i) ==
        /\ b.number = i - 1 /\ b.previous = i - 2
        /\ b.metadata = IF i = 1 \/ b.kind = "migration" THEN <<>> ELSE <<i - 1>>
  <2>1. \A i \in 1 .. len : Link(ledger[i], i)
    BY Zenon DEF WriterInv, LedgerIsChain
  <2>2. Link(lastBlock, len + 1)
    BY <1>2, <1>4 DEF Continues
  <2> HIDE DEF Link
  <2>3. \A i \in 1 .. len + 1 : Link(ledger'[i], i)
    BY <1>2, <1>3, <2>1, <2>2
  <2> QED BY <1>3, <2>3, Zenon DEF LedgerIsChain, Link
<1>8. LastConfigIsNewest'
  <2> DEFINE Good(l, i) ==
        /\ l[i].lastConfig \in 0 .. i - 1
        /\ l[l[i].lastConfig + 1].kind \in ConfigKinds
        /\ \A j \in l[i].lastConfig + 2 .. i : l[j].kind \notin ConfigKinds
  <2>1. \A i \in 1 .. len : Good(ledger, i)
    BY Zenon DEF WriterInv, LastConfigIsNewest
  <2>2. ASSUME NEW i \in 1 .. len PROVE Good(ledger', i)
    <3> DEFINE k == ledger[i].lastConfig
    <3>1. Good(ledger, i) /\ ledger'[i] = ledger[i]
      BY <1>3, <2>1, Zenon
    <3>2. k \in 0 .. i - 1 /\ k + 1 \in 1 .. len /\ k + 2 .. i \subseteq 1 .. len
      <4>1. k \in 0 .. i - 1
        BY <3>1, Zenon
      <4> HIDE DEF k
      <4> QED BY <1>2, <4>1
    <3>3. /\ ledger'[k + 1] = ledger[k + 1]
          /\ \A j \in k + 2 .. i : ledger'[j] = ledger[j]
      <4>1. \A j \in 1 .. len : ledger'[j] = ledger[j]
        BY <1>3, Zenon
      <4> QED BY <3>2, <4>1, Zenon
    <3> QED BY <3>1, <3>2, <3>3, Zenon
  <2>3. Good(ledger', len + 1)
    <3>1. CASE lastBlock.kind \in ConfigKinds
      BY <1>2, <1>3, <1>4, <1>5, <3>1 DEF Continues
    <3>2. CASE lastBlock.kind \notin ConfigKinds
      <4>1. lastBlock.lastConfig = ledger[len].lastConfig
        BY <1>5, <3>2
      <4>2. Good(ledger, len)
        BY <1>2, <2>1
      <4> DEFINE k == ledger[len].lastConfig
      <4>3. k \in 0 .. len - 1 /\ k + 1 \in 1 .. len
        BY <1>2, <4>2
      <4>4. ledger'[k + 1].kind \in ConfigKinds
        BY <1>3, <4>2, <4>3, Zenon
      <4>5. ASSUME NEW j \in k + 2 .. len + 1
            PROVE  ledger'[j].kind \notin ConfigKinds
        <5>1. CASE j = len + 1
          BY <1>3, <3>2, <5>1
        <5>2. CASE j # len + 1
          <6>1. j \in k + 2 .. len /\ j \in 1 .. len
            BY <1>2, <4>3, <5>2
          <6> QED BY <1>3, <4>2, <6>1
        <5> QED BY <5>1, <5>2
      <4> QED BY <1>2, <1>3, <4>1, <4>3, <4>4, <4>5
    <3> QED BY <3>1, <3>2
  <2> HIDE DEF Good
  <2>4. \A i \in 1 .. len + 1 : Good(ledger', i)
    BY <1>2, <2>2, <2>3
  <2> QED BY <1>3, <2>4 DEF LastConfigIsNewest, Good
<1>9. LockInv'
  BY <1>1, <1>2, <1>3, <1>4 DEF LockInv, Continues
<1>10. ConfigInv'
  BY <1>1, <1>3, <1>5 DEF WriterInv, ConfigInv, Installing
<1>11. CallerInv'
  BY <1>1 DEF WriterInv, CallerInv, Continues
<1> QED BY <1>6, <1>7, <1>8, <1>9, <1>10, <1>11 DEF WriterInv

(* A crash and newBlockWriter keep the invariant: the last block on disk   *)
(* tells the writer all it needs.                                          *)
LEMMA RestartKeeps ==
  ASSUME WriterInv, newBlockWriter
  PROVE  WriterInv'
<1> DEFINE len == Len(ledger)
           last == ledger[len]
           seq == ledger[last.lastConfig + 1].configSeq
<1>1. /\ lastBlock' = last /\ lastConfigBlockNum' = last.lastConfig
      /\ sequence' = seq /\ lastConfigSeq' = seq
      /\ committingBlock' = FALSE /\ committer' = "idle" /\ caller' = Idle
      /\ crashes' = crashes + 1 /\ ledger' = ledger
  BY DEF newBlockWriter
<1>2. ledger \in Seq(Block) /\ len \in Nat /\ len > 0 /\ last \in Block
  BY DEF WriterInv, TypeOK
<1>3. last.number = len - 1 /\ last.lastConfig \in 0 .. len - 1
  <2>1. len \in 1 .. Len(ledger)
    BY <1>2
  <2>2. last.number = len - 1
    BY <2>1, Zenon DEF WriterInv, LedgerIsChain
  <2>3. last.lastConfig \in 0 .. len - 1
    BY <2>1 DEF WriterInv, LastConfigIsNewest
  <2> QED BY <2>2, <2>3
<1>4. seq \in Nat
  <2>1. ledger[last.lastConfig + 1] \in Block
    BY <1>2, <1>3
  <2> QED BY <2>1 DEF Block
<1>5. TypeOK'
  <2>1. caller' \in [stage : {"idle"}] \cup [stage : {"update", "write"}, block : Block]
    BY <1>1 DEF Idle
  <2>2. crashes' \in Nat /\ ledger' \in Seq(Block) \ {<<>>}
    BY <1>1 DEF WriterInv, TypeOK
  <2> QED BY <1>1, <1>2, <1>3, <1>4, <2>1, <2>2, Zenon DEF TypeOK
<1>6. LedgerIsChain' /\ LastConfigIsNewest'
  <2>1. LedgerIsChain /\ LastConfigIsNewest /\ ledger' = ledger
    BY <1>1, Zenon DEF WriterInv
  <2> QED BY <2>1, Zenon DEF LedgerIsChain, LastConfigIsNewest
<1>7. LockInv'
  BY <1>1, <1>3 DEF LockInv
<1>8. ConfigInv'
  BY <1>1 DEF ConfigInv, Installing, Idle
<1>9. CallerInv'
  BY <1>1 DEF CallerInv, Idle
<1> QED BY <1>5, <1>6, <1>7, <1>8, <1>9 DEF WriterInv

(* The invariant of the block writer holds in every state it can reach.    *)
THEOREM WriterInvariant == Spec => []WriterInv
<1>1. WriterInv /\ UNCHANGED vars => WriterInv'
  BY DEF vars, WriterInv, TypeOK, LedgerIsChain, LastConfigIsNewest, LockInv,
         ConfigInv, CallerInv, Continues, Installing
<1>2. WriterInv /\ [Next]_vars => WriterInv'
  BY <1>1, CreateKeeps, UpdateKeeps, WriteKeeps, AnnotateKeeps, CommitKeeps,
     RestartKeeps DEF Next
<1> QED BY InitWriterInv, <1>2, PTL DEF Spec

(* The ledger the orderer writes is a chain without gaps whose blocks      *)
(* carry their own metadata, and every LAST_CONFIG names the newest config *)
(* block, for any number of blocks and crashes.                            *)
THEOREM LedgerCorrect == Spec => [](LedgerIsChain /\ LastConfigIsNewest)
<1>1. WriterInv => LedgerIsChain /\ LastConfigIsNewest
  BY DEF WriterInv
<1> QED BY WriterInvariant, <1>1, PTL

(* A crash loses at most the block handed over last.                       *)
THEOREM CrashLosesAtMostOne == Spec => []AtMostOneBehind
<1>1. WriterInv => AtMostOneBehind
  BY DEF WriterInv, LockInv, Continues, AtMostOneBehind
<1> QED BY WriterInvariant, <1>1, PTL

-----------------------------------------------------------------------------
(* What a chain that implements OrderingService gives its clients: blocks  *)
(* never fork, however nodes crash, come back without their last block and *)
(* write it again.                                                         *)

(* Every copy is the ledger up to some block.                              *)
CopiesArePrefixes ==
  /\ IsSequence(channel)
  /\ copy \in [Nodes -> {SubSeq(channel, 1, k) : k \in 0 .. Len(channel)}]

(* The first k blocks of a sequence.                                       *)
LEMMA FirstBlocks ==
  ASSUME NEW s, IsSequence(s), NEW k \in 0 .. Len(s)
  PROVE  /\ Len(s) \in Nat
         /\ DOMAIN SubSeq(s, 1, k) = 1 .. k
         /\ Len(SubSeq(s, 1, k)) = k
         /\ \A i \in 1 .. k : SubSeq(s, 1, k)[i] = s[i]
         /\ SubSeq(s, 1, k) = [i \in 1 .. k |-> s[i]]
<1> DEFINE S == {s[i] : i \in DOMAIN s}
<1>1. s \in Seq(S)
  BY DEF IsSequence
<1> HIDE DEF S
<1> QED BY <1>1

(* Cutting a prefix shorter gives a prefix.                                *)
LEMMA ShorterPrefix ==
  ASSUME NEW s, IsSequence(s), NEW k \in 0 .. Len(s), NEW j \in 0 .. k
  PROVE  SubSeq(SubSeq(s, 1, k), 1, j) = SubSeq(s, 1, j)
<1> DEFINE S == {s[i] : i \in DOMAIN s}
<1>1. s \in Seq(S)
  BY DEF IsSequence
<1> HIDE DEF S
<1> QED BY <1>1

(* Steps of the service keep every copy a prefix of the one ledger.        *)
LEMMA PrefixesKept ==
  CopiesArePrefixes /\ [ServiceNext]_<<channel, copy>> => CopiesArePrefixes'
<1> SUFFICES ASSUME CopiesArePrefixes, [ServiceNext]_<<channel, copy>>
             PROVE  CopiesArePrefixes'
  OBVIOUS
<1> DEFINE P == {SubSeq(channel, 1, k) : k \in 0 .. Len(channel)}
<1>0. IsSequence(channel) /\ copy \in [Nodes -> P]
  BY DEF CopiesArePrefixes
<1>1. CASE Order
  <2>1. IsSequence(channel') /\ Len(channel) <= Len(channel') /\ copy' = copy
    BY <1>0, <1>1 DEF Order, StartsWith
  <2>2. /\ Len(channel) \in Nat /\ Len(channel') \in Nat
        /\ \A i \in 1 .. Len(channel) : channel'[i] = channel[i]
    <3>1. Len(channel) \in Nat /\ Len(channel') \in Nat
      BY <1>0, <2>1 DEF IsSequence
    <3>2. SubSeq(channel', 1, Len(channel)) = channel
      BY <1>1 DEF Order, StartsWith
    <3>3. \A i \in 1 .. Len(channel) :
            SubSeq(channel', 1, Len(channel))[i] = channel'[i]
      BY <2>1, <3>1, FirstBlocks
    <3> QED BY <3>1, <3>2, <3>3
  <2>3. ASSUME NEW k \in 0 .. Len(channel)
        PROVE  SubSeq(channel, 1, k) = SubSeq(channel', 1, k)
    <3>1. SubSeq(channel, 1, k) = [i \in 1 .. k |-> channel[i]]
      BY <1>0, FirstBlocks
    <3>2. k \in 0 .. Len(channel')
      BY <2>1, <2>2
    <3>3. SubSeq(channel', 1, k) = [i \in 1 .. k |-> channel'[i]]
      BY <2>1, <3>2, FirstBlocks
    <3>4. \A i \in 1 .. k : channel'[i] = channel[i]
      BY <2>2
    <3> QED BY <3>1, <3>3, <3>4
  <2>4. 0 .. Len(channel) \subseteq 0 .. Len(channel')
    BY <2>1, <2>2
  <2>5. P \subseteq {SubSeq(channel', 1, k) : k \in 0 .. Len(channel')}
    BY <2>3, <2>4
  <2> QED BY <1>0, <2>1, <2>5 DEF CopiesArePrefixes
<1>2. ASSUME NEW n \in Nodes, Write(n)
      PROVE  CopiesArePrefixes'
  <2>1. PICK k \in Len(copy[n]) .. Len(channel) :
          copy' = [copy EXCEPT ![n] = SubSeq(channel, 1, k)]
    BY <1>2, Zenon DEF Write
  <2>2. PICK j \in 0 .. Len(channel) : copy[n] = SubSeq(channel, 1, j)
    BY <1>0
  <2>3. Len(copy[n]) \in Nat /\ Len(channel) \in Nat
    BY <1>0, <2>2, FirstBlocks
  <2>4. k \in 0 .. Len(channel)
    BY <2>3
  <2>5. copy' \in [Nodes -> P] /\ channel' = channel
    BY <1>0, <1>2, <2>1, <2>4 DEF Write
  <2> QED BY <1>0, <2>5 DEF CopiesArePrefixes
<1>3. ASSUME NEW n \in Nodes, Lose(n)
      PROVE  CopiesArePrefixes'
  <2>1. PICK k \in 0 .. Len(channel) : copy[n] = SubSeq(channel, 1, k)
    BY <1>0
  <2>2. Len(copy[n]) = k /\ Len(channel) \in Nat
    BY <1>0, <2>1, FirstBlocks
  <2>3. k # 0
    <3>1. SubSeq(channel, 1, 0) = [i \in 1 .. 0 |-> channel[i]]
      BY <1>0, <2>2, FirstBlocks
    <3>2. [i \in 1 .. 0 |-> channel[i]] = <<>>
      OBVIOUS
    <3> QED BY <1>3, <2>1, <3>1, <3>2 DEF Lose
  <2>4. k - 1 \in 0 .. k /\ k - 1 \in 0 .. Len(channel)
    BY <2>2, <2>3
  <2>5. SubSeq(copy[n], 1, k - 1) = SubSeq(channel, 1, k - 1)
    BY <1>0, <2>1, <2>4, ShorterPrefix
  <2>6. copy' = [copy EXCEPT ![n] = SubSeq(channel, 1, k - 1)]
    BY <1>0, <1>3, <2>2, <2>5, Zenon DEF Lose
  <2>7. copy' \in [Nodes -> P] /\ channel' = channel
    <3>1. SubSeq(channel, 1, k - 1) \in P
      BY <2>4, Zenon
    <3>2. channel' = channel
      BY <1>3, Zenon DEF Lose
    <3> HIDE DEF P
    <3> QED BY <1>0, <2>6, <3>1, <3>2
  <2> QED BY <1>0, <2>7 DEF CopiesArePrefixes
<1>4. CASE UNCHANGED <<channel, copy>>
  BY <1>4 DEF CopiesArePrefixes, IsSequence
<1> QED BY <1>1, <1>2, <1>3, <1>4 DEF ServiceNext

(* Copies agree block by block, for any nodes, any number of blocks and    *)
(* any number of crashes: both are prefixes of the one ledger.             *)
THEOREM OrderingNeverForks == ServiceSpec => []NoFork
<1>1. ServiceInit => CopiesArePrefixes
  <2> SUFFICES ASSUME ServiceInit PROVE CopiesArePrefixes
    OBVIOUS
  <2>1. IsSequence(channel) /\ Len(channel) = 0
    BY DEF ServiceInit, IsSequence
  <2>2. SubSeq(channel, 1, 0) = <<>>
    BY DEF ServiceInit
  <2>3. <<>> \in {SubSeq(channel, 1, k) : k \in 0 .. Len(channel)}
    BY <2>1, <2>2
  <2> QED BY <2>1, <2>3 DEF ServiceInit, CopiesArePrefixes
<1>2. CopiesArePrefixes => NoFork
  <2> SUFFICES ASSUME CopiesArePrefixes, NEW m \in Nodes, NEW n \in Nodes,
                      NEW i \in DOMAIN copy[m] \cap DOMAIN copy[n]
               PROVE  copy[m][i] = copy[n][i]
    BY DEF NoFork
  <2>1. PICK j \in 0 .. Len(channel) : copy[m] = SubSeq(channel, 1, j)
    BY DEF CopiesArePrefixes
  <2>2. PICK k \in 0 .. Len(channel) : copy[n] = SubSeq(channel, 1, k)
    BY DEF CopiesArePrefixes
  <2>3. /\ DOMAIN copy[m] = 1 .. j /\ DOMAIN copy[n] = 1 .. k
        /\ \A x \in 1 .. j : copy[m][x] = channel[x]
        /\ \A x \in 1 .. k : copy[n][x] = channel[x]
    BY <2>1, <2>2, FirstBlocks DEF CopiesArePrefixes
  <2> QED BY <2>3
<1> QED BY <1>1, <1>2, PrefixesKept, PTL DEF ServiceSpec

-----------------------------------------------------------------------------
(* The goroutines of an HCS chain for any number of clients, callers of    *)
(* Halt, subscription errors and retries: nothing is used after it was     *)
(* closed, a new subscription continues exactly where the old one broke    *)
(* off, and a failure is never hidden from deliver clients.                *)

Looping == {"select", "stop", "start", "stopStart"}

(* How far the shutdown has come: haltChan closes first, then the consumer *)
(* leaves, then the timer goroutine, then the request channel closes, when *)
(* no client is past the halt check, then the HCS client.                  *)
ControlInv ==
  /\ start \in {"new", "client", "subscribed", "started"}
  /\ consumer \in Looping \cup {"off", "exited"}
  /\ ttc \in {"off", "select", "drain", "done"}
  /\ closer \in {"off", "wait", "done"}
  /\ start = "started" <=> consumer # "off"
  /\ ttc = "off" <=> consumer = "off"
  /\ doneProcessingMessages => consumer = "exited"
  /\ consumer = "exited" => haltChan
  /\ ttc \in {"drain", "done"} => doneProcessingMessages
  /\ closer # "off" => ttc \in {"drain", "done"}
  /\ timeToCutRequestChan =>
       /\ closer = "done"
       /\ \A c \in Clients : order[c] \notin {"submit", "request"}
  /\ hcsClient = "closed" => timeToCutRequestChan
  /\ order \in [Clients -> {"idle", "added", "submit", "request"}]

(* Handling a message leaves the consumer in its loop.                     *)
LEMMA RequestsInLoop == \A kind : Requests(kind) \subseteq Looping
<1> SUFFICES ASSUME NEW kind PROVE Requests(kind) \subseteq Looping
  OBVIOUS
<1>1. CASE kind = "regular"
  BY <1>1 DEF Requests, Looping
<1>2. CASE kind = "ttc"
  BY <1>2 DEF Requests, Looping
<1>3. CASE kind # "regular" /\ kind # "ttc"
  BY <1>3 DEF Requests, Looping
<1> QED BY <1>1, <1>2, <1>3

(* The shutdown order is kept by every goroutine.                          *)
LEMMA ControlKept ==
  ControlInv /\ [LifecycleNext]_lifecycleVars => ControlInv'
<1> SUFFICES ASSUME ControlInv, [LifecycleNext]_lifecycleVars
             PROVE  ControlInv'
  OBVIOUS
<1> USE DEF ControlInv, Looping, consumerVars, timers, ttcVars, flags, history
<1>1. CASE CreateClient
  BY <1>1 DEF CreateClient
<1>2. CASE FirstSubscription
  BY <1>2 DEF FirstSubscription
<1>3. CASE FinishStart
  BY <1>3 DEF FinishStart
<1>4. ASSUME NEW i \in DOMAIN streams,
             StreamDelivers(i) \/ StreamFails(i) \/ BlockedStreamPanics(i)
      PROVE  ControlInv'
  BY <1>4 DEF StreamDelivers, StreamFails, BlockedStreamPanics, StreamSends
<1>5. CASE ReceiveMessage
  <2>1. consumer = "select" /\ consumer' \in Looping
    BY <1>5, RequestsInLoop DEF ReceiveMessage, Selecting
  <2> QED BY <1>5, <2>1 DEF ReceiveMessage
<1>6. CASE RequestTimer
  BY <1>6 DEF RequestTimer
<1>7. CASE ReceiveError
  BY <1>7, Zenon DEF ReceiveError, CloseHaltChan
<1>8. CASE RetrySubscription
  BY <1>8 DEF RetrySubscription, CloseHaltChan
<1>9. CASE ConsumerExits
  BY <1>9 DEF ConsumerExits, Selecting
<1>10. CASE TimerFires
  BY <1>10 DEF TimerFires
<1>11. CASE TtcExits
  BY <1>11, Zenon DEF TtcExits
<1>12. CASE CloseRequests
  <2>1. \A c \in Clients : order[c] = "idle"
    BY <1>12, Zenon DEF CloseRequests, Senders
  <2> QED BY <1>12, <2>1 DEF CloseRequests
<1>13. CASE CloseClient
  BY <1>13, Zenon DEF CloseClient
<1>14. ASSUME NEW c \in Clients, Ordering(c)
       PROVE  ControlInv'
  <2>1. CASE OrderCalled(c)
    BY <2>1 DEF OrderCalled, OrderStep
  <2>2. CASE EnqueueChecks(c)
    BY <2>2, Zenon DEF EnqueueChecks, OrderStep, Started
  <2>3. CASE Submit(c)
    BY <2>3 DEF Submit, OrderStep
  <2>4. CASE OrderReturns(c)
    BY <2>4, Zenon DEF OrderReturns, OrderStep
  <2> QED BY <1>14, <2>1, <2>2, <2>3, <2>4 DEF Ordering
<1>15. ASSUME NEW h \in Halters, Halting(h)
       PROVE  ControlInv'
  BY <1>15 DEF Halting, HaltChecks, HaltCloses, HaltReturns, HaltStep, CloseHaltChan
<1>16. CASE UNCHANGED lifecycleVars
  BY <1>16 DEF lifecycleVars
<1> QED BY <1>1, <1>2, <1>3, <1>4, <1>5, <1>6, <1>7, <1>8, <1>9, <1>10, <1>11,
           <1>12, <1>13, <1>14, <1>15, <1>16, Zenon
        DEF LifecycleNext, Startup, Consumer, TimeToCut

(* The shutdown order holds from the start.                                *)
LEMMA ControlInvariant == LifecycleSpec => []ControlInv
<1>1. LifecycleInit => ControlInv
  BY DEF LifecycleInit, ControlInv, Looping
<1> QED BY <1>1, ControlKept, PTL DEF LifecycleSpec

(* The WaitGroup protocol works for any number of clients: a client past   *)
(* the halt check finds the request channel and the HCS client open.       *)
THEOREM LifecycleNoUseAfterClose == LifecycleSpec => []NoUseAfterClose
<1>1. ControlInv => NoUseAfterClose
  BY DEF ControlInv, NoUseAfterClose
<1> QED BY <1>1, ControlInvariant, PTL
-----------------------------------------------------------------------------
Stream == [state : {"live", "message", "recoverable", "fatal", "ended"},
           next : Nat, closed : BOOLEAN, canceled : BOOLEAN]

(* What is known of the subscriptions: the current one will deliver the    *)
(* message after the last one processed; while the consumer is there, only *)
(* ended ones are closed and a retry is due only for an ended one.         *)
StreamInv ==
  /\ streams \in Seq(Stream)
  /\ lastSequenceProcessed \in Nat
  /\ start \in {"new", "client"} => Len(streams) = 0
  /\ start \in {"subscribed", "started"} => Len(streams) > 0
  /\ Len(streams) > 0 =>
       streams[Len(streams)].next = lastSequenceProcessed + 1
  /\ consumer = "off" =>
       \A i \in 1 .. Len(streams) : streams[i].state # "ended"
  /\ consumer # "exited" =>
       \A i \in 1 .. Len(streams) :
         streams[i].closed => streams[i].state = "ended"
  /\ retryTimer => /\ start = "started"
                   /\ streams[Len(streams)].state = "ended"
  /\ panic = "stream" => consumer = "exited"
  /\ NoSequenceGap
  /\ FailureIsVisible

WithState(i, x) == [streams EXCEPT ![i].state = x]

(* The subscriptions s differ from the present ones in the state of i.     *)
OnlyState(s, i, x) ==
  /\ s \in Seq(Stream)
  /\ Len(s) = Len(streams) /\ Len(streams) \in Nat
  /\ \A j \in 1 .. Len(streams) :
       /\ s[j].next = streams[j].next
       /\ s[j].closed = streams[j].closed
       /\ s[j].state = IF j = i THEN x ELSE streams[j].state

(* A change of one subscription's state changes nothing else.              *)
LEMMA StateChanged ==
  ASSUME streams \in Seq(Stream), NEW i \in 1 .. Len(streams),
         NEW x \in {"live", "message", "recoverable", "fatal", "ended"}
  PROVE  OnlyState(WithState(i, x), i, x)
<1> DEFINE r == [streams[i] EXCEPT !.state = x]
           s == WithState(i, x)
<1>1. streams[i] \in Stream
  OBVIOUS
<1>2. /\ r \in Stream /\ r.state = x
      /\ r.next = streams[i].next /\ r.closed = streams[i].closed
  BY <1>1, Zenon DEF Stream
<1>3. s = [streams EXCEPT ![i] = r]
  BY DEF WithState
<1> HIDE DEF r, s
<1>4. /\ s \in Seq(Stream)
      /\ Len(s) = Len(streams) /\ Len(streams) \in Nat
      /\ \A j \in 1 .. Len(streams) : s[j] = IF j = i THEN r ELSE streams[j]
  BY <1>2, <1>3
<1>5. OnlyState(s, i, x)
  BY <1>2, <1>4, Zenon DEF OnlyState
<1> QED BY <1>5 DEF s

(* A step of a goroutine that has nothing to do with the subscriptions.    *)
StreamsAlone ==
  /\ UNCHANGED <<streams, lastSequenceProcessed, start, retryTimer, errorChan>>
  /\ consumer' = consumer \/ (consumer \in Looping /\ consumer' \in Looping)
  /\ panic' = panic \/ panic' \in {"halt", "start"}

(* Steps that touch neither the subscriptions nor the position, and take   *)
(* back neither an error report nor the consumer.                          *)
LEMMA StreamsUntouched ==
  ASSUME ControlInv, StreamInv, StreamsAlone
  PROVE  StreamInv'
BY DEF StreamsAlone, StreamInv, Looping, NoSequenceGap, FailureIsVisible, Current

(* The SDK goroutine of a subscription keeps the invariant.                *)
LEMMA SendsKept ==
  ASSUME ControlInv, StreamInv, NEW i \in DOMAIN streams,
         NEW x \in {"message", "recoverable", "fatal"},
         streams[i].state = "live", StreamSends(i, x)
  PROVE  StreamInv'
<1> USE DEF consumerVars, flags
<1>0. /\ i \in 1 .. Len(streams) /\ streams \in Seq(Stream)
      /\ UNCHANGED <<start, consumer, lastSequenceProcessed, retryTimer, errorChan>>
  BY DEF StreamInv, StreamSends
<1>1. CASE streams[i].closed
  <2>1. consumer = "exited"
    BY <1>0, <1>1 DEF StreamInv
  <2>2. panic' = "stream" /\ streams' = streams
    BY <1>1, Zenon DEF StreamSends
  <2> QED BY <1>0, <2>1, <2>2, Zenon DEF StreamInv, NoSequenceGap, FailureIsVisible, Current
<1>2. CASE ~streams[i].closed
  <2>1. streams' = WithState(i, x) /\ panic' = panic
    BY <1>2 DEF StreamSends, WithState
  <2>2. OnlyState(streams', i, x)
    BY <1>0, <2>1, StateChanged, Zenon
  <2> DEFINE n == Len(streams)
  <2>3. n \in 1 .. n /\ n \in Nat /\ Len(streams') = n /\ streams' \in Seq(Stream)
    BY <1>0, <2>2 DEF OnlyState
  <2>4. streams'[n].next = streams[n].next
    BY <2>2, <2>3 DEF OnlyState
  <2>5. ASSUME NEW j \in 1 .. n
        PROVE  /\ streams'[j].state = "ended" => streams[j].state = "ended"
               /\ streams'[j].closed => j # i /\ streams[j].closed
               /\ streams[j].state = "ended" => streams'[j].state = "ended"
    BY <1>2, <2>2, Zenon DEF OnlyState
  <2> HIDE DEF n
  <2>6. FailureIsVisible'
    BY <1>0, <2>3, <2>5, Zenon DEF FailureIsVisible, Current, StreamInv, n
  <2>7. /\ start' \in {"new", "client"} => Len(streams') = 0
        /\ start' \in {"subscribed", "started"} => Len(streams') > 0
        /\ Len(streams') > 0 =>
             streams'[Len(streams')].next = lastSequenceProcessed' + 1
        /\ lastSequenceProcessed' \in Nat
    BY <1>0, <2>3, <2>4, Zenon DEF StreamInv, n
  <2>8. /\ consumer' = "off" =>
             \A j \in 1 .. Len(streams') : streams'[j].state # "ended"
        /\ consumer' # "exited" =>
             \A j \in 1 .. Len(streams') :
               streams'[j].closed => streams'[j].state = "ended"
        /\ retryTimer' => /\ start' = "started"
                          /\ streams'[Len(streams')].state = "ended"
    BY <1>0, <2>3, <2>5, Zenon DEF StreamInv, n
  <2>9. NoSequenceGap' /\ (panic' = "stream" => consumer' = "exited")
    BY <1>0, <2>1, Zenon DEF StreamInv, NoSequenceGap
  <2> QED BY <2>3, <2>6, <2>7, <2>8, <2>9 DEF StreamInv
<1> QED BY <1>1, <1>2

(* The consumer takes a message: it is the one that was due, and the       *)
(* subscription goes on with the next one.                                 *)
LEMMA MessageKept ==
  ASSUME ControlInv, StreamInv, ReceiveMessage
  PROVE  StreamInv'
<1> DEFINE n == Len(streams)
           r == [streams[n] EXCEPT !.state = "live", !.next = @ + 1]
<1>0. /\ consumer = "select" /\ streams[n].state = "message" /\ panic = "none"
      /\ consumer' \in Looping
      /\ UNCHANGED <<start, retryTimer>> /\ errorChan' = FALSE
  BY RequestsInLoop, Zenon DEF ReceiveMessage, Selecting, Alive, Current, Looping
<1>1. /\ streams \in Seq(Stream) /\ n \in Nat /\ n \in 1 .. n /\ start = "started"
      /\ streams[n].next = lastSequenceProcessed + 1
      /\ lastSequenceProcessed \in Nat
  BY <1>0 DEF StreamInv, ControlInv
<1>2. streams[n] \in Stream
  BY <1>1
<1>3. /\ lastSequenceProcessed' = lastSequenceProcessed + 1 /\ panic' = panic
      /\ streams' = [streams EXCEPT ![n].state = "live", ![n].next = @ + 1]
  BY <1>1 DEF ReceiveMessage, Current
<1>4. streams' = [streams EXCEPT ![n] = r]
  BY <1>1, <1>3, Zenon
<1>5. /\ r \in Stream /\ r.state = "live" /\ r.closed = streams[n].closed
      /\ r.next = lastSequenceProcessed' + 1
  BY <1>1, <1>2, <1>3 DEF Stream
<1>6. ~streams[n].closed /\ ~retryTimer
  BY <1>0, <1>1 DEF StreamInv
<1> HIDE DEF r, n
<1>7. /\ streams' \in Seq(Stream) /\ Len(streams') = n
      /\ \A j \in 1 .. n : streams'[j] = IF j = n THEN r ELSE streams[j]
  BY <1>1, <1>4, <1>5 DEF n
<1>8. \A j \in 1 .. n : streams'[j].closed => streams'[j].state = "ended"
  BY <1>0, <1>5, <1>6, <1>7, Zenon DEF StreamInv, n
<1>9. /\ streams'[n].next = lastSequenceProcessed' + 1
      /\ streams'[n].state = "live"
  BY <1>1, <1>5, <1>7
<1>10. FailureIsVisible' /\ NoSequenceGap'
  BY <1>0, <1>3, <1>7, <1>9
     DEF FailureIsVisible, NoSequenceGap, Current, Looping, StreamInv
<1>11. /\ start' = "started" /\ n > 0 /\ consumer' # "off"
       /\ lastSequenceProcessed' \in Nat /\ retryTimer' = retryTimer
       /\ panic' # "stream"
  BY <1>0, <1>1, <1>3 DEF Looping
<1> QED BY <1>6, <1>7, <1>8, <1>9, <1>10, <1>11 DEF StreamInv

(* The consumer notices the end of the current subscription.               *)
LEMMA ErrorKept ==
  ASSUME ControlInv, StreamInv, ReceiveError
  PROVE  StreamInv'
<1> DEFINE n == Len(streams)
<1>0. /\ consumer = "select" /\ consumer' = consumer /\ panic = "none"
      /\ UNCHANGED <<start, lastSequenceProcessed>> /\ errorChan' = TRUE
      /\ panic' \in {"none", "halt"}
      /\ streams' = WithState(n, "ended")
  BY DEF ReceiveError, Selecting, Alive, Current, CloseHaltChan, MarkErrored,
         WithState
<1>1. /\ streams \in Seq(Stream) /\ n \in Nat /\ n \in 1 .. n /\ start = "started"
  BY <1>0 DEF StreamInv, ControlInv
<1>2. OnlyState(streams', n, "ended")
  BY <1>0, <1>1, StateChanged, Zenon
<1> HIDE DEF n
<1>3. /\ streams' \in Seq(Stream) /\ Len(streams') = n
      /\ streams'[n].next = streams[n].next /\ streams'[n].state = "ended"
      /\ \A j \in 1 .. n : streams'[j].closed => streams'[j].state = "ended"
  BY <1>0, <1>1, <1>2 DEF OnlyState, StreamInv, n
<1>4. FailureIsVisible' /\ NoSequenceGap'
  BY <1>0, Zenon DEF FailureIsVisible, NoSequenceGap
<1>5. streams'[n].next = lastSequenceProcessed' + 1
      /\ lastSequenceProcessed' \in Nat
  BY <1>0, <1>1, <1>3, Zenon DEF StreamInv, n
<1> QED BY <1>0, <1>1, <1>3, <1>4, <1>5 DEF StreamInv

Closing(canceled) == [streams EXCEPT ![Current] = Unsubscribed(@, canceled)]

(* Unsubscribing closes the current handle and changes no other.           *)
LEMMA HandleClosed ==
  ASSUME streams \in Seq(Stream), Len(streams) > 0, NEW canceled \in BOOLEAN
  PROVE  /\ Closing(canceled) \in Seq(Stream)
         /\ Len(Closing(canceled)) = Len(streams)
         /\ \A j \in 1 .. Len(streams) :
              /\ Closing(canceled)[j].state = streams[j].state
              /\ Closing(canceled)[j].next = streams[j].next
              /\ j # Len(streams) => Closing(canceled)[j] = streams[j]
<1> DEFINE n == Len(streams)
           r == [streams[n] EXCEPT !.closed = TRUE, !.canceled = canceled]
<1>1. n \in Nat /\ n \in 1 .. n /\ streams[n] \in Stream
  OBVIOUS
<1>2. Closing(canceled) = [streams EXCEPT ![n] = r]
  BY DEF Closing, Unsubscribed, Current
<1>3. /\ r \in Stream /\ r.state = streams[n].state
      /\ r.next = streams[n].next /\ r.closed = TRUE
  BY <1>1, Zenon DEF Stream
<1> HIDE DEF r
<1>4. /\ Closing(canceled) \in Seq(Stream) /\ Len(Closing(canceled)) = n
      /\ \A j \in 1 .. n : Closing(canceled)[j] = IF j = n THEN r ELSE streams[j]
  BY <1>1, <1>2, <1>3
<1> QED BY <1>3, <1>4

(* A subscription that ended is replaced by one that continues it, or the  *)
(* attempt fails.                                                          *)
LEMMA RetryKept ==
  ASSUME ControlInv, StreamInv, RetrySubscription
  PROVE  StreamInv'
<1> DEFINE n == Len(streams)
<1>0. /\ consumer = "select" /\ consumer' = consumer /\ panic = "none" /\ retryTimer
      /\ UNCHANGED <<start, lastSequenceProcessed, errorChan>>
  BY Zenon DEF RetrySubscription, Selecting, Alive
<1>1. /\ streams \in Seq(Stream) /\ n \in Nat /\ n > 0 /\ start = "started"
      /\ streams[n].state = "ended" /\ lastSequenceProcessed \in Nat
      /\ \A j \in 1 .. n : streams[j].closed => streams[j].state = "ended"
  BY <1>0 DEF StreamInv, ControlInv
<1>2. ASSUME NEW canceled \in BOOLEAN, streams' = Resubscribed(canceled),
             retryTimer' = FALSE, panic' = panic
      PROVE  StreamInv'
  <2> DEFINE old == Closing(canceled)
             new == NewStream(lastSequenceProcessed)
  <2>1. /\ old \in Seq(Stream) /\ Len(old) = n
        /\ \A j \in 1 .. n : /\ old[j].state = streams[j].state
                             /\ j # n => old[j] = streams[j]
    BY <1>1, HandleClosed
  <2>2. /\ new \in Stream /\ new.state = "live" /\ ~new.closed
        /\ new.next = lastSequenceProcessed + 1
    BY <1>1 DEF NewStream, Stream
  <2>3. streams' = Append(old, new)
    BY <1>2 DEF Resubscribed, Closing, Subscribe
  <2> HIDE DEF old, new, n
  <2>4. /\ streams' \in Seq(Stream) /\ Len(streams') = n + 1
        /\ \A j \in 1 .. n + 1 : streams'[j] = IF j = n + 1 THEN new ELSE old[j]
    BY <1>1, <2>1, <2>2, <2>3
  <2>5. /\ streams'[n + 1].state = "live"
        /\ streams'[n + 1].next = lastSequenceProcessed' + 1
    BY <1>0, <1>1, <2>2, <2>4
  <2>6. ASSUME NEW j \in 1 .. n + 1, streams'[j].closed
        PROVE  streams'[j].state = "ended"
    <3>1. j # n + 1
      BY <2>2, <2>4, <2>6
    <3>2. j \in 1 .. n /\ streams'[j] = old[j]
      BY <1>1, <2>4, <3>1
    <3>3. CASE j = n
      BY <1>1, <2>1, <3>2, <3>3
    <3>4. CASE j # n
      <4>1. streams'[j] = streams[j]
        BY <2>1, <3>2, <3>4
      <4> QED BY <1>1, <2>6, <3>2, <4>1
    <3> QED BY <3>3, <3>4
  <2>7. FailureIsVisible' /\ NoSequenceGap'
    BY <1>0, <1>2, <2>4, <2>5 DEF FailureIsVisible, NoSequenceGap, Current
  <2>8. /\ start' = "started" /\ n + 1 > 0 /\ consumer' = "select"
        /\ lastSequenceProcessed' \in Nat /\ ~retryTimer' /\ panic' # "stream"
    BY <1>0, <1>1, <1>2
  <2> QED BY <2>4, <2>5, <2>6, <2>7, <2>8, Zenon DEF StreamInv
<1>3. ASSUME streams' = streams, panic' \in {"none", "halt"}
      PROVE  StreamInv'
  BY <1>0, <1>1, <1>3 DEF StreamInv, NoSequenceGap, FailureIsVisible, Current
<1>4. \/ \E canceled \in BOOLEAN : streams' = Resubscribed(canceled)
                                /\ retryTimer' = FALSE /\ panic' = panic
      \/ streams' = streams /\ panic' \in {"none", "halt"}
  BY <1>0, Zenon DEF RetrySubscription, CloseHaltChan
<1> QED BY <1>2, <1>3, <1>4, Zenon

(* The consumer leaves and reports it.                                     *)
LEMMA ExitKept ==
  ASSUME ControlInv, StreamInv, ConsumerExits
  PROVE  StreamInv'
<1> DEFINE n == Len(streams)
<1>0. /\ consumer = "select" /\ consumer' = "exited" /\ panic = "none" /\ ~retryTimer'
      /\ UNCHANGED <<start, lastSequenceProcessed, panic>> /\ errorChan' = TRUE
  BY Zenon DEF ConsumerExits, Selecting, Alive
<1>1. /\ streams \in Seq(Stream) /\ n \in Nat /\ n > 0 /\ start = "started"
      /\ lastSequenceProcessed \in Nat
      /\ streams[n].next = lastSequenceProcessed + 1
  BY <1>0 DEF StreamInv, ControlInv
<1>2. PICK canceled \in BOOLEAN : streams' = Closing(canceled)
  BY Zenon DEF ConsumerExits, Closing
<1>3. /\ streams' \in Seq(Stream) /\ Len(streams') = n
      /\ streams'[n].next = streams[n].next
  BY <1>1, <1>2, HandleClosed
<1>4. FailureIsVisible' /\ NoSequenceGap'
  BY <1>0 DEF FailureIsVisible, NoSequenceGap
<1> HIDE DEF n
<1> QED BY <1>0, <1>1, <1>3, <1>4 DEF StreamInv

(* The subscriptions' invariant is kept by every goroutine.                *)
LEMMA StreamKept ==
  ControlInv /\ StreamInv /\ [LifecycleNext]_lifecycleVars => StreamInv'
<1> SUFFICES ASSUME ControlInv, StreamInv, [LifecycleNext]_lifecycleVars
             PROVE  StreamInv'
  BY Zenon
<1> USE DEF consumerVars, flags
<1>1. CASE CreateClient
  BY <1>1 DEF CreateClient, StreamInv, NoSequenceGap, FailureIsVisible, Current
<1>2. CASE FirstSubscription
  <2>1. consumer = "off" /\ consumer' = "off" /\ start = "client"
    BY <1>2, Zenon DEF FirstSubscription, ControlInv
  <2>2. CASE streams' = <<Subscribe>> /\ start' = "subscribed" /\ panic' = panic
    <3> DEFINE new == NewStream(lastSequenceProcessed)
    <3>1. /\ new \in Stream /\ new.state = "live" /\ ~new.closed
          /\ new.next = lastSequenceProcessed + 1
      BY DEF NewStream, Stream, StreamInv
    <3>2. streams' = <<new>>
      BY <2>2 DEF Subscribe
    <3> HIDE DEF new
    <3>3. /\ streams' \in Seq(Stream) /\ Len(streams') = 1 /\ streams'[1] = new
          /\ \A j \in 1 .. 1 : streams'[j] = new
      BY <3>1, <3>2
    <3>4. UNCHANGED <<lastSequenceProcessed, retryTimer, errorChan>>
      BY <1>2 DEF FirstSubscription
    <3>5. ~retryTimer
      BY <2>1 DEF StreamInv
    <3>6. FailureIsVisible'
      BY <2>1, <3>1, <3>3 DEF FailureIsVisible, Current
    <3> QED BY <2>1, <2>2, <3>1, <3>3, <3>4, <3>5, <3>6 DEF StreamInv, NoSequenceGap
  <2>3. CASE UNCHANGED <<start, streams>> /\ panic' = "start"
    <3>1. StreamsAlone
      BY <1>2, <2>3, Zenon DEF StreamsAlone, FirstSubscription
    <3> QED BY <3>1, StreamsUntouched, Zenon
  <2> QED BY <1>2, <2>2, <2>3 DEF FirstSubscription
<1>3. CASE FinishStart
  <2>1. consumer = "off" /\ start = "subscribed" /\ panic = "none"
        /\ UNCHANGED <<streams, lastSequenceProcessed, retryTimer>>
    BY <1>3 DEF FinishStart, ControlInv, Alive
  <2>2. CASE start' = "started" /\ consumer' = "select" /\ UNCHANGED panic
    <3>1. /\ Len(streams) \in Nat /\ Len(streams) > 0
          /\ streams[Len(streams)].state # "ended" /\ ~retryTimer
      BY <2>1 DEF StreamInv
    <3> QED BY <2>1, <2>2, <3>1
            DEF StreamInv, NoSequenceGap, FailureIsVisible, Current
  <2>3. CASE panic' = "start" /\ UNCHANGED <<start, errorChan, consumer>>
    <3>1. StreamsAlone
      BY <2>1, <2>3, Zenon DEF StreamsAlone
    <3> QED BY <3>1, StreamsUntouched, Zenon
  <2> QED BY <1>3, <2>2, <2>3 DEF FinishStart
<1>4. ASSUME NEW i \in DOMAIN streams,
             StreamDelivers(i) \/ StreamFails(i) \/ BlockedStreamPanics(i)
      PROVE  StreamInv'
  <2>1. CASE StreamDelivers(i)
    BY <2>1, SendsKept DEF StreamDelivers
  <2>2. CASE StreamFails(i)
    BY <2>2, SendsKept, Zenon DEF StreamFails
  <2>3. CASE BlockedStreamPanics(i)
    <3>1. consumer = "exited"
      BY <2>3 DEF BlockedStreamPanics, StreamInv
    <3>2. /\ UNCHANGED <<streams, lastSequenceProcessed, start, retryTimer,
                         errorChan, consumer>>
          /\ panic' = "stream"
      BY <2>3 DEF BlockedStreamPanics
    <3> QED BY <3>1, <3>2, Zenon DEF StreamInv, NoSequenceGap, FailureIsVisible, Current
  <2> QED BY <1>4, <2>1, <2>2, <2>3
<1>5. CASE RequestTimer
  <2>1. StreamsAlone
    BY <1>5 DEF StreamsAlone, RequestTimer, Looping
  <2> QED BY <2>1, StreamsUntouched, Zenon
<1>6. CASE TimeToCut
  <2>1. StreamsAlone
    BY <1>6, Zenon
       DEF StreamsAlone, TimeToCut, TimerFires, TtcExits, CloseRequests, CloseClient
  <2> QED BY <2>1, StreamsUntouched, Zenon
<1>7. ASSUME NEW c \in Clients, Ordering(c)
      PROVE  StreamInv'
  <2>1. StreamsAlone
    BY <1>7, Zenon
       DEF StreamsAlone, Ordering, OrderCalled, EnqueueChecks, Submit, OrderReturns,
           OrderStep
  <2> QED BY <2>1, StreamsUntouched, Zenon
<1>8. ASSUME NEW h \in Halters, Halting(h)
      PROVE  StreamInv'
  <2>1. StreamsAlone
    BY <1>8, Zenon
       DEF StreamsAlone, Halting, HaltChecks, HaltCloses, HaltReturns, HaltStep,
           CloseHaltChan
  <2> QED BY <2>1, StreamsUntouched, Zenon
<1>9. CASE UNCHANGED lifecycleVars
  <2>1. StreamsAlone
    BY <1>9, Zenon DEF StreamsAlone, lifecycleVars
  <2> QED BY <2>1, StreamsUntouched, Zenon
<1> QED BY <1>1, <1>2, <1>3, <1>4, <1>5, <1>6, <1>7, <1>8, <1>9, MessageKept,
           ErrorKept, RetryKept, ExitKept
        DEF LifecycleNext, Startup, Consumer

(* For any number of errors and retries: the responses continue exactly    *)
(* where they broke off, replacing a subscription closes no channel that   *)
(* is still sent on, and while the chain cannot make progress Errored      *)
(* tells deliver clients so.                                               *)
THEOREM LifecycleSubscriptions ==
  LifecycleSpec => [](NoSequenceGap /\ ResubscriptionSafe /\ FailureIsVisible)
<1>1. LifecycleInit => StreamInv
  BY DEF LifecycleInit, StreamInv, NoSequenceGap, FailureIsVisible, Current
<1>2. StreamInv => NoSequenceGap /\ ResubscriptionSafe /\ FailureIsVisible
  <2>1. StreamInv => DOMAIN streams = 1 .. Len(streams)
    BY DEF StreamInv
  <2> QED BY <2>1, Zenon DEF StreamInv, ResubscriptionSafe
<1> QED BY <1>1, <1>2, StreamKept, ControlInvariant, PTL DEF LifecycleSpec

(* In particular a subscription that is renewed after an error never       *)
(* closes a channel its stream still sends on.                             *)
THEOREM LifecycleResubscription == LifecycleSpec => []ResubscriptionSafe
BY LifecycleSubscriptions, PTL
=============================================================================
