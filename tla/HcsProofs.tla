----------------------------- MODULE HcsProofs -----------------------------
(***************************************************************************)
(* What every HCS orderer keeps true of its own chain, for any number of   *)
(* orderers, envelopes, chunks, crashes and delays: its position and marks *)
(* stay within the topic, messageHashes are the hashes of the pending      *)
(* batch, and blocks and pending batch hold the messages of the topic once *)
(* and in topic order, also across restarts.                               *)
(***************************************************************************)
EXTENDS HcsChainProofs
-----------------------------------------------------------------------------
(* What a message does to one orderer.                                     *)

(* process.                                                                *)
LEMMA ProcessFollows ==
  ASSUME NEW L \in Nat, NEW c, ChainOK(c, L), NEW msg, msg = NoMessage \/ Typed(msg),
         NEW h, h = process(c, msg)
  PROVE  Follows(c, h, L)
<1> DEFINE n == c.lastSequenceProcessed
           free == c.lastChunkFree
           ordered == c.lastOrderered
           original == c.lastOriginal
           configs == c.sequence
           r == c.receiver
           hashes == c.messageHashes
           p == c.processor
           blocks == c.blocks
           b == r.pendingBatch
<1>0. Makes(c, n, free, ordered, original, configs, r, hashes, p, blocks)
  BY DEF ChainOK, IsChain, Makes
<1>1. /\ n \in 0 .. L /\ free \in 0 .. n /\ ordered \in 0 .. n
      /\ ReceiverOK(r) /\ hashes = HashesOf(b)
      /\ ProcessorTyped(p) /\ BlocksOK(blocks, L)
  BY DEF ChainOK
<1>2. Grown(blocks, b, blocks, b, n, L) /\ n \in Nat
  BY <1>1, GrownNot
<1>3. Follows(c, c, L)
  BY <1>2, Zenon DEF Follows
<1> HIDE DEF n, free, ordered, original, configs, r, hashes, p, blocks
<1>4. CASE msg # NoMessage /\ msg.type = "started"
  <2> DEFINE q == ExpireByAppID(p, msg.ordererIdentity)
  <2>1. Makes(h, n, free, ordered, original, configs, r, hashes, q, blocks)
    BY <1>0, <1>4, ProcessesStarted
  <2>2. ProcessorTyped(q)
    BY <1>1, RemovedTyped DEF ExpireByAppID
  <2> HIDE DEF q
  <2>3. ChainOK(h, L)
    BY <1>1, <2>1, <2>2, ChainIsOK, Zenon
  <2>4. /\ h.lastSequenceProcessed = n /\ h.receiver = r /\ h.blocks = blocks
    BY <2>1, ChainFields
  <2> QED BY <1>2, <2>3, <2>4, Zenon DEF Follows, n, r, blocks
<1>5. CASE msg # NoMessage /\ msg.type \in {"cutBlock", "cutHash"}
  <2>1. CASE Asks(hashes, blocks, msg) /\ b # <<>>
    <3> DEFINE k  == n
               B  == BatchBlock(b, k, n, free, n)
               bs == Append(blocks, B)
               hs == {}
               b2 == <<>>
    <3>0. b = r.pendingBatch
      OBVIOUS
    <3> HIDE DEF b
    <3>1. Makes(h, n, free, ordered, n, configs, NewReceiver, hs, p, bs)
      BY <1>0, <1>5, <2>1, <3>0, ProcessesTimeToCut, Zenon
    <3>b. B = BatchBlock(b, k, n, free, n) /\ k \in 0 .. n
      BY <1>2
    <3> HIDE DEF B, k
    <3>c. Carries(B, b, n, L)
      BY <1>1, <3>b, BatchBlockFields, Zenon
    <3>2. Marked(B, n, L) /\ B.txs = b
      BY <3>c, Zenon DEF Carries
    <3>3. Grown(blocks, b, bs, b2, n, L)
      BY <1>1, <1>2, <2>1, <3>2, GrownCut, Zenon
    <3>4. /\ hs = HashesOf(NewReceiver.pendingBatch) /\ NewReceiver.pendingBatch = b2
          /\ ReceiverOK(NewReceiver)
      BY EmptyReceiver, HashesOfBatches, Zenon
    <3> HIDE DEF hs, bs, b2
    <3>5. Grown(blocks, r.pendingBatch, bs, NewReceiver.pendingBatch, n, L)
      BY <3>0, <3>3, <3>4, Zenon
    <3> QED BY <1>0, <1>1, <3>1, <3>4, <3>5, ChainFollows, Zenon
  <2>2. CASE ~(Asks(hashes, blocks, msg) /\ b # <<>>)
    <3>1. h = c
      BY <1>0, <1>5, <2>2, IgnoresTimeToCut
    <3> QED BY <1>3, <3>1, Zenon
  <2> QED BY <2>1, <2>2
<1>6. CASE msg # NoMessage /\ msg.type \in {"normal", "config"}
  <2> DEFINE o2 == NewOriginal(original, msg)
             tx == [msg |-> msg, seq |-> n]
  <2>0. msg.env \in Envelopes
    BY <1>6 DEF Typed
  <2>a. o2 = NewOriginal(original, msg) /\ tx = [msg |-> msg, seq |-> n]
    OBVIOUS
  <2> HIDE DEF o2, tx
  <2>b. RegularStep(h, c, msg, n, original, o2, configs, r, tx)
    BY <1>0, <1>6, <2>a, ProcessesRegular, Zenon
  <2>1. h = IF ~Commits(original, configs, msg) THEN c
            ELSE IF msg.type = "config"
            THEN commitConfigMessage(c, msg, n, o2)
            ELSE CommitWith(c, msg, n, o2, Ordered(r, tx, SizeOf[msg.env], BatchSize))
    BY <2>b, Zenon DEF RegularStep
  <2>2. CASE ~Commits(original, configs, msg)
    BY <1>3, <2>1, <2>2, Zenon
  <2>3. CASE Commits(original, configs, msg) /\ msg.type = "config"
    <3>1. h = commitConfigMessage(c, msg, n, o2)
      BY <2>1, <2>3
    <3> QED BY <1>0, <2>a, <3>1, ConfigCommitted, Zenon
  <2>4. CASE Commits(original, configs, msg) /\ msg.type # "config"
    <3>1. h = CommitWith(c, msg, n, o2, Ordered(r, tx, SizeOf[msg.env], BatchSize))
      BY <2>1, <2>4
    <3> QED BY <1>0, <2>0, <2>a, <3>1, NormalCommitted, Zenon
  <2> QED BY <2>2, <2>3, <2>4, Zenon
<1>7. CASE msg = NoMessage
  BY <1>0, <1>3, <1>7, ProcessesNothing, Zenon
<1>8. CASE /\ msg # NoMessage
           /\ msg.type \notin {"normal", "config", "cutBlock", "cutHash", "started"}
  <2>1. h = c
    BY <1>8 DEF process, isRegular, isTimeToCut
  <2> QED BY <1>3, <2>1
<1> QED BY <1>4, <1>5, <1>6, <1>7, <1>8, Zenon

(* The orderer read one message further: its blocks and its batch are as   *)
(* they were.                                                              *)
Collects(c, g, msg, L) ==
  /\ ChainOK(g, L)
  /\ g.lastSequenceProcessed = c.lastSequenceProcessed + 1
  /\ g.blocks = c.blocks /\ g.receiver = c.receiver
  /\ msg = NoMessage \/ Typed(msg)

(* collect.                                                                *)
LEMMA CollectOK ==
  ASSUME NEW L \in Nat, NEW c, ChainOK(c, L), c.lastSequenceProcessed < L,
         NEW ch, Typed(ch.body), NEW g, g = collect(c, ch).chain,
         NEW msg, msg = collect(c, ch).message
  PROVE  Collects(c, g, msg, L)
<1> DEFINE k == c.lastSequenceProcessed
           n == k + 1
           free == c.lastChunkFree
           ordered == c.lastOrderered
           original == c.lastOriginal
           configs == c.sequence
           r == c.receiver
           hashes == c.messageHashes
           p == c.processor
           blocks == c.blocks
           res == Reassemble(p, ch, n)
           q == res.processor
           f2 == FreeAfter(free, q, n)
<1>0. Makes(c, k, free, ordered, original, configs, r, hashes, p, blocks)
  BY DEF ChainOK, IsChain, Makes
<1>1. /\ k \in 0 .. L /\ free \in 0 .. k /\ ordered \in 0 .. k
      /\ ReceiverOK(r) /\ hashes = HashesOf(r.pendingBatch)
      /\ ProcessorTyped(p) /\ BlocksOK(blocks, L)
  BY DEF ChainOK
<1>2. n \in 0 .. L /\ ordered \in 0 .. n /\ f2 \in 0 .. n
  BY <1>1 DEF FreeAfter
<1>3. ProcessorTyped(q) /\ (res.message = NoMessage \/ Typed(res.message))
  BY <1>1, ReassembledTyped, Zenon
<1>4. msg = res.message /\ Makes(g, n, f2, ordered, original, configs, r, hashes, q, blocks)
  BY <1>0, Collected
<1> HIDE DEF n, f2, res, free, ordered, original, configs, r, hashes, p, blocks
<1>5. ChainOK(g, L)
  BY <1>1, <1>2, <1>3, <1>4, ChainIsOK, Zenon
<1>6. g.lastSequenceProcessed = n /\ g.receiver = r /\ g.blocks = blocks
  BY <1>4, ChainFields
<1>7. /\ g.lastSequenceProcessed = c.lastSequenceProcessed + 1
      /\ g.blocks = c.blocks /\ g.receiver = c.receiver
  BY <1>6, Zenon DEF n, r, blocks
<1> QED BY <1>3, <1>4, <1>5, <1>7, Zenon DEF Collects

(* The positions of a chain are numbers.                                   *)
LEMMA ChainPositions ==
  ASSUME NEW L \in Nat, NEW c, ChainOK(c, L)
  PROVE  /\ c.lastSequenceProcessed \in 0 .. L /\ c.lastChunkFree \in Nat
         /\ BlocksOK(c.blocks, L)
BY DEF ChainOK

-----------------------------------------------------------------------------
(* The network: the topic and the submissions carry typed messages, and    *)
(* every orderer is in the state its status says.                          *)

IsFcn(f) == f = [o \in Orderers |-> f[o]]

(* g is f but for the orderer o.                                           *)
Updated(g, f, o, v) ==
  IsFcn(g) /\ g[o] = v /\ \A p \in Orderers : p # o => g[p] = f[p]

(* What EXCEPT changes in a map from orderers.                             *)
LEMMA FcnUpdated ==
  ASSUME NEW f, IsFcn(f), NEW o \in Orderers, NEW v, NEW g, g = [f EXCEPT ![o] = v]
  PROVE  Updated(g, f, o, v)
<1>1. DOMAIN f = Orderers
  BY DEF IsFcn
<1>2. /\ DOMAIN g = Orderers /\ g[o] = v /\ \A p \in Orderers : p # o => g[p] = f[p]
  BY <1>1
<1>3. g = [p \in Orderers |-> g[p]]
  BY <1>1, Zenon
<1> QED BY <1>2, <1>3, Zenon DEF IsFcn, Updated

TopicOK(l, lt) == /\ IsSeq(l) /\ \A i \in DOMAIN l : Typed(l[i].body)
                  /\ \A ch \in lt : Typed(ch.body)

Callers == Envelopes \cup Orderers

CallOK(call) ==
  \/ call = Idle
  \/ /\ call = [stage |-> call.stage, orderer |-> call.orderer, msg |-> call.msg,
                key |-> call.key, next |-> call.next, channel |-> call.channel]
     /\ Typed(call.msg)

CallsOK(cs) == cs = [x \in Callers |-> cs[x]] /\ \A x \in Callers : CallOK(cs[x])

(* The timestamp the last block persists.                                  *)
Persisted(blocks) == IF blocks = <<>> THEN 0 ELSE blocks[Len(blocks)].persisted

(* It is a number.                                                         *)
LEMMA PersistedNumber ==
  ASSUME NEW L \in Nat, NEW blocks, BlocksOK(blocks, L)
  PROVE  Persisted(blocks) \in Nat
<1>1. CASE blocks = <<>>
  BY <1>1 DEF Persisted
<1>2. CASE blocks # <<>>
  <2>1. Len(blocks) \in DOMAIN blocks
    BY <1>2, SeqFacts DEF BlocksOK
  <2> QED BY <1>2, <2>1 DEF BlocksOK, Persisted
<1> QED BY <1>1, <1>2

(* There is a message after a position before the end of the topic.        *)
LEMMA NextInTopic ==
  ASSUME NEW l, IsSeq(l), NEW c, c.lastSequenceProcessed \in 0 .. Len(l),
         c.lastSequenceProcessed < Len(l)
  PROVE  c.lastSequenceProcessed + 1 \in DOMAIN l
BY SeqFacts

(* Messages before one that is within a bound are within it.               *)
LEMMA WithinBound ==
  ASSUME NEW s, NEW n \in Nat, NEW q \in Nat, q <= n,
         \A a \in DOMAIN s : s[a].seq < q /\ s[a].seq \in Nat
  PROVE  AtMost(s, n)
BY DEF AtMost

Statuses == {"up", "down", "refused", "exited", "overran", "closedTwice"}

InLineUpTo(c, m) == InLine(c.blocks, c.receiver.pendingBatch, m)

(* Chain, durable blocks, status, timestamp to recollect up to, stamps and *)
(* astray of an orderer.  What it holds is in line up to its position when *)
(* it processes messages, up to the persisted timestamp from a crash until *)
(* the chunks before it are recollected.                                   *)
OrdererOK(c, d, st, re, sp, as, L) ==
  /\ ChainOK(c, L)
  /\ d \in 0 .. Len(c.blocks)
  /\ IsSeq(sp) /\ Len(sp) = Len(c.blocks)
  /\ st \in Statuses
  /\ st = "down" => c.lastSequenceProcessed = c.lastChunkFree
  /\ st = "up" /\ re # 0 => re = Persisted(c.blocks)
  /\ as = 0 =>
       /\ \E m \in Nat : InLineUpTo(c, m)
       /\ st = "up" /\ re = 0 => InLineUpTo(c, c.lastSequenceProcessed)
       /\ st = "down" \/ (st = "up" /\ re # 0) => InLineUpTo(c, Persisted(c.blocks))

NodesOK ==
  /\ IsFcn(chain) /\ IsFcn(durable) /\ IsFcn(status) /\ IsFcn(recollect)
  /\ IsFcn(stamps) /\ IsFcn(astray)
  /\ \A o \in Orderers : OrdererOK(chain[o], durable[o], status[o], recollect[o],
                                   stamps[o], astray[o], Len(log))

(* The inductive invariant.                                                *)
HcsInv == TopicOK(log, late) /\ CallsOK(calls) /\ NodesOK

(* An orderer stays OK when the topic grows.                               *)
LEMMA LongerTopic ==
  ASSUME NEW c, NEW d, NEW st, NEW re, NEW sp, NEW as, NEW L \in Nat, NEW M \in Nat,
         L <= M, OrdererOK(c, d, st, re, sp, as, L)
  PROVE  OrdererOK(c, d, st, re, sp, as, M)
<1>1. ChainOK(c, L)
  BY Zenon DEF OrdererOK
<1>2. BlocksOK(c.blocks, M)
  BY <1>1 DEF ChainOK, BlocksOK
<1>3. c.lastSequenceProcessed \in 0 .. M
  BY <1>1 DEF ChainOK
<1>4. ChainOK(c, M)
  BY <1>1, <1>2, <1>3, Zenon DEF ChainOK
<1> QED BY <1>4, Zenon DEF OrdererOK

(* An orderer that is down is as its last block recorded.                  *)
LEMMA DownOrderer ==
  ASSUME NEW c, NEW d, NEW re, NEW sp, NEW as, NEW L,
         OrdererOK(c, d, "down", re, sp, as, L)
  PROVE  ChainOK(c, L) /\ c.lastSequenceProcessed = c.lastChunkFree
BY Zenon DEF OrdererOK

-----------------------------------------------------------------------------
(* Submission.                                                             *)

TopicGrows == TopicOK(log', late') /\ Len(log') \in Nat /\ Len(log) <= Len(log')

(* The topic orders a chunk.                                               *)
LEMMA OrderedGrows ==
  ASSUME TopicOK(log, late), NEW ch, Typed(ch.body), OnTopic(ch),
         late' \in {late, late \ {ch}}
  PROVE  TopicGrows
<1>1. log' = Append(log, ch) /\ IsSeq(log)
  BY DEF OnTopic, TopicOK
<1>a. OneLonger(log', log, ch)
  BY <1>1, Appended, Zenon
<1>2. /\ IsSeq(log') /\ Len(log') = Len(log) + 1 /\ Len(log) \in Nat
      /\ DOMAIN log = 1 .. Len(log) /\ DOMAIN log' = 1 .. Len(log) + 1
      /\ \A i \in DOMAIN log : log'[i] = log[i]
      /\ log'[Len(log) + 1] = ch
  BY <1>a, Zenon DEF OneLonger
<1>3. \A i \in DOMAIN log' : i \in DOMAIN log \/ i = Len(log) + 1
  BY <1>2
<1>4. \A i \in DOMAIN log' : Typed(log'[i].body)
  BY <1>2, <1>3, Zenon DEF TopicOK
<1>5. \A x \in late' : Typed(x.body)
  BY DEF TopicOK
<1> QED BY <1>2, <1>4, <1>5 DEF TopicGrows, TopicOK

(* A step that leaves the topic alone.                                     *)
LEMMA TopicKept ==
  ASSUME TopicOK(log, late), log' = log, late' = late
  PROVE  TopicGrows
BY SeqFacts DEF TopicOK, TopicGrows

(* A submission is ordered, delayed or lost.                               *)
LEMMA SubmitGrows ==
  ASSUME TopicOK(log, late), NEW ch, Typed(ch.body), Submit(ch)
  PROVE  TopicGrows
<1>1. CASE OrderNow(ch)
  <2>1. OnTopic(ch) /\ late' = late
    BY <1>1 DEF OrderNow
  <2> QED BY <2>1, OrderedGrows
<1>2. CASE late' = late \cup {ch} /\ UNCHANGED <<log, ideal>>
  <2>1. Len(log) \in Nat
    BY SeqFacts, Zenon DEF TopicOK
  <2> QED BY <1>2, <2>1 DEF TopicOK, TopicGrows
<1> QED BY <1>1, <1>2 DEF Submit

(* The messages an orderer sends for itself are typed.                     *)
LEMMA TimeToCutTyped ==
  ASSUME NEW o, NEW key, NEW n, NEW h
  PROVE  /\ Typed(chunk(o, newTimeToCutMessageWithBlockNumber(n), key, 0).body)
         /\ Typed(chunk(o, newTimeToCutMessageWithMessageHash(h), key, 0).body)
         /\ Typed(chunk(o, newOrdererStartedMessage(n), key, 0).body)
BY DEF chunk, newTimeToCutMessageWithBlockNumber, newTimeToCutMessageWithMessageHash,
       newOrdererStartedMessage, Typed

(* Steps that leave the chains alone.                                      *)
LEMMA NodesKept ==
  ASSUME HcsInv, TopicGrows, CallsOK(calls'), chain' = chain, durable' = durable,
         status' = status, recollect' = recollect, stamps' = stamps, astray' = astray
  PROVE  HcsInv'
<1>1. /\ Len(log) \in Nat /\ Len(log') \in Nat /\ Len(log) <= Len(log')
      /\ TopicOK(log', late')
  BY SeqFacts, Zenon DEF HcsInv, TopicOK, TopicGrows
<1>2. ASSUME NEW o \in Orderers
      PROVE  OrdererOK(chain[o], durable[o], status[o], recollect[o], stamps[o],
                       astray[o], Len(log'))
  <2>1. OrdererOK(chain[o], durable[o], status[o], recollect[o], stamps[o],
                  astray[o], Len(log))
    BY Zenon DEF HcsInv, NodesOK
  <2> QED BY <1>1, <2>1, LongerTopic, Zenon
<1>3. NodesOK'
  BY <1>2, Zenon DEF HcsInv, NodesOK
<1> QED BY <1>1, <1>3, Zenon DEF HcsInv

(* One call changes.                                                       *)
LEMMA CallUpdated ==
  ASSUME CallsOK(calls), NEW x \in Callers, NEW call, CallOK(call),
         calls' = [calls EXCEPT ![x] = call]
  PROVE  CallsOK(calls')
<1>1. DOMAIN calls = Callers
  BY DEF CallsOK
<1>2. calls' = [y \in Callers |-> calls'[y]]
  BY <1>1, Zenon
<1>3. \A y \in Callers : calls'[y] = IF y = x THEN call ELSE calls[y]
  BY <1>1
<1> QED BY <1>2, <1>3, Zenon DEF CallsOK

(* The stages of a call keep its message.                                  *)
LEMMA CallShape ==
  ASSUME NEW call, CallOK(call), call.stage # "idle", NEW st, NEW key
  PROVE  /\ CallOK([call EXCEPT !.stage = st])
         /\ CallOK([call EXCEPT !.key = key])
         /\ CallOK([call EXCEPT !.key = key, !.next = @ + 1])
         /\ Typed(call.msg)
<1>1. /\ call = [stage |-> call.stage, orderer |-> call.orderer, msg |-> call.msg,
                 key |-> call.key, next |-> call.next, channel |-> call.channel]
      /\ Typed(call.msg)
  BY DEF CallOK, Idle
<1>2. CallOK([call EXCEPT !.stage = st])
  BY <1>1 DEF CallOK
<1> DEFINE c1 == [call EXCEPT !.key = key]
           c2 == [c1 EXCEPT !.next = @ + 1]
<1>3. /\ c1 = [stage |-> c1.stage, orderer |-> c1.orderer, msg |-> c1.msg,
               key |-> c1.key, next |-> c1.next, channel |-> c1.channel]
      /\ Typed(c1.msg)
  BY <1>1
<1> HIDE DEF c1
<1>4. CallOK(c1) /\ CallOK(c2)
  BY <1>3 DEF CallOK
<1> QED BY <1>1, <1>2, <1>4, Zenon DEF c1

(* A call may end at any stage.                                            *)
LEMMA CallDone ==
  ASSUME NEW call, CallOK(call), call # Idle
  PROVE  CallOK([call EXCEPT !.stage = "done"])
BY DEF CallOK

(* A client hands an envelope to an orderer.                               *)
LEMMA HcsBroadcast ==
  ASSUME HcsInv, NEW e \in Envelopes, NEW o \in Orderers, Broadcast(e, o)
  PROVE  HcsInv'
<1> DEFINE call ==
       [stage   |-> IF gate[o].channel \in gate[o].closed THEN "sending"
                                                          ELSE "waiting",
        orderer |-> o,
        msg     |-> IF e \in Normals
                      THEN newNormalMessage(e, chain[o].sequence, 0)
                      ELSE newConfigMessage(e, chain[o].sequence, 0),
        key     |-> <<>>,
        next    |-> 0,
        channel |-> gate[o].channel]
<1>1. calls' = [calls EXCEPT ![e] = call] /\ UNCHANGED <<topic, node>>
  BY Zenon DEF Broadcast
<1>2. Typed(call.msg)
  BY DEF Typed, newNormalMessage, newConfigMessage
<1>3. CallOK(call)
  <2>1. call = [stage |-> call.stage, orderer |-> call.orderer, msg |-> call.msg,
                key |-> call.key, next |-> call.next, channel |-> call.channel]
    OBVIOUS
  <2> HIDE DEF call
  <2> QED BY <1>2, <2>1, Zenon DEF CallOK
<1> HIDE DEF call
<1>4. CallsOK(calls')
  BY <1>1, <1>3, CallUpdated, Zenon DEF HcsInv, Callers
<1>5. TopicGrows
  BY <1>1, TopicKept DEF topic, HcsInv
<1> QED BY <1>1, <1>4, <1>5, NodesKept, Zenon DEF node

(* WaitReady returns and the call is enqueued.                             *)
LEMMA HcsWaitReady ==
  ASSUME HcsInv, NEW e \in Envelopes, WaitReady(e)
  PROVE  HcsInv'
<1>1. /\ calls[e].stage = "waiting" /\ UNCHANGED <<topic, node>>
      /\ calls' = [calls EXCEPT ![e].stage = "sending"]
  BY DEF WaitReady
<1>2. CallOK(calls[e]) /\ e \in Callers
  BY DEF HcsInv, CallsOK, Callers
<1> DEFINE call == [calls[e] EXCEPT !.stage = "sending"]
<1>3. CallOK(call)
  BY <1>1, <1>2, CallShape, Zenon
<1>4. calls' = [calls EXCEPT ![e] = call]
  BY <1>1
<1> HIDE DEF call
<1>5. CallsOK(calls')
  BY <1>2, <1>3, <1>4, CallUpdated, Zenon DEF HcsInv
<1>6. TopicGrows
  BY <1>1, TopicKept DEF topic, HcsInv
<1> QED BY <1>1, <1>5, <1>6, NodesKept, Zenon DEF node

(* The next chunk of a message is submitted.                               *)
LEMMA HcsSendChunk ==
  ASSUME HcsInv, NEW x \in Callers, SendChunk(x)
  PROVE  HcsInv'
<1> DEFINE call == calls[x]
           key  == IF call.key = <<>> THEN freshKey(call.orderer) ELSE call.key
           last == call.next + 1 = chunksOf(call.msg)
           new  == IF ~last THEN [call EXCEPT !.key = key, !.next = @ + 1]
                   ELSE IF x \in Orderers THEN Idle
                   ELSE [call EXCEPT !.stage = "done"]
           ch   == chunk(call.orderer, call.msg, key, call.next)
<1>1. /\ call.stage = "sending" /\ Submit(ch)
      /\ calls' = [calls EXCEPT ![x] = new]
      /\ UNCHANGED <<chain, durable, status, recollect, stamps, astray>>
  BY DEF SendChunk
<1>2. CallOK(call)
  BY DEF HcsInv, CallsOK
<1>3. Typed(call.msg) /\ CallOK(new)
  <2> HIDE DEF call, last, key
  <2>1. Typed(call.msg) /\ CallOK([call EXCEPT !.key = key, !.next = @ + 1])
        /\ CallOK([call EXCEPT !.stage = "done"])
    BY <1>1, <1>2, CallShape, Zenon
  <2>2. CallOK(Idle)
    BY DEF CallOK
  <2> QED BY <2>1, <2>2
<1>4. Typed(ch.body)
  <2> HIDE DEF key
  <2> QED BY <1>3 DEF chunk
<1> HIDE DEF new, ch
<1>5. CallsOK(calls')
  BY <1>1, <1>3, CallUpdated, Zenon DEF HcsInv
<1>6. TopicGrows
  BY <1>1, <1>4, SubmitGrows, Zenon DEF HcsInv
<1> QED BY <1>1, <1>5, <1>6, NodesKept, Zenon

(* A chunk is submitted again.                                             *)
LEMMA HcsRetryChunk ==
  ASSUME HcsInv, NEW x \in Callers, RetryChunk(x)
  PROVE  HcsInv'
<1> DEFINE call == calls[x]
           key  == IF call.key = <<>> THEN freshKey(call.orderer) ELSE call.key
           new  == [call EXCEPT !.key = key]
           ch   == chunk(call.orderer, call.msg, key, call.next)
<1>1. /\ call.stage = "sending" /\ OrderNow(ch) /\ UNCHANGED node
      /\ calls' = [calls EXCEPT ![x].key = key]
  BY DEF RetryChunk
<1>2. CallOK(call)
  BY DEF HcsInv, CallsOK
<1>3. Typed(call.msg) /\ CallOK(new)
  <2> HIDE DEF call, key
  <2> QED BY <1>1, <1>2, CallShape, Zenon
<1>4. Typed(ch.body)
  <2> HIDE DEF key
  <2> QED BY <1>3 DEF chunk
<1>5. calls' = [calls EXCEPT ![x] = new]
  <2> HIDE DEF key
  <2> QED BY <1>1
<1> HIDE DEF new, ch
<1>6. CallsOK(calls')
  BY <1>3, <1>5, CallUpdated, Zenon DEF HcsInv
<1>7. TopicGrows
  BY <1>1, <1>4, OrderedGrows, Zenon DEF HcsInv, OrderNow
<1> QED BY <1>1, <1>6, <1>7, NodesKept, Zenon DEF node

(* A call gives up.                                                        *)
LEMMA HcsAbortSend ==
  ASSUME HcsInv, NEW x \in Callers, AbortSend(x)
  PROVE  HcsInv'
<1> DEFINE call == calls[x]
           new  == IF x \in Orderers THEN Idle ELSE [call EXCEPT !.stage = "done"]
<1>1. /\ call.stage = "sending" /\ UNCHANGED <<topic, node>>
      /\ calls' = [calls EXCEPT ![x] = IF x \in Orderers THEN Idle
                                       ELSE [@ EXCEPT !.stage = "done"]]
  BY DEF AbortSend
<1>2. CallOK(call) /\ calls' = [calls EXCEPT ![x] = new]
  BY <1>1 DEF HcsInv, CallsOK
<1>3. CallOK(new)
  <2> HIDE DEF call
  <2>1. CallOK([call EXCEPT !.stage = "done"])
    BY <1>1, <1>2, CallShape, Zenon
  <2> QED BY <2>1 DEF CallOK
<1> HIDE DEF new
<1>4. CallsOK(calls')
  BY <1>2, <1>3, CallUpdated, Zenon DEF HcsInv
<1>5. TopicGrows
  BY <1>1, TopicKept, Zenon DEF topic, HcsInv
<1> QED BY <1>1, <1>4, <1>5, NodesKept, Zenon DEF node

(* The topic orders a chunk submitted earlier.                             *)
LEMMA HcsOrderLate ==
  ASSUME HcsInv, NEW ch \in late, OrderLate(ch)
  PROVE  HcsInv'
<1>1. Typed(ch.body) /\ OnTopic(ch) /\ late' = late \ {ch} /\ UNCHANGED <<calls, node>>
  BY DEF OrderLate, HcsInv, TopicOK
<1>2. TopicGrows
  BY <1>1, OrderedGrows, Zenon DEF HcsInv
<1> QED BY <1>1, <1>2, NodesKept, Zenon DEF node, HcsInv

(* A batch timer or a subscription that is renewed.                        *)
LEMMA HcsTimers ==
  ASSUME HcsInv, NEW o \in Orderers,
         FireRecvTimer(o) \/ FireSendTimer(o) \/ Resubscribe(o)
  PROVE  HcsInv'
<1>1. CallsOK(calls') /\ UNCHANGED node
  BY DEF FireRecvTimer, FireSendTimer, Resubscribe, HcsInv
<1>2. ASSUME NEW ch, Typed(ch.body), SubmitOrFail(ch)
      PROVE  TopicGrows
  BY <1>2, SubmitGrows, TopicKept, Zenon DEF SubmitOrFail, topic, HcsInv
<1>3. FireRecvTimer(o) => TopicGrows
  BY <1>2, TimeToCutTyped, Zenon DEF FireRecvTimer
<1>4. FireSendTimer(o) => TopicGrows
  BY <1>2, TimeToCutTyped, Zenon DEF FireSendTimer
<1>5. Resubscribe(o) => TopicGrows
  BY OrderedGrows, TimeToCutTyped DEF Resubscribe, OrderNow, HcsInv
<1>6. TopicGrows
  BY <1>3, <1>4, <1>5, Zenon
<1> QED BY <1>1, <1>6, NodesKept, Zenon DEF node

-----------------------------------------------------------------------------
(* Consumption, crashes and restarts: one orderer changes.                 *)

(* The invariant after a step that changes one orderer.                    *)
LEMMA OneNode ==
  ASSUME HcsInv, TopicGrows, CallsOK(calls'), NEW o \in Orderers,
         IsFcn(chain') /\ IsFcn(durable') /\ IsFcn(status') /\ IsFcn(recollect'),
         IsFcn(stamps') /\ IsFcn(astray'),
         \A p \in Orderers \ {o} :
           /\ chain'[p] = chain[p] /\ durable'[p] = durable[p]
           /\ status'[p] = status[p] /\ recollect'[p] = recollect[p]
           /\ stamps'[p] = stamps[p] /\ astray'[p] = astray[p],
         OrdererOK(chain'[o], durable'[o], status'[o], recollect'[o], stamps'[o],
                   astray'[o], Len(log'))
  PROVE  HcsInv'
<1>1. /\ Len(log) \in Nat /\ Len(log') \in Nat /\ Len(log) <= Len(log')
      /\ TopicOK(log', late')
  BY SeqFacts, Zenon DEF HcsInv, TopicOK, TopicGrows
<1>2. ASSUME NEW p \in Orderers
      PROVE  OrdererOK(chain'[p], durable'[p], status'[p], recollect'[p], stamps'[p],
                       astray'[p], Len(log'))
  <2>1. CASE p = o
    BY <2>1, Zenon
  <2>2. CASE p # o
    <3>1. OrdererOK(chain[p], durable[p], status[p], recollect[p], stamps[p],
                    astray[p], Len(log))
      BY Zenon DEF HcsInv, NodesOK
    <3>2. OrdererOK(chain[p], durable[p], status[p], recollect[p], stamps[p],
                    astray[p], Len(log'))
      BY <1>1, <3>1, LongerTopic, Zenon
    <3> QED BY <2>2, <3>2, Zenon
  <2> QED BY <2>1, <2>2, Zenon
<1>3. NodesOK'
  BY <1>2 DEF NodesOK
<1> QED BY <1>1, <1>3, Zenon DEF HcsInv

(* An orderer that processed a message.                                    *)
LEMMA OrdererAdvances ==
  ASSUME NEW c, NEW d, NEW sp, NEW as, NEW L \in Nat,
         OrdererOK(c, d, "up", 0, sp, as, L), NEW g, NEW h,
         g.lastSequenceProcessed = c.lastSequenceProcessed + 1,
         g.blocks = c.blocks, g.receiver = c.receiver, Follows(g, h, L),
         NEW sp2, IsSeq(sp2), Len(sp2) = Len(h.blocks), NEW st,
         st \in {"up", "exited", "closedTwice"}
  PROVE  OrdererOK(h, d, st, 0, sp2, as, L)
<1> DEFINE m == c.lastSequenceProcessed
           n == h.lastSequenceProcessed
<1>1. /\ ChainOK(h, L) /\ n = m + 1 /\ m \in Nat /\ n \in Nat
      /\ Grown(c.blocks, c.receiver.pendingBatch, h.blocks, h.receiver.pendingBatch, n, L)
  BY DEF Follows, OrdererOK, ChainOK
<1>2. d \in 0 .. Len(h.blocks)
  <2>1. Len(h.blocks) >= Len(c.blocks) /\ Len(h.blocks) \in Nat /\ Len(c.blocks) \in Nat
    BY <1>1, SeqFacts, Zenon DEF Grown, ChainOK, BlocksOK, OrdererOK
  <2> QED BY <2>1 DEF OrdererOK
<1> HIDE DEF m, n
<1>3. ASSUME as = 0 PROVE InLineUpTo(h, n)
  <2>1. InLineUpTo(c, m)
    BY <1>3, Zenon DEF OrdererOK, m
  <2> QED BY <1>1, <2>1 DEF Grown, InLineUpTo
<1> QED BY <1>1, <1>2, <1>3, Zenon DEF OrdererOK, n, Statuses

(* A message that is sent again is a typed call.                           *)
LEMMA ResubmissionOK ==
  ASSUME NEW o, NEW c, NEW msg, Typed(msg), isRegular(msg)
  PROVE  CallOK(resubmission(o, c, msg))
<1> DEFINE m1 == [msg EXCEPT !.configSeq = c.sequence]
           m2 == [m1 EXCEPT !.originalSeq = c.lastSequenceProcessed]
           call == [stage |-> "sending", orderer |-> o, key |-> <<>>, next |-> 0,
                    channel |-> 0, msg |-> m2]
<1>1. /\ msg.type \in {"normal", "config"} /\ msg.env \in Envelopes
      /\ msg = [type |-> msg.type, env |-> msg.env, configSeq |-> msg.configSeq,
                originalSeq |-> msg.originalSeq]
  BY DEF Typed, isRegular
<1>2. m1 = [type |-> msg.type, env |-> msg.env, configSeq |-> c.sequence,
            originalSeq |-> msg.originalSeq]
  BY <1>1
<1> HIDE DEF m1
<1>3. m2 = [type |-> msg.type, env |-> msg.env, configSeq |-> c.sequence,
            originalSeq |-> c.lastSequenceProcessed]
  BY <1>2
<1> HIDE DEF m2
<1>4. Typed(m2)
  BY <1>1, <1>3 DEF Typed
<1>5. resubmission(o, c, msg) = call
  BY DEF resubmission, m1, m2
<1>6. /\ call = [stage |-> call.stage, orderer |-> call.orderer, msg |-> call.msg,
                 key |-> call.key, next |-> call.next, channel |-> call.channel]
      /\ Typed(call.msg)
  BY <1>4, Zenon
<1> HIDE DEF call
<1> QED BY <1>5, <1>6, Zenon DEF CallOK

(* An orderer receives the next chunk: the whole of processMessages for    *)
(* one message.                                                            *)
LEMMA HcsDeliver ==
  ASSUME HcsInv, NEW o \in Orderers, Deliver(o)
  PROVE  HcsInv'
<1> DEFINE c   == chain[o]
           L   == Len(log)
           ch  == log[c.lastSequenceProcessed + 1]
           g   == collect(c, ch).chain
           msg == collect(c, ch).message
           h   == process(g, msg)
           v   == IF reprocessing(g, msg) /\ msg.originalSeq > resubmitted[o]
                    THEN msg.originalSeq ELSE resubmitted[o]
           sp  == stamped(o, h.blocks, v)
           st  == IF reprocessComplete(o, g, msg) /\ gate[o].channel \in gate[o].closed
                    THEN "closedTwice"
                  ELSE IF isTimeToCut(msg) /\ timeToCutError(g, msg) THEN "exited"
                  ELSE status[o]
<1>1. /\ status[o] = "up" /\ recollect[o] = 0 /\ c.lastSequenceProcessed < L
      /\ Processed(o, msg, g, h)
      /\ UNCHANGED <<topic, durable, recollect, astray>>
  BY Zenon DEF Deliver
<1>2. /\ TopicOK(log, late) /\ CallsOK(calls) /\ L \in Nat
      /\ IsFcn(chain) /\ IsFcn(durable) /\ IsFcn(status) /\ IsFcn(recollect)
      /\ IsFcn(stamps) /\ IsFcn(astray)
      /\ OrdererOK(c, durable[o], "up", 0, stamps[o], astray[o], L)
  BY <1>1, SeqFacts, Zenon DEF HcsInv, NodesOK, TopicOK
<1>3. ChainOK(c, L) /\ Typed(ch.body)
  <2>1. ChainOK(c, L)
    BY <1>2 DEF OrdererOK
  <2>2. c.lastSequenceProcessed \in 0 .. L
    BY <1>2, <2>1, ChainPositions, Zenon
  <2>3. IsSeq(log)
    BY <1>2, Zenon DEF TopicOK
  <2>4. c.lastSequenceProcessed + 1 \in DOMAIN log
    BY <1>1, <2>2, <2>3, NextInTopic, Zenon
  <2> QED BY <1>2, <2>1, <2>4, Zenon DEF TopicOK
<1>4. /\ chain' = [chain EXCEPT ![o] = h] /\ stamps' = [stamps EXCEPT ![o] = sp]
      /\ status' = [status EXCEPT ![o] = st]
      /\ \/ isRegular(msg) /\ calls' = [calls EXCEPT ![o] = resubmission(o, g, msg)]
         \/ calls' = calls
  <2> HIDE DEF g, h, msg
  <2> QED BY <1>1 DEF Processed
<1> HIDE DEF c, L, ch
<1>e. g = collect(c, ch).chain /\ msg = collect(c, ch).message
  BY Zenon
<1> HIDE DEF g, msg
<1>5. /\ ChainOK(g, L)
      /\ g.lastSequenceProcessed = c.lastSequenceProcessed + 1
      /\ g.blocks = c.blocks /\ g.receiver = c.receiver
      /\ msg = NoMessage \/ Typed(msg)
  <2>1. Collects(c, g, msg, L)
    BY <1>e, <1>1, <1>2, <1>3, CollectOK, Zenon
  <2> QED BY <2>1, Zenon DEF Collects
<1>6. Follows(g, h, L)
  BY <1>2, <1>5, ProcessFollows, Zenon
<1> HIDE DEF h
<1>7. IsSeq(sp) /\ Len(sp) = Len(h.blocks)
  <2>1. IsSeq(h.blocks)
    BY <1>6, Zenon DEF Follows, ChainOK, BlocksOK
  <2>2. Len(h.blocks) \in Nat /\ DOMAIN h.blocks = 1 .. Len(h.blocks)
    BY <2>1, SeqFacts, Zenon
  <2> QED BY <2>2, SeqFromFunction, Zenon DEF stamped
<1> HIDE DEF sp
<1>8. st \in {"up", "exited", "closedTwice"}
  BY <1>1, Zenon
<1> HIDE DEF st
<1>9. OrdererOK(h, durable[o], st, 0, sp, astray[o], L)
  BY <1>2, <1>5, <1>6, <1>7, <1>8, OrdererAdvances
<1>10. CallsOK(calls')
  <2>1. CASE isRegular(msg) /\ calls' = [calls EXCEPT ![o] = resubmission(o, g, msg)]
    <3> DEFINE call == resubmission(o, g, msg)
    <3>1. CallOK(call)
      BY <1>5, <2>1, ResubmissionOK, Zenon DEF isRegular
    <3>2. calls' = [calls EXCEPT ![o] = call] /\ o \in Callers
      BY <2>1 DEF Callers
    <3> HIDE DEF call
    <3> QED BY <1>2, <3>1, <3>2, CallUpdated, Zenon
  <2>2. CASE calls' = calls
    BY <1>2, <2>2, Zenon
  <2> QED BY <1>4, <2>1, <2>2, Zenon
<1>11. TopicGrows /\ log' = log
  BY <1>1, <1>2, TopicKept, Zenon DEF topic
<1>12. /\ IsFcn(chain') /\ chain'[o] = h /\ \A p \in Orderers : p # o => chain'[p] = chain[p]
       /\ IsFcn(stamps') /\ stamps'[o] = sp /\ \A p \in Orderers : p # o => stamps'[p] = stamps[p]
       /\ IsFcn(status') /\ status'[o] = st /\ \A p \in Orderers : p # o => status'[p] = status[p]
  <2>1. Updated(chain', chain, o, h)
    BY <1>2, <1>4, FcnUpdated, Zenon
  <2>2. Updated(stamps', stamps, o, sp)
    BY <1>2, <1>4, FcnUpdated, Zenon
  <2>3. Updated(status', status, o, st)
    BY <1>2, <1>4, FcnUpdated, Zenon
  <2> QED BY <2>1, <2>2, <2>3, Zenon DEF Updated
<1>13. durable' = durable /\ recollect' = recollect /\ astray' = astray
  BY <1>1
<1>14. OrdererOK(chain'[o], durable'[o], status'[o], recollect'[o], stamps'[o],
                 astray'[o], Len(log'))
  BY <1>1, <1>9, <1>11, <1>12, <1>13, Zenon DEF L
<1> QED BY <1>2, <1>10, <1>11, <1>12, <1>13, <1>14, OneNode, Zenon

(* A restarted orderer reads a chunk before its position again, which cuts *)
(* no block.                                                               *)
LEMMA HcsRecollect ==
  ASSUME HcsInv, NEW o \in Orderers, Recollect(o)
  PROVE  HcsInv'
<1> DEFINE c    == chain[o]
           L    == Len(log)
           ch   == log[c.lastSequenceProcessed + 1]
           g    == collect(c, ch).chain
           msg  == collect(c, ch).message
           seq  == g.lastSequenceProcessed
           re   == recollect[o]
           done == msg # NoMessage /\ seq = re
<1>1. /\ status[o] = "up" /\ re # 0 /\ c.lastSequenceProcessed < L
      /\ Recollected(o, msg, g)
      /\ UNCHANGED <<topic, calls, durable, stamps, astray>>
  BY Zenon DEF Recollect
<1>2. /\ TopicOK(log, late) /\ CallsOK(calls) /\ L \in Nat
      /\ IsFcn(chain) /\ IsFcn(durable) /\ IsFcn(status) /\ IsFcn(recollect)
      /\ IsFcn(stamps) /\ IsFcn(astray)
      /\ OrdererOK(c, durable[o], "up", re, stamps[o], astray[o], L)
  BY <1>1, SeqFacts, Zenon DEF HcsInv, NodesOK, TopicOK
<1>3. ChainOK(c, L) /\ Typed(ch.body)
  <2>1. ChainOK(c, L)
    BY <1>2 DEF OrdererOK
  <2>2. c.lastSequenceProcessed \in 0 .. L
    BY <1>2, <2>1, ChainPositions, Zenon
  <2>3. IsSeq(log)
    BY <1>2, Zenon DEF TopicOK
  <2>4. c.lastSequenceProcessed + 1 \in DOMAIN log
    BY <1>1, <2>2, <2>3, NextInTopic, Zenon
  <2> QED BY <1>2, <2>1, <2>4, Zenon DEF TopicOK
<1>4. /\ chain' = [chain EXCEPT ![o] = g]
      /\ recollect' = IF done THEN [recollect EXCEPT ![o] = 0] ELSE recollect
      /\ status' = IF msg # NoMessage /\ seq > re
                     THEN [status EXCEPT ![o] = "overran"] ELSE status
  <2> HIDE DEF g, msg
  <2> QED BY <1>1, Zenon DEF Recollected
<1> HIDE DEF c, L, ch
<1>e. g = collect(c, ch).chain /\ msg = collect(c, ch).message
  BY Zenon
<1> HIDE DEF g, msg, re
<1>5. ChainOK(g, L) /\ g.blocks = c.blocks /\ g.receiver = c.receiver
  <2>1. Collects(c, g, msg, L)
    BY <1>e, <1>1, <1>2, <1>3, CollectOK, Zenon
  <2> QED BY <2>1, Zenon DEF Collects
<1>6. /\ IsFcn(chain') /\ chain'[o] = g /\ \A p \in Orderers : p # o => chain'[p] = chain[p]
  <2>1. Updated(chain', chain, o, g)
    BY <1>2, <1>4, FcnUpdated, Zenon
  <2> QED BY <2>1, Zenon DEF Updated
<1>7. /\ IsFcn(recollect') /\ recollect'[o] = IF done THEN 0 ELSE re
      /\ \A p \in Orderers : p # o => recollect'[p] = recollect[p]
  <2>1. CASE done
    <3>1. recollect' = [recollect EXCEPT ![o] = 0]
      BY <1>4, <2>1, Zenon
    <3>2. Updated(recollect', recollect, o, 0)
      BY <1>2, <3>1, FcnUpdated, Zenon
    <3> QED BY <2>1, <3>2, Zenon DEF Updated
  <2>2. CASE ~done
    BY <1>2, <1>4, <2>2, Zenon DEF re
  <2> QED BY <2>1, <2>2, Zenon
<1>8. /\ IsFcn(status') /\ status'[o] \in {"up", "overran"}
      /\ \A p \in Orderers : p # o => status'[p] = status[p]
  <2>1. CASE status' = status
    BY <1>1, <1>2, <2>1, Zenon
  <2>2. CASE status' = [status EXCEPT ![o] = "overran"]
    <3> DEFINE st == "overran"
    <3>1. status' = [status EXCEPT ![o] = st]
      BY <2>2
    <3> HIDE DEF st
    <3>2. Updated(status', status, o, st)
      BY <1>2, <3>1, FcnUpdated, Zenon
    <3> QED BY <3>2, Zenon DEF Updated, st
  <2> QED BY <1>4, <2>1, <2>2, Zenon
<1>9. durable' = durable /\ stamps' = stamps /\ astray' = astray /\ calls' = calls
      /\ TopicGrows /\ log' = log
  BY <1>1, <1>2, TopicKept, Zenon DEF topic
<1>10. OrdererOK(g, durable[o], status'[o], IF done THEN 0 ELSE re, stamps[o],
                 astray[o], L)
  <2>1. re = Persisted(g.blocks)
    BY <1>1, <1>2, <1>5, Zenon DEF OrdererOK
  <2>2. durable[o] \in 0 .. Len(g.blocks) /\ IsSeq(stamps[o]) /\ Len(stamps[o]) = Len(g.blocks)
    BY <1>2, <1>5, Zenon DEF OrdererOK
  <2>3. ASSUME astray[o] = 0
        PROVE  InLineUpTo(g, Persisted(g.blocks)) /\ \E m \in Nat : InLineUpTo(g, m)
    BY <1>1, <1>2, <1>5, <2>3, Zenon DEF OrdererOK, InLineUpTo
  <2>4. CASE done
    BY <1>5, <1>8, <2>1, <2>2, <2>3, <2>4, Zenon DEF OrdererOK, Statuses
  <2>5. CASE ~done
    BY <1>1, <1>5, <1>8, <2>1, <2>2, <2>3, <2>5, Zenon DEF OrdererOK, Statuses
  <2> QED BY <2>4, <2>5, Zenon
<1>11. OrdererOK(chain'[o], durable'[o], status'[o], recollect'[o], stamps'[o],
                 astray'[o], Len(log'))
  BY <1>6, <1>7, <1>9, <1>10, Zenon DEF L
<1> QED BY <1>2, <1>6, <1>7, <1>8, <1>9, <1>11, OneNode

-----------------------------------------------------------------------------
(* Crashes and restarts.                                                   *)

(* What a chain starts from.                                               *)
LEMMA NewChainOK ==
  ASSUME NEW L \in Nat, NEW blocks, BlocksOK(blocks, L), NEW c, c = newChain(blocks)
  PROVE  /\ ChainOK(c, L) /\ c.blocks = blocks /\ c.receiver.pendingBatch = <<>>
         /\ c.lastSequenceProcessed = c.lastChunkFree
<1> DEFINE last == IF blocks = <<>>
                     THEN [persisted |-> 0, original |-> 0, chunkFree |-> 0]
                     ELSE blocks[Len(blocks)]
           n == last.chunkFree
           hs == {}
           k == Cardinality({i \in DOMAIN blocks : blocks[i].config})
<1>1. n \in 0 .. L
  <2>1. CASE blocks = <<>>
    BY <2>1
  <2>2. CASE blocks # <<>>
    <3>1. Len(blocks) \in DOMAIN blocks
      BY <2>2, SeqFacts DEF BlocksOK
    <3> QED BY <2>2, <3>1, Zenon DEF BlocksOK
  <2> QED BY <2>1, <2>2, Zenon
<1>2. Makes(c, n, n, 0, last.original, k, NewReceiver, hs, newAppMsgProcessor, blocks)
  BY DEF newChain, Makes, ChainOf
<1> HIDE DEF n, last, k, hs
<1>3. n \in 0 .. n /\ 0 \in 0 .. n
  BY <1>1
<1>4. ReceiverOK(NewReceiver) /\ NewReceiver.pendingBatch = <<>>
      /\ hs = HashesOf(NewReceiver.pendingBatch)
  BY EmptyReceiver, HashesOfBatches, Zenon DEF hs
<1>5. ChainOK(c, L)
  BY <1>1, <1>2, <1>3, <1>4, NewProcessorTyped, ChainIsOK, Zenon
<1>6. /\ c.lastSequenceProcessed = n /\ c.lastChunkFree = n
      /\ c.receiver = NewReceiver /\ c.blocks = blocks
  BY <1>2, ChainFields
<1> QED BY <1>4, <1>5, <1>6, Zenon

(* The blocks up to one that holds no message after its timestamp are in   *)
(* line up to that timestamp.                                              *)
LEMMA LineShortened ==
  ASSUME NEW blocks, NEW batch, NEW m \in Nat, InLine(blocks, batch, m),
         NEW d \in 0 .. Len(blocks), NEW L, BlocksOK(blocks, L),
         d # 0 => AtMost(blocks[d].txs, blocks[d].persisted),
         NEW bs, bs = SubSeq(blocks, 1, d)
  PROVE  InLine(bs, <<>>, Persisted(bs))
<1>0. /\ IsSeq(blocks) /\ Len(blocks) \in Nat /\ DOMAIN blocks = 1 .. Len(blocks)
  BY SeqFacts, Zenon DEF InLine
<1>1. /\ IsSeq(bs) /\ Len(bs) = d /\ DOMAIN bs = 1 .. d
      /\ \A i \in 1 .. d : bs[i] = blocks[i]
      /\ bs = <<>> <=> d = 0
  <2>1. FirstOf(bs, blocks, d)
    BY <1>0, Shortened, Zenon
  <2>2. IsSeq(bs) /\ Len(bs) = d /\ DOMAIN bs = 1 .. d /\ \A i \in 1 .. d : bs[i] = blocks[i]
    BY <2>1, Zenon DEF FirstOf
  <2> QED BY <2>2, SeqFacts, Zenon
<1>2. CASE d = 0
  BY <1>1, <1>2, EmptyBatch DEF InLine
<1>3. CASE d # 0
  <2> DEFINE b == blocks[d]
             s == b.txs
             n == b.persisted
  <2>1. d \in DOMAIN blocks /\ bs[d] = b /\ Persisted(bs) = n /\ n \in Nat
    BY <1>0, <1>1, <1>3 DEF Persisted, BlocksOK
  <2>2. /\ Numbered(s) /\ 1 \in DOMAIN s /\ s[1].seq <= n /\ s[1].seq \in Nat
        /\ AtMost(s, n)
    <3>1. Numbered(s) /\ s # <<>> /\ AtMost(s, n)
      BY <1>3, <2>1, Zenon DEF InLine, BlockInLine
    <3>2. 1 \in DOMAIN s
      BY <3>1, SeqFacts DEF Numbered
    <3> QED BY <3>1, <3>2, Zenon DEF Numbered, AtMost
  <2>3. ASSUME NEW i \in 1 .. d PROVE BlockInLine(bs[i], n)
    <3>0. i \in DOMAIN blocks /\ bs[i] = blocks[i]
      BY <1>0, <1>1
    <3>1. BlockInLine(blocks[i], m)
      BY <3>0, Zenon DEF InLine
    <3>2. AtMost(blocks[i].txs, n)
      <4>1. CASE i = d
        BY <2>2, <4>1, Zenon
      <4>2. CASE i # d
        <5>1. Before(blocks[i].txs, s)
          BY <2>1, <3>0, <4>2 DEF InLine
        <5>2. \A a \in DOMAIN blocks[i].txs :
                blocks[i].txs[a].seq < s[1].seq /\ blocks[i].txs[a].seq \in Nat
          BY <2>2, <3>1, <5>1, Zenon DEF Before, BlockInLine, Numbered
        <5> QED BY <2>1, <2>2, <5>2, WithinBound, Zenon
      <4> QED BY <4>1, <4>2, Zenon
    <3> QED BY <3>0, <3>1, <3>2, Zenon DEF BlockInLine
  <2>4. ASSUME NEW i \in 1 .. d, NEW j \in 1 .. d, i < j
        PROVE  Before(bs[i].txs, bs[j].txs)
    <3>1. i \in DOMAIN blocks /\ j \in DOMAIN blocks /\ bs[i] = blocks[i] /\ bs[j] = blocks[j]
      BY <1>0, <1>1
    <3> QED BY <2>4, <3>1, Zenon DEF InLine
  <2> HIDE DEF n
  <2> QED BY <1>1, <2>1, <2>3, <2>4, EmptyBatch, Zenon DEF InLine
<1> QED BY <1>2, <1>3, Zenon

(* A crash keeps the blocks on disk, in topic order up to where the        *)
(* restarted chain resumes.                                                *)
LEMMA HcsCrash ==
  ASSUME HcsInv, NEW o \in Orderers, Crash(o)
  PROVE  HcsInv'
<1> DEFINE c == chain[o]
           L == Len(log)
<1>1. PICK d \in {Len(c.blocks) - 1, Len(c.blocks)} :
        /\ d >= durable[o]
        /\ durable' = [durable EXCEPT ![o] = d]
        /\ astray' = [astray EXCEPT ![o] = IF @ = 0 /\ ~Resumable(o, d) THEN d ELSE @]
        /\ chain' = [chain EXCEPT ![o] = newChain(SubSeq(@.blocks, 1, d))]
        /\ stamps' = [stamps EXCEPT ![o] = SubSeq(@, 1, d)]
  BY Zenon DEF Crash
<1>2. /\ status' = [status EXCEPT ![o] = "down"] /\ UNCHANGED <<topic, recollect>>
      /\ calls' = [x \in DOMAIN calls |->
                     IF calls[x] = Idle \/ calls[x].orderer # o THEN calls[x]
                     ELSE IF x \in Orderers THEN Idle
                     ELSE [calls[x] EXCEPT !.stage = "done"]]
  BY Zenon DEF Crash
<1>3. /\ TopicOK(log, late) /\ CallsOK(calls) /\ L \in Nat
      /\ IsFcn(chain) /\ IsFcn(durable) /\ IsFcn(status) /\ IsFcn(recollect)
      /\ IsFcn(stamps) /\ IsFcn(astray)
      /\ OrdererOK(c, durable[o], status[o], recollect[o], stamps[o], astray[o], L)
  BY SeqFacts DEF HcsInv, NodesOK, TopicOK
<1> DEFINE bs == SubSeq(c.blocks, 1, d)
           h  == newChain(bs)
           sp == SubSeq(stamps[o], 1, d)
           as == IF astray[o] = 0 /\ ~Resumable(o, d) THEN d ELSE astray[o]
           st == "down"
<1>4. /\ chain' = [chain EXCEPT ![o] = h] /\ durable' = [durable EXCEPT ![o] = d]
      /\ stamps' = [stamps EXCEPT ![o] = sp] /\ astray' = [astray EXCEPT ![o] = as]
      /\ status' = [status EXCEPT ![o] = st]
  BY <1>1, <1>2, Zenon
<1>5. /\ BlocksOK(c.blocks, L) /\ Len(c.blocks) \in Nat /\ d \in 0 .. Len(c.blocks)
      /\ DOMAIN c.blocks = 1 .. Len(c.blocks)
      /\ IsSeq(stamps[o]) /\ d \in 0 .. Len(stamps[o])
  <2>1. BlocksOK(c.blocks, L) /\ durable[o] \in 0 .. Len(c.blocks)
        /\ IsSeq(stamps[o]) /\ Len(stamps[o]) = Len(c.blocks)
    BY <1>3, Zenon DEF OrdererOK, ChainOK
  <2>2. Len(c.blocks) \in Nat /\ DOMAIN c.blocks = 1 .. Len(c.blocks)
    BY <2>1, SeqFacts, Zenon DEF BlocksOK
  <2> QED BY <1>1, <2>1, <2>2
<1>6. /\ BlocksOK(bs, L) /\ Len(bs) = d /\ IsSeq(sp) /\ Len(sp) = d
  <2>1. /\ IsSeq(bs) /\ Len(bs) = d /\ DOMAIN bs = 1 .. d
        /\ \A i \in 1 .. d : bs[i] = c.blocks[i]
    <3>1. IsSeq(c.blocks)
      BY <1>5 DEF BlocksOK
    <3>2. FirstOf(bs, c.blocks, d)
      BY <1>5, <3>1, Shortened, Zenon
    <3> QED BY <3>2, Zenon DEF FirstOf
  <2>2. IsSeq(sp) /\ Len(sp) = d
    <3>1. FirstOf(sp, stamps[o], d)
      BY <1>5, Shortened, Zenon
    <3> QED BY <3>1, Zenon DEF FirstOf
  <2> QED BY <1>5, <2>1, <2>2 DEF BlocksOK
<1>7. ASSUME as = 0 PROVE InLine(bs, <<>>, Persisted(bs))
  <2>1. astray[o] = 0 /\ Resumable(o, d)
    BY <1>7 DEF Resumable
  <2>2. PICK m \in Nat : InLine(c.blocks, c.receiver.pendingBatch, m)
    BY <1>3, <2>1, Zenon DEF OrdererOK, InLineUpTo
  <2>3. ASSUME d # 0 PROVE AtMost(c.blocks[d].txs, c.blocks[d].persisted)
    <3>1. \A tx \in Range(c.blocks[d].txs) : tx.seq <= c.blocks[d].persisted
      BY <2>1, <2>3, Zenon DEF Resumable
    <3> QED BY <3>1, Zenon DEF AtMost, Range
  <2>4. /\ m \in Nat /\ InLine(c.blocks, c.receiver.pendingBatch, m)
        /\ BlocksOK(c.blocks, L) /\ d \in 0 .. Len(c.blocks)
    BY <1>5, <2>2, Zenon
  <2> HIDE DEF L, as
  <2> QED BY <2>3, <2>4, LineShortened, Zenon
<1> HIDE DEF bs, sp, as
<1>8. /\ ChainOK(h, L) /\ h.blocks = bs /\ h.receiver.pendingBatch = <<>>
      /\ h.lastSequenceProcessed = h.lastChunkFree
  <2>1. L \in Nat /\ BlocksOK(bs, L)
    BY <1>3, <1>6
  <2> HIDE DEF L
  <2> QED BY <2>1, NewChainOK, Zenon
<1>9. Persisted(bs) \in Nat
  BY <1>3, <1>6, PersistedNumber, Zenon
<1> HIDE DEF h
<1>10. OrdererOK(h, d, st, recollect[o], sp, as, L)
  <2>1. d \in 0 .. Len(h.blocks)
    BY <1>5, <1>6, <1>8
  <2>2. as = 0 => InLineUpTo(h, Persisted(h.blocks))
    BY <1>7, <1>8, Zenon DEF InLineUpTo
  <2> QED BY <1>6, <1>8, <1>9, <2>1, <2>2, Zenon DEF OrdererOK, Statuses
<1> HIDE DEF st
<1>11. CallsOK(calls')
  <2>1. calls' = [x \in Callers |-> calls'[x]]
    BY <1>2, <1>3, Zenon DEF CallsOK
  <2>2. ASSUME NEW x \in Callers PROVE CallOK(calls'[x])
    <3>1. CallOK(calls[x]) /\ CallOK(Idle)
      BY <1>3, Zenon DEF CallsOK, CallOK
    <3>2. calls'[x] = IF calls[x] = Idle \/ calls[x].orderer # o THEN calls[x]
                      ELSE IF x \in Orderers THEN Idle
                      ELSE [calls[x] EXCEPT !.stage = "done"]
      BY <1>2, <1>3, Zenon DEF CallsOK
    <3>3. CASE calls[x] # Idle
      BY <3>1, <3>2, <3>3, CallDone, Zenon
    <3> QED BY <3>1, <3>2, <3>3, Zenon
  <2> QED BY <2>1, <2>2, Zenon DEF CallsOK
<1>12. TopicGrows /\ log' = log /\ recollect' = recollect
  BY <1>2, <1>3, TopicKept, Zenon DEF topic
<1>13. /\ IsFcn(chain') /\ chain'[o] = h /\ \A p \in Orderers : p # o => chain'[p] = chain[p]
       /\ IsFcn(stamps') /\ stamps'[o] = sp /\ \A p \in Orderers : p # o => stamps'[p] = stamps[p]
       /\ IsFcn(status') /\ status'[o] = st /\ \A p \in Orderers : p # o => status'[p] = status[p]
  <2>1. Updated(chain', chain, o, h)
    BY <1>3, <1>4, FcnUpdated, Zenon
  <2>2. Updated(stamps', stamps, o, sp)
    BY <1>3, <1>4, FcnUpdated, Zenon
  <2>3. Updated(status', status, o, st)
    BY <1>3, <1>4, FcnUpdated, Zenon
  <2> QED BY <2>1, <2>2, <2>3, Zenon DEF Updated
<1>14. /\ IsFcn(durable') /\ durable'[o] = d /\ \A p \in Orderers : p # o => durable'[p] = durable[p]
       /\ IsFcn(astray') /\ astray'[o] = as /\ \A p \in Orderers : p # o => astray'[p] = astray[p]
  <2>1. Updated(durable', durable, o, d)
    BY <1>3, <1>4, FcnUpdated, Zenon
  <2>2. Updated(astray', astray, o, as)
    BY <1>3, <1>4, FcnUpdated, Zenon
  <2> QED BY <2>1, <2>2, Zenon DEF Updated
<1>15. OrdererOK(chain'[o], durable'[o], status'[o], recollect'[o], stamps'[o],
                 astray'[o], Len(log'))
  BY <1>10, <1>12, <1>13, <1>14, Zenon DEF L
<1>16. /\ IsFcn(durable') /\ IsFcn(recollect') /\ IsFcn(astray')
       /\ \A p \in Orderers \ {o} :
            /\ chain'[p] = chain[p] /\ durable'[p] = durable[p]
            /\ status'[p] = status[p] /\ recollect'[p] = recollect[p]
            /\ stamps'[p] = stamps[p] /\ astray'[p] = astray[p]
       /\ OrdererOK(chain'[o], durable'[o], status'[o], recollect'[o], stamps'[o],
                    astray'[o], Len(log'))
  BY <1>3, <1>12, <1>13, <1>14, <1>15, Zenon
<1>17. IsFcn(chain') /\ IsFcn(status') /\ IsFcn(stamps')
  BY <1>13, Zenon
<1>18. TopicGrows
  BY <1>12, Zenon
<1> QED BY <1>11, <1>16, <1>17, <1>18, OneNode, Zenon

(* A restart resumes at the position the last block recorded.              *)
LEMMA HcsRestart ==
  ASSUME HcsInv, NEW o \in Orderers, Restart(o)
  PROVE  HcsInv'
<1> DEFINE c == chain[o]
           L == Len(log)
           P == Persisted(c.blocks)
           f == c.lastChunkFree
           ch == chunk(o, newOrdererStartedMessage(o), freshKey(o), 0)
           re == IF P = f THEN 0 ELSE P
<1>1. /\ status[o] = "down"
      /\ UNCHANGED <<calls, chain, durable, stamps, astray>>
      /\ \/ /\ f > P /\ UNCHANGED <<topic, recollect>>
            /\ status' = [status EXCEPT ![o] = "refused"]
         \/ /\ ~(f > P) /\ Submit(ch)
            /\ status' = [status EXCEPT ![o] = "up"]
            /\ recollect' = [recollect EXCEPT ![o] = re]
  BY Zenon DEF Restart, Persisted
<1>2. /\ TopicOK(log, late) /\ CallsOK(calls') /\ L \in Nat
      /\ IsFcn(chain) /\ IsFcn(durable) /\ IsFcn(status) /\ IsFcn(recollect)
      /\ IsFcn(stamps) /\ IsFcn(astray)
      /\ OrdererOK(c, durable[o], "down", recollect[o], stamps[o], astray[o], L)
  BY <1>1, SeqFacts, Zenon DEF HcsInv, NodesOK, TopicOK
<1>3. /\ P \in Nat /\ f \in Nat /\ c.lastSequenceProcessed = f
  <2>1. ChainOK(c, L) /\ c.lastSequenceProcessed = f
    BY <1>2, DownOrderer, Zenon
  <2>2. BlocksOK(c.blocks, L) /\ f \in Nat
    BY <1>2, <2>1, ChainPositions, Zenon
  <2>3. P \in Nat
    BY <1>2, <2>2, PersistedNumber, Zenon
  <2> QED BY <2>1, <2>2, <2>3, Zenon
<1> HIDE DEF ch
<1>4. CASE f > P /\ UNCHANGED <<topic, recollect>> /\ status' = [status EXCEPT ![o] = "refused"]
  <2> DEFINE st == "refused"
  <2>1. TopicGrows /\ log' = log
    BY <1>2, <1>4, TopicKept, Zenon DEF topic
  <2>2. OrdererOK(c, durable[o], st, recollect[o], stamps[o], astray[o], L)
    BY <1>2, Zenon DEF OrdererOK, Statuses
  <2>3. status' = [status EXCEPT ![o] = st]
    BY <1>4, Zenon
  <2> HIDE DEF st
  <2>4. IsFcn(status') /\ status'[o] = st /\ \A p \in Orderers : p # o => status'[p] = status[p]
    <3>1. Updated(status', status, o, st)
      BY <1>2, <2>3, FcnUpdated, Zenon
    <3> QED BY <3>1, Zenon DEF Updated
  <2>5. OrdererOK(chain'[o], durable'[o], status'[o], recollect'[o], stamps'[o],
                  astray'[o], Len(log'))
    BY <1>1, <1>4, <2>1, <2>2, <2>4, Zenon
  <2> QED BY <1>1, <1>2, <1>4, <2>1, <2>4, <2>5, OneNode, Zenon
<1>5. CASE /\ ~(f > P) /\ Submit(ch)
           /\ status' = [status EXCEPT ![o] = "up"]
           /\ recollect' = [recollect EXCEPT ![o] = re]
  <2> DEFINE st == "up"
  <2>1. TopicGrows
    <3>1. Typed(ch.body)
      BY TimeToCutTyped, Zenon DEF ch
    <3> QED BY <1>2, <1>5, <3>1, SubmitGrows, Zenon
  <2>2. OrdererOK(c, durable[o], st, re, stamps[o], astray[o], L)
    <3>1. /\ re = 0 => c.lastSequenceProcessed = P
          /\ re # 0 => re = P
      BY <1>3, <1>5
    <3> HIDE DEF re
    <3>2. ASSUME astray[o] = 0
          PROVE  InLineUpTo(c, P) /\ \E m \in Nat : InLineUpTo(c, m)
      BY <1>2, <3>2, Zenon DEF OrdererOK
    <3> HIDE DEF P
    <3> QED BY <1>2, <3>1, <3>2, Zenon DEF OrdererOK, Statuses, P
  <2>3. status' = [status EXCEPT ![o] = st] /\ recollect' = [recollect EXCEPT ![o] = re]
    BY <1>5
  <2> HIDE DEF st, re
  <2>4. /\ IsFcn(status') /\ status'[o] = st
        /\ \A p \in Orderers : p # o => status'[p] = status[p]
        /\ IsFcn(recollect') /\ recollect'[o] = re
        /\ \A p \in Orderers : p # o => recollect'[p] = recollect[p]
    <3>1. Updated(status', status, o, st)
      BY <1>2, <2>3, FcnUpdated, Zenon
    <3>2. Updated(recollect', recollect, o, re)
      BY <1>2, <2>3, FcnUpdated, Zenon
    <3> QED BY <3>1, <3>2, Zenon DEF Updated
  <2>5. OrdererOK(c, durable[o], st, re, stamps[o], astray[o], Len(log'))
    BY <1>2, <2>1, <2>2, LongerTopic, Zenon DEF TopicGrows
  <2>6. OrdererOK(chain'[o], durable'[o], status'[o], recollect'[o], stamps'[o],
                  astray'[o], Len(log'))
    BY <1>1, <2>4, <2>5, Zenon
  <2> QED BY <1>1, <1>2, <2>1, <2>4, <2>6, OneNode, Zenon
<1> QED BY <1>1, <1>4, <1>5, Zenon

-----------------------------------------------------------------------------
(* The orderers start in a state of the invariant.                         *)
LEMMA HcsInit == Init => HcsInv
<1> SUFFICES ASSUME Init PROVE HcsInv
  BY Zenon
<1>1. TopicOK(log, late) /\ Len(log) = 0
  BY EmptySeq, Zenon DEF Init, TopicOK
<1>2. CallsOK(calls)
  BY DEF Init, CallsOK, CallOK, Callers
<1>3. ASSUME NEW o \in Orderers
      PROVE  OrdererOK(chain[o], durable[o], status[o], recollect[o], stamps[o],
                       astray[o], Len(log))
  <2> DEFINE b == <<>>
             c == newChain(b)
  <2>1. BlocksOK(b, 0) /\ Persisted(b) = 0 /\ Len(b) = 0 /\ IsSeq(b)
    BY EmptySeq DEF BlocksOK, Persisted
  <2>2. chain[o] = c /\ durable[o] = 0 /\ status[o] = "up" /\ recollect[o] = 0
        /\ stamps[o] = b /\ astray[o] = 0
    BY DEF Init
  <2>3. InLine(b, b, 0)
    BY EmptySeq, EmptyBatch, Zenon DEF InLine
  <2> HIDE DEF b
  <2>4. /\ ChainOK(c, 0) /\ c.blocks = b /\ c.receiver.pendingBatch = b
        /\ c.lastSequenceProcessed = c.lastChunkFree
    BY <2>1, NewChainOK, Zenon DEF b
  <2> HIDE DEF c
  <2>5. c.lastSequenceProcessed = 0
    BY <2>4 DEF ChainOK
  <2>6. InLineUpTo(c, 0)
    BY <2>3, <2>4, Zenon DEF InLineUpTo
  <2>7. OrdererOK(c, 0, "up", 0, b, 0, 0)
    BY <2>1, <2>4, <2>5, <2>6 DEF OrdererOK, Statuses
  <2> QED BY <1>1, <2>2, <2>7, Zenon
<1>4. /\ IsFcn(chain) /\ IsFcn(durable) /\ IsFcn(status) /\ IsFcn(recollect)
      /\ IsFcn(stamps) /\ IsFcn(astray)
  BY DEF Init, IsFcn
<1> QED BY <1>1, <1>2, <1>3, <1>4, Zenon DEF HcsInv, NodesOK

(* Every step of the network keeps the invariant.                          *)
LEMMA HcsStep == HcsInv /\ [Next]_vars => HcsInv'
<1> SUFFICES ASSUME HcsInv, [Next]_vars PROVE HcsInv'
  OBVIOUS
<1>1. ASSUME NEW e \in Envelopes, NEW o \in Brokers, Broadcast(e, o) PROVE HcsInv'
  <2>1. o \in Orderers
    BY HcsNetworkAssumption, Zenon
  <2> QED BY <1>1, <2>1, HcsBroadcast, Zenon
<1>2. ASSUME NEW e \in Envelopes, WaitReady(e) PROVE HcsInv'
  BY <1>2, HcsWaitReady, Zenon
<1>3. ASSUME NEW x \in Callers, SendChunk(x) \/ RetryChunk(x) \/ AbortSend(x)
      PROVE  HcsInv'
  BY <1>3, HcsSendChunk, HcsRetryChunk, HcsAbortSend, Zenon
<1>4. ASSUME NEW ch \in late, OrderLate(ch) PROVE HcsInv'
  BY <1>4, HcsOrderLate, Zenon
<1>5. ASSUME NEW o \in Orderers, Deliver(o) \/ Recollect(o) \/ Crash(o) \/ Restart(o)
      PROVE  HcsInv'
  BY <1>5, HcsDeliver, HcsRecollect, HcsCrash, HcsRestart, Zenon
<1>6. ASSUME NEW o \in Orderers, FireRecvTimer(o) \/ FireSendTimer(o) \/ Resubscribe(o)
      PROVE  HcsInv'
  BY <1>6, HcsTimers, Zenon
<1>7. CASE UNCHANGED vars
  <2>1. TopicGrows /\ CallsOK(calls')
    BY <1>7, TopicKept, Zenon DEF vars, topic, HcsInv
  <2> QED BY <1>7, <2>1, NodesKept, Zenon DEF vars
<1> QED BY <1>1, <1>2, <1>3, <1>4, <1>5, <1>6, <1>7, Zenon DEF Next, Callers

(* The inductive invariant of the HCS orderers: whatever the topic delays  *)
(* or repeats and whoever crashes, every chain is at a position within the *)
(* topic, its blocks and pending batch hold messages once and in topic     *)
(* order, and it resumes after a crash past everything its blocks hold.    *)
THEOREM HcsInvariant == Spec => []HcsInv
BY HcsInit, HcsStep, PTL DEF Spec

(* Every orderer, running or not, is in a legal state of its own: its      *)
(* position in the topic and the marks it keeps (lastChunkFree, lastOrder- *)
(* ered, the durable blocks) never run ahead of what it consumed.          *)
THEOREM HcsTypeOK == Spec => []TypeOK
<1>1. HcsInv => TypeOK
  BY Zenon DEF HcsInv, NodesOK, OrdererOK, ChainOK, Statuses, TypeOK
<1> QED BY <1>1, HcsInvariant, PTL

(* messageHashes holds exactly the hashes of the messages in the block     *)
(* cutter, whatever the order of messages, chunks, crashes and restarts,   *)
(* and also at an orderer that went astray.                                *)
THEOREM HcsHashesArePending == Spec => []HashesArePending
<1>1. HcsInv => HashesArePending
  BY Zenon DEF HcsInv, NodesOK, OrdererOK, ChainOK, HashesOf, HashesArePending
<1> QED BY <1>1, HcsInvariant, PTL

(* No message is put into the ledger twice or out of topic order: not by   *)
(* overflow or config messages that cut two blocks, and not by a restart   *)
(* from a resumable block, which reads the messages after its chunkFree    *)
(* mark again and processes those after its persisted timestamp.           *)
LEMMA LineIsLogOrder ==
  ASSUME NEW c, NEW m, InLineUpTo(c, m), NEW s,
         s = Append([i \in DOMAIN c.blocks |-> c.blocks[i].txs], c.receiver.pendingBatch),
         NEW i \in DOMAIN s, NEW j \in DOMAIN s, NEW a \in DOMAIN s[i],
         NEW b \in DOMAIN s[j], i < j \/ (i = j /\ a < b)
  PROVE  s[i][a].seq < s[j][b].seq
<1> DEFINE f == [k \in DOMAIN c.blocks |-> c.blocks[k].txs]
           P == c.receiver.pendingBatch
           n == Len(c.blocks)
<1>1. InLine(c.blocks, P, m)
  BY Zenon DEF InLineUpTo
<1>2. n \in Nat /\ DOMAIN c.blocks = 1 .. n
  BY <1>1, SeqFacts, Zenon DEF InLine
<1>3. IsSeq(f) /\ Len(f) = n
  <2>1. f = [k \in 1 .. n |-> f[k]]
    BY <1>2
  <2> HIDE DEF f
  <2> HIDE DEF n
  <2> QED BY <1>2, <2>1, SeqFromFunction, Zenon
<1>4. /\ DOMAIN s = 1 .. n + 1 /\ s[n + 1] = P
      /\ \A k \in 1 .. n : s[k] = f[k]
  <2> HIDE DEF f
  <2>1. s = Append(f, P)
    BY DEF f
  <2>2. OneLonger(s, f, P)
    BY <1>3, <2>1, Appended, Zenon
  <2> HIDE DEF n
  <2> QED BY <1>2, <1>3, <2>2, Zenon DEF OneLonger
<1>5. \A k \in DOMAIN s : \/ k \in DOMAIN c.blocks /\ s[k] = c.blocks[k].txs
                          \/ k = n + 1 /\ s[k] = P
  BY <1>2, <1>4
<1> HIDE DEF f, n
<1>6. CASE i < j
  <2>1. i \in DOMAIN c.blocks /\ s[i] = c.blocks[i].txs
    BY <1>2, <1>4, <1>5, <1>6
  <2>2. Before(s[i], s[j])
    BY <1>1, <1>5, <1>6, <2>1, Zenon DEF InLine
  <2> QED BY <2>2, Zenon DEF Before
<1>7. CASE i = j /\ a < b
  <2>1. Rises(s[i])
    BY <1>1, <1>5, Zenon DEF InLine, BlockInLine
  <2> QED BY <1>7, <2>1, Zenon DEF Rises
<1> QED BY <1>6, <1>7, Zenon

(* The messages in the blocks and the pending batch of an orderer are in   *)
(* the order of the topic and none is there twice, although a restarted    *)
(* orderer reads chunks again and clients submit messages again.           *)
THEOREM HcsLedgerInLogOrder == Spec => []LedgerInLogOrder
<1>1. ASSUME HcsInv, NEW o \in Orderers, astray[o] = 0
      PROVE  \E m : InLineUpTo(chain[o], m)
  BY <1>1 DEF HcsInv, NodesOK, OrdererOK
<1>2. HcsInv => LedgerInLogOrder
  BY <1>1, LineIsLogOrder, Zenon DEF LedgerInLogOrder
<1> QED BY <1>2, HcsInvariant, PTL
=============================================================================
