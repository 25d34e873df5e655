--------------------------- MODULE HcsChainProofs ---------------------------
(***************************************************************************)
(* One HCS orderer and the topic it reads, for any messages: what          *)
(* collecting a chunk and processing a message make of its chain.  The     *)
(* position and the marks in its blocks stay within the topic; a message   *)
(* is in a block or pending, once and in topic order; and messageHashes    *)
(* are the hashes of the pending batch.  HcsProofs lifts this to the       *)
(* network.                                                                *)
(***************************************************************************)
EXTENDS HcsNetwork, TLAPS

-----------------------------------------------------------------------------
(* Sequences.                                                              *)

IsSeq(s) == s \in Seq(Range(s))

(* A sequence has a length and is empty when that is 0.                    *)
LEMMA SeqFacts ==
  ASSUME NEW s, IsSeq(s)
  PROVE  /\ Len(s) \in Nat /\ DOMAIN s = 1 .. Len(s)
         /\ s = <<>> <=> Len(s) = 0
<1> DEFINE S == Range(s)
<1>1. s \in Seq(S)
  BY DEF IsSeq
<1> HIDE DEF S
<1> QED BY <1>1

(* A sequence over some set is one over its own elements.                  *)
LEMMA OwnRange == ASSUME NEW S, NEW s \in Seq(S) PROVE IsSeq(s)
<1>1. s \in Seq(Range(s))
  BY DEF Range
<1> QED BY <1>1 DEF IsSeq

(* The empty sequence.                                                     *)
LEMMA EmptySeq == IsSeq(<<>>) /\ Len(<<>>) = 0 /\ DOMAIN <<>> = {}
BY DEF IsSeq

(* A sequence with one more element.                                       *)
OneLonger(t, s, x) ==
  /\ IsSeq(t) /\ Len(t) = Len(s) + 1 /\ t # <<>>
  /\ Len(s) \in Nat /\ DOMAIN s = 1 .. Len(s) /\ DOMAIN t = 1 .. Len(s) + 1
  /\ \A i \in DOMAIN s : t[i] = s[i]
  /\ t[Len(s) + 1] = x

(* What Append makes of a sequence.                                        *)
LEMMA Appended ==
  ASSUME NEW s, IsSeq(s), NEW x, NEW t, t = Append(s, x)
  PROVE  OneLonger(t, s, x)
<1> DEFINE S == Range(s)
           T == S \cup {x}
<1>1. s \in Seq(S)
  BY DEF IsSeq
<1> HIDE DEF S
<1>2. s \in Seq(T) /\ x \in T
  BY <1>1
<1> HIDE DEF T
<1>3. /\ t \in Seq(T) /\ Len(t) = Len(s) + 1 /\ t # <<>>
      /\ Len(s) \in Nat /\ DOMAIN s = 1 .. Len(s) /\ DOMAIN t = 1 .. Len(s) + 1
      /\ \A i \in DOMAIN s : t[i] = s[i]
      /\ t[Len(s) + 1] = x
  BY <1>2
<1>4. IsSeq(t)
  BY <1>3, OwnRange, Zenon
<1> QED BY <1>3, <1>4, Zenon DEF OneLonger

(* One element is a sequence.                                              *)
LEMMA SingleSeq == \A x : IsSeq(<<x>>) /\ <<x>> # <<>>
<1> TAKE x
<1>1. Append(<<>>, x) = <<x>>
  OBVIOUS
<1> DEFINE t == <<x>>
<1> HIDE DEF t
<1>2. OneLonger(t, <<>>, x)
  BY <1>1, EmptySeq, Appended, Zenon DEF t
<1> QED BY <1>2, Zenon DEF OneLonger, t

(* The first elements of a sequence.                                       *)
FirstOf(t, s, k) == /\ IsSeq(t) /\ Len(t) = k /\ DOMAIN t = 1 .. k
                    /\ \A i \in 1 .. k : t[i] = s[i]

(* The first k elements of a sequence.                                     *)
LEMMA Shortened ==
  ASSUME NEW s, IsSeq(s), NEW k \in 0 .. Len(s), NEW t, t = SubSeq(s, 1, k)
  PROVE  FirstOf(t, s, k)
<1> DEFINE S == Range(s)
<1>1. s \in Seq(S)
  BY DEF IsSeq
<1> HIDE DEF S
<1>2. /\ t \in Seq(S) /\ Len(t) = k /\ DOMAIN t = 1 .. k
      /\ \A i \in 1 .. k : t[i] = s[i]
  BY <1>1
<1>3. IsSeq(t)
  BY <1>2, OwnRange, Zenon
<1> QED BY <1>2, <1>3, Zenon DEF FirstOf

(* A function on 1 .. n is a sequence.                                     *)
LEMMA SeqFromFunction ==
  ASSUME NEW n \in Nat, NEW f, f = [i \in 1 .. n |-> f[i]]
  PROVE  IsSeq(f) /\ Len(f) = n
<1> DEFINE S == Range(f)
<1>1. \A i \in 1 .. n : f[i] \in S
  BY DEF Range
<1> HIDE DEF S
<1>2. [i \in 1 .. n |-> f[i]] \in Seq(S) /\ Len([i \in 1 .. n |-> f[i]]) = n
  BY <1>1
<1> QED BY <1>2, Zenon DEF IsSeq, S

-----------------------------------------------------------------------------
(* The order of transactions.  A batch rises when its sequence numbers do, *)
(* one batch comes before another when all its numbers do.                 *)

Numbered(s) == IsSeq(s) /\ \A a \in DOMAIN s : s[a].seq \in Nat

Rises(s) == \A a, b \in DOMAIN s : a < b => s[a].seq < s[b].seq

Before(s, t) == \A a \in DOMAIN s, b \in DOMAIN t : s[a].seq < t[b].seq

AtMost(s, m) == \A a \in DOMAIN s : s[a].seq <= m

(* A later message may be appended to a batch.                             *)
LEMMA OneMore ==
  ASSUME NEW s, Numbered(s), NEW m \in Nat, AtMost(s, m), NEW tx, tx.seq \in Nat,
         m < tx.seq, NEW t, t = Append(s, tx)
  PROVE  /\ Numbered(t) /\ AtMost(t, tx.seq) /\ t # <<>>
         /\ Rises(s) => Rises(t)
         /\ \A b : Before(b, s) /\ Numbered(b) /\ AtMost(b, m) => Before(b, t)
<1>0. IsSeq(s)
  BY DEF Numbered
<1>a. OneLonger(t, s, tx)
  BY <1>0, Appended, Zenon
<1>1. /\ IsSeq(t) /\ t # <<>>
      /\ Len(s) \in Nat /\ DOMAIN s = 1 .. Len(s) /\ DOMAIN t = 1 .. Len(s) + 1
      /\ \A i \in DOMAIN s : t[i] = s[i]
      /\ t[Len(s) + 1] = tx
  BY <1>a, Zenon DEF OneLonger
<1>2. \A i \in DOMAIN t : (i \in DOMAIN s /\ t[i] = s[i]) \/ (i = Len(s) + 1 /\ t[i] = tx)
  BY <1>1
<1>3. \A i \in DOMAIN s : s[i].seq \in Nat /\ s[i].seq <= m
  BY DEF Numbered, AtMost
<1>4. Numbered(t)
  BY <1>1, <1>2, <1>3 DEF Numbered
<1>5. AtMost(t, tx.seq)
  BY <1>2, <1>3 DEF AtMost
<1>6. ASSUME Rises(s) PROVE Rises(t)
  <2> SUFFICES ASSUME NEW a \in DOMAIN t, NEW b \in DOMAIN t, a < b
               PROVE  t[a].seq < t[b].seq
    BY DEF Rises
  <2>1. a \in DOMAIN s /\ t[a] = s[a]
    BY <1>1, <1>2
  <2>2. CASE b \in DOMAIN s /\ t[b] = s[b]
    BY <1>6, <2>1, <2>2 DEF Rises
  <2>3. CASE t[b] = tx
    BY <1>3, <2>1, <2>3
  <2> QED BY <1>2, <2>2, <2>3
<1>7. ASSUME NEW b, Before(b, s), Numbered(b), AtMost(b, m) PROVE Before(b, t)
  <2> SUFFICES ASSUME NEW i \in DOMAIN b, NEW j \in DOMAIN t
               PROVE  b[i].seq < t[j].seq
    BY DEF Before
  <2>1. b[i].seq \in Nat /\ b[i].seq <= m
    BY <1>7 DEF Numbered, AtMost
  <2>2. CASE j \in DOMAIN s /\ t[j] = s[j]
    BY <1>7, <2>2 DEF Before
  <2>3. CASE t[j] = tx
    BY <2>1, <2>3
  <2> QED BY <1>2, <2>2, <2>3
<1> QED BY <1>1, <1>4, <1>5, <1>6, <1>7

(* Blocks and then the batch hold rising sequence numbers, none above m;   *)
(* no block is empty or holds a message after the one it was cut at.       *)
BlockInLine(b, m) ==
  /\ Numbered(b.txs) /\ b.txs # <<>> /\ Rises(b.txs)
  /\ AtMost(b.txs, m) /\ AtMost(b.txs, b.cutAt) /\ b.cutAt \in Nat

InLine(blocks, batch, m) ==
  /\ IsSeq(blocks)
  /\ Numbered(batch) /\ Rises(batch) /\ AtMost(batch, m)
  /\ \A i \in DOMAIN blocks : BlockInLine(blocks[i], m)
  /\ \A i \in DOMAIN blocks : Before(blocks[i].txs, batch)
  /\ \A i, j \in DOMAIN blocks : i < j => Before(blocks[i].txs, blocks[j].txs)

(* The empty batch is in any order.                                        *)
LEMMA EmptyBatch ==
  Numbered(<<>>) /\ Rises(<<>>) /\ \A m, s : AtMost(<<>>, m) /\ Before(s, <<>>)
BY EmptySeq DEF Numbered, Rises, AtMost, Before

(* A larger bound.                                                         *)
LEMMA LaterLine ==
  ASSUME NEW blocks, NEW batch, NEW m \in Nat, InLine(blocks, batch, m),
         NEW n \in Nat, m <= n
  PROVE  InLine(blocks, batch, n)
<1>1. ASSUME NEW s, Numbered(s), AtMost(s, m) PROVE AtMost(s, n)
  BY <1>1 DEF Numbered, AtMost
<1>2. AtMost(batch, n)
  BY <1>1 DEF InLine
<1>3. ASSUME NEW i \in DOMAIN blocks PROVE BlockInLine(blocks[i], n)
  <2>1. BlockInLine(blocks[i], m)
    BY DEF InLine
  <2> QED BY <1>1, <2>1 DEF BlockInLine
<1> QED BY <1>2, <1>3 DEF InLine

(* A later message joins the batch.                                        *)
LEMMA BatchExtended ==
  ASSUME NEW blocks, NEW batch, NEW m \in Nat, InLine(blocks, batch, m),
         NEW n \in Nat, m < n, NEW tx, tx.seq = n
  PROVE  InLine(blocks, Append(batch, tx), n) /\ Append(batch, tx) # <<>>
<1> DEFINE t == Append(batch, tx)
<1>1. /\ Numbered(batch) /\ AtMost(batch, m) /\ Rises(batch)
  BY DEF InLine
<1>2. /\ Numbered(t) /\ AtMost(t, n) /\ t # <<>> /\ Rises(t)
      /\ \A b : Before(b, batch) /\ Numbered(b) /\ AtMost(b, m) => Before(b, t)
  BY <1>1, OneMore, Zenon
<1>3. InLine(blocks, batch, n)
  BY LaterLine
<1> HIDE DEF t
<1>4. \A i \in DOMAIN blocks : Before(blocks[i].txs, t)
  BY <1>2, Zenon DEF InLine, BlockInLine
<1>5. InLine(blocks, t, n)
  BY <1>2, <1>3, <1>4 DEF InLine
<1> QED BY <1>2, <1>5 DEF t

(* The batch becomes a block.                                              *)
LEMMA BatchBecomesBlock ==
  ASSUME NEW blocks, NEW batch, NEW m \in Nat, InLine(blocks, batch, m),
         batch # <<>>, NEW b, b.txs = batch, b.cutAt \in Nat, m <= b.cutAt
  PROVE  InLine(Append(blocks, b), <<>>, m)
<1> DEFINE t == Append(blocks, b)
<1>0. IsSeq(blocks) /\ t = Append(blocks, b)
  BY DEF InLine
<1> HIDE DEF t
<1>a. OneLonger(t, blocks, b)
  BY <1>0, Appended, Zenon
<1>1. /\ IsSeq(t) /\ Len(blocks) \in Nat /\ DOMAIN blocks = 1 .. Len(blocks)
      /\ DOMAIN t = 1 .. Len(blocks) + 1
      /\ \A i \in DOMAIN blocks : t[i] = blocks[i]
      /\ t[Len(blocks) + 1] = b
  BY <1>a, Zenon DEF OneLonger
<1>2. \A i \in DOMAIN t : \/ i \in DOMAIN blocks /\ t[i] = blocks[i]
                          \/ i = Len(blocks) + 1 /\ t[i] = b
  BY <1>1
<1>3. BlockInLine(b, m)
  <2>1. Numbered(batch) /\ Rises(batch) /\ AtMost(batch, m)
    BY DEF InLine
  <2>2. AtMost(batch, b.cutAt)
    BY <2>1 DEF Numbered, AtMost
  <2> QED BY <2>1, <2>2 DEF BlockInLine
<1>4. \A i \in DOMAIN t : BlockInLine(t[i], m)
  BY <1>2, <1>3 DEF InLine
<1>5. ASSUME NEW i \in DOMAIN t, NEW j \in DOMAIN t, i < j
      PROVE  Before(t[i].txs, t[j].txs)
  <2>1. i \in DOMAIN blocks /\ t[i] = blocks[i]
    BY <1>1, <1>5
  <2>2. CASE j \in DOMAIN blocks /\ t[j] = blocks[j]
    BY <1>5, <2>1, <2>2 DEF InLine
  <2>3. CASE t[j] = b
    BY <2>1, <2>3 DEF InLine
  <2> QED BY <1>2, <2>2, <2>3
<1>6. InLine(t, <<>>, m)
  BY <1>1, <1>4, <1>5, EmptyBatch DEF InLine
<1> QED BY <1>6 DEF t

(* A later message becomes a block of its own.                             *)
LEMMA MessageBecomesBlock ==
  ASSUME NEW blocks, NEW m \in Nat, InLine(blocks, <<>>, m), NEW n \in Nat, m < n,
         NEW tx, tx.seq = n, NEW b, b.txs = <<tx>>, b.cutAt = n
  PROVE  InLine(Append(blocks, b), <<>>, n)
<1> DEFINE t == Append(<<>>, tx)
<1>1. InLine(blocks, t, n) /\ t # <<>>
  BY BatchExtended, Zenon
<1>2. b.txs = t /\ b.cutAt \in Nat /\ n <= b.cutAt
  OBVIOUS
<1> HIDE DEF t
<1> QED BY <1>1, <1>2, BatchBecomesBlock, Zenon

-----------------------------------------------------------------------------
(* How blocks and batch grow.  blocks and batch become bs and b2 at the    *)
(* message n of a topic of length L.                                       *)

BlocksOK(blocks, L) ==
  /\ IsSeq(blocks)
  /\ \A i \in DOMAIN blocks :
       blocks[i].persisted \in 0 .. L /\ blocks[i].chunkFree \in 0 .. L

Marked(b, n, L) == /\ b.persisted \in 0 .. L /\ b.chunkFree \in 0 .. L
                    /\ b.cutAt = n

Grown(blocks, batch, bs, b2, n, L) ==
  /\ BlocksOK(bs, L) /\ Len(bs) >= Len(blocks)
  /\ \A m \in Nat : m < n /\ InLine(blocks, batch, m) => InLine(bs, b2, n)

(* A block with marks within the topic may be appended.                    *)
LEMMA BlockAppended ==
  ASSUME NEW L, NEW blocks, BlocksOK(blocks, L), NEW n, NEW b, Marked(b, n, L)
  PROVE  /\ BlocksOK(Append(blocks, b), L) /\ Len(Append(blocks, b)) = Len(blocks) + 1
         /\ Len(blocks) \in Nat
<1> DEFINE t == Append(blocks, b)
<1>0. IsSeq(blocks) /\ t = Append(blocks, b)
  BY DEF BlocksOK
<1> HIDE DEF t
<1>a. OneLonger(t, blocks, b)
  BY <1>0, Appended, Zenon
<1>1. /\ IsSeq(t) /\ Len(t) = Len(blocks) + 1 /\ Len(blocks) \in Nat
      /\ DOMAIN blocks = 1 .. Len(blocks) /\ DOMAIN t = 1 .. Len(blocks) + 1
      /\ \A i \in DOMAIN blocks : t[i] = blocks[i]
      /\ t[Len(blocks) + 1] = b
  BY <1>a, Zenon DEF OneLonger
<1>2. \A i \in DOMAIN t : (i \in DOMAIN blocks /\ t[i] = blocks[i]) \/ t[i] = b
  BY <1>1
<1>3. BlocksOK(t, L)
  BY <1>1, <1>2 DEF BlocksOK, Marked
<1> QED BY <1>1, <1>3 DEF t

(* A message that is dropped leaves blocks and batch alone.                *)
LEMMA GrownNot ==
  ASSUME NEW L, NEW n \in Nat, NEW blocks, BlocksOK(blocks, L), NEW batch
  PROVE  Grown(blocks, batch, blocks, batch, n, L)
<1>1. Len(blocks) \in Nat
  BY SeqFacts DEF BlocksOK
<1>2. ASSUME NEW m \in Nat, m < n, InLine(blocks, batch, m)
      PROVE  InLine(blocks, batch, n)
  BY <1>2, LaterLine
<1> QED BY <1>1, <1>2 DEF Grown

(* The message joins the batch.                                            *)
LEMMA GrownJoined ==
  ASSUME NEW L, NEW n \in Nat, NEW blocks, BlocksOK(blocks, L), NEW batch,
         NEW tx, tx.seq = n
  PROVE  Grown(blocks, batch, blocks, Append(batch, tx), n, L)
<1>1. Len(blocks) \in Nat
  BY SeqFacts DEF BlocksOK
<1>2. ASSUME NEW m \in Nat, m < n, InLine(blocks, batch, m)
      PROVE  InLine(blocks, Append(batch, tx), n)
  BY <1>2, BatchExtended
<1> QED BY <1>1, <1>2 DEF Grown

(* The batch becomes a block and the message the next batch.               *)
LEMMA GrownOverflowed ==
  ASSUME NEW L, NEW n \in Nat, NEW blocks, BlocksOK(blocks, L), NEW batch,
         batch # <<>>, NEW tx, tx.seq = n, NEW b, Marked(b, n, L), b.txs = batch
  PROVE  Grown(blocks, batch, Append(blocks, b), <<tx>>, n, L)
<1> DEFINE bs == Append(blocks, b)
<1>1. BlocksOK(bs, L) /\ Len(bs) = Len(blocks) + 1 /\ Len(blocks) \in Nat
  BY BlockAppended
<1>2. ASSUME NEW m \in Nat, m < n, InLine(blocks, batch, m)
      PROVE  InLine(bs, <<tx>>, n)
  <2>1. InLine(bs, <<>>, m)
    BY <1>2, BatchBecomesBlock DEF Marked
  <2> HIDE DEF bs
  <2>2. InLine(bs, Append(<<>>, tx), n)
    BY <1>2, <2>1, BatchExtended, Zenon
  <2> QED BY <2>2
<1> HIDE DEF bs
<1>3. Grown(blocks, batch, bs, <<tx>>, n, L)
  BY <1>1, <1>2 DEF Grown
<1> QED BY <1>3 DEF bs

(* The message completes the batch, which becomes a block.                 *)
LEMMA GrownFilled ==
  ASSUME NEW L, NEW n \in Nat, NEW blocks, BlocksOK(blocks, L), NEW batch,
         NEW tx, tx.seq = n, NEW b, Marked(b, n, L), b.txs = Append(batch, tx)
  PROVE  Grown(blocks, batch, Append(blocks, b), <<>>, n, L)
<1> DEFINE bs == Append(blocks, b)
           b2 == Append(batch, tx)
<1>1. BlocksOK(bs, L) /\ Len(bs) = Len(blocks) + 1 /\ Len(blocks) \in Nat
  BY BlockAppended
<1>2. ASSUME NEW m \in Nat, m < n, InLine(blocks, batch, m)
      PROVE  InLine(bs, <<>>, n)
  <2>1. InLine(blocks, b2, n) /\ b2 # <<>>
    BY <1>2, BatchExtended
  <2>2. b.txs = b2
    OBVIOUS
  <2> HIDE DEF b2
  <2> QED BY <2>1, <2>2, BatchBecomesBlock DEF Marked
<1> HIDE DEF bs
<1>3. Grown(blocks, batch, bs, <<>>, n, L)
  BY <1>1, <1>2 DEF Grown
<1> QED BY <1>3 DEF bs

(* With nothing pending the message becomes a block.                       *)
LEMMA GrownAlone ==
  ASSUME NEW L, NEW n \in Nat, NEW blocks, BlocksOK(blocks, L),
         NEW tx, tx.seq = n, NEW b, Marked(b, n, L), b.txs = <<tx>>
  PROVE  Grown(blocks, <<>>, Append(blocks, b), <<>>, n, L)
<1> DEFINE bs == Append(blocks, b)
<1>1. BlocksOK(bs, L) /\ Len(bs) = Len(blocks) + 1 /\ Len(blocks) \in Nat
  BY BlockAppended
<1>2. ASSUME NEW m \in Nat, m < n, InLine(blocks, <<>>, m)
      PROVE  InLine(bs, <<>>, n)
  BY <1>2, MessageBecomesBlock DEF Marked
<1> HIDE DEF bs
<1>3. Grown(blocks, <<>>, bs, <<>>, n, L)
  BY <1>1, <1>2 DEF Grown
<1> QED BY <1>3 DEF bs

(* The batch becomes a block and the message another one: an oversized or  *)
(* a configuration message.                                                *)
LEMMA GrownSeparated ==
  ASSUME NEW L, NEW n \in Nat, NEW blocks, BlocksOK(blocks, L), NEW batch,
         batch # <<>>, NEW tx, tx.seq = n, NEW b, Marked(b, n, L), b.txs = batch,
         NEW d, Marked(d, n, L), d.txs = <<tx>>
  PROVE  Grown(blocks, batch, Append(Append(blocks, b), d), <<>>, n, L)
<1> DEFINE b1 == Append(blocks, b)
           bs == Append(b1, d)
<1>1. BlocksOK(b1, L) /\ Len(b1) = Len(blocks) + 1 /\ Len(blocks) \in Nat
  BY BlockAppended
<1>2. ASSUME NEW m \in Nat, m < n, InLine(blocks, batch, m)
      PROVE  InLine(b1, <<>>, m)
  BY <1>2, BatchBecomesBlock DEF Marked
<1> HIDE DEF b1
<1>3. BlocksOK(bs, L) /\ Len(bs) = Len(b1) + 1
  BY <1>1, BlockAppended
<1>4. ASSUME NEW m \in Nat, m < n, InLine(blocks, batch, m)
      PROVE  InLine(bs, <<>>, n)
  BY <1>2, <1>4, MessageBecomesBlock DEF Marked
<1> HIDE DEF bs
<1>5. Grown(blocks, batch, bs, <<>>, n, L)
  BY <1>1, <1>3, <1>4 DEF Grown
<1> QED BY <1>5 DEF bs, b1

(* A time-to-cut message turns the batch into a block.                     *)
LEMMA GrownCut ==
  ASSUME NEW L, NEW n \in Nat, NEW blocks, BlocksOK(blocks, L), NEW batch,
         batch # <<>>, NEW b, Marked(b, n, L), b.txs = batch
  PROVE  Grown(blocks, batch, Append(blocks, b), <<>>, n, L)
<1> DEFINE bs == Append(blocks, b)
<1>1. BlocksOK(bs, L) /\ Len(bs) = Len(blocks) + 1 /\ Len(blocks) \in Nat
  BY BlockAppended
<1>2. ASSUME NEW m \in Nat, m < n, InLine(blocks, batch, m)
      PROVE  InLine(bs, <<>>, n)
  <2>1. InLine(bs, <<>>, m)
    BY <1>2, BatchBecomesBlock DEF Marked
  <2> HIDE DEF bs
  <2> QED BY <1>2, <2>1, LaterLine
<1> HIDE DEF bs
<1>3. Grown(blocks, batch, bs, <<>>, n, L)
  BY <1>1, <1>2 DEF Grown
<1> QED BY <1>3 DEF bs

-----------------------------------------------------------------------------
(* Messages and the reassembly of their chunks.  A regular message carries *)
(* an envelope.                                                            *)

Typed(msg) ==
  (msg.type \in {"normal", "config"})
    => /\ msg = [type |-> msg.type, env |-> msg.env, configSeq |-> msg.configSeq,
                 originalSeq |-> msg.originalSeq]
       /\ msg.env \in Envelopes

HolderTyped(h) ==
  /\ h = [chunks |-> h.chunks, count |-> h.count, received |-> h.received,
          app |-> h.app, timestamp |-> h.timestamp]
  /\ \A i \in DOMAIN h.chunks : Typed(h.chunks[i])

ProcessorTyped(p) == \A k \in DOMAIN p.holders : HolderTyped(p.holders[k])

(* newAppMsgProcessor holds no chunk.                                      *)
LEMMA NewProcessorTyped == ProcessorTyped(newAppMsgProcessor)
<1>1. newAppMsgProcessor.holders = [k \in {} |-> {}]
  BY DEF newAppMsgProcessor
<1> QED BY <1>1 DEF ProcessorTyped

(* Removing holders keeps the others typed.                                *)
LEMMA RemovedTyped ==
  ASSUME NEW p, ProcessorTyped(p), NEW keys
  PROVE  ProcessorTyped(removeHolders(p, keys))
<1> DEFINE q == removeHolders(p, keys)
           K == DOMAIN p.holders \ keys
<1>1. q.holders = [k \in K |-> p.holders[k]]
  BY DEF removeHolders, Restrict
<1> HIDE DEF q
<1>2. ProcessorTyped(q)
  BY <1>1 DEF ProcessorTyped
<1> QED BY <1>2 DEF q

(* The chunk joins its holder.                                             *)
LEMMA JoinedHolder ==
  ASSUME NEW h, HolderTyped(h), NEW f, NEW t
  PROVE  [h EXCEPT !.chunks = f, !.received = @ + 1, !.timestamp = t]
           = [chunks |-> f, count |-> h.count, received |-> h.received + 1,
              app |-> h.app, timestamp |-> t]
<1> DEFINE h1 == [h EXCEPT !.chunks = f]
           h2 == [h1 EXCEPT !.received = @ + 1]
           h3 == [h2 EXCEPT !.timestamp = t]
<1>1. h1 = [chunks |-> f, count |-> h.count, received |-> h.received,
            app |-> h.app, timestamp |-> h.timestamp]
  BY DEF HolderTyped
<1> HIDE DEF h1
<1>2. h2 = [chunks |-> f, count |-> h.count, received |-> h.received + 1,
            app |-> h.app, timestamp |-> h.timestamp]
  BY <1>1
<1> HIDE DEF h2
<1>3. h3 = [chunks |-> f, count |-> h.count, received |-> h.received + 1,
            app |-> h.app, timestamp |-> t]
  BY <1>2
<1> QED BY <1>3 DEF h1, h2

(* A chunk that is held belongs to a typed message, and its holder has it. *)
LEMMA HeldTyped ==
  ASSUME NEW p, ProcessorTyped(p), NEW c, Typed(c.body), NEW t
  PROVE  /\ ProcessorTyped(hold(p, c, t))
         /\ c.key \in DOMAIN hold(p, c, t).holders
         /\ c.index \in DOMAIN hold(p, c, t).holders[c.key].chunks
<1> DEFINE h == holderOf(p, c)
           f == [i \in DOMAIN h.chunks \cup {c.index} |->
                   IF i = c.index THEN c.body ELSE h.chunks[i]]
           j == [chunks |-> f, count |-> h.count, received |-> h.received + 1,
                 app |-> h.app, timestamp |-> t]
           K == DOMAIN p.holders \cup {c.key}
           q == hold(p, c, t)
<1>1. HolderTyped(h)
  <2>1. CASE c.key \in DOMAIN p.holders
    BY <2>1, Zenon DEF holderOf, ProcessorTyped
  <2>2. CASE c.key \notin DOMAIN p.holders
    BY <2>2 DEF holderOf, HolderTyped
  <2> QED BY <2>1, <2>2
<1>2. [h EXCEPT !.chunks = f, !.received = @ + 1, !.timestamp = t] = j
  <2> HIDE DEF h, f
  <2> QED BY <1>1, JoinedHolder, Zenon
<1>3. q.holders = [k \in K |-> IF k = c.key THEN j ELSE p.holders[k]]
  <2> HIDE DEF j
  <2> QED BY <1>2, Zenon DEF hold
<1> HIDE DEF q, h
<1>4. /\ c.index \in DOMAIN f
      /\ \A i \in DOMAIN f : Typed(f[i])
  BY <1>1 DEF HolderTyped
<1> HIDE DEF f
<1>5. HolderTyped(j) /\ j.chunks = f
  BY <1>4 DEF HolderTyped
<1> HIDE DEF j
<1>6. ProcessorTyped(q) /\ c.key \in DOMAIN q.holders /\ q.holders[c.key] = j
  BY <1>3, <1>5 DEF ProcessorTyped
<1> QED BY <1>4, <1>5, <1>6 DEF q

(* What chunks unmarshal to is what one of them was cut from.              *)
LEMMA UnwrappedTyped ==
  ASSUME NEW f, NEW i \in DOMAIN f, \A k \in DOMAIN f : Typed(f[k])
  PROVE  unwrap(f) = NoMessage \/ Typed(unwrap(f))
<1> DEFINE R == Range(f)
<1>1. f[i] \in R /\ \A b \in R : Typed(b)
  BY DEF Range
<1>2. unwrap(f) = NoMessage \/ unwrap(f) = CHOOSE b \in R : TRUE
  BY DEF unwrap
<1> HIDE DEF R
<1>3. (CHOOSE b \in R : TRUE) \in R
  BY <1>1, Zenon
<1> QED BY <1>1, <1>2, <1>3

(* What Reassemble returns is a message somebody sent, or nothing.         *)
LEMMA ReassembledTyped ==
  ASSUME NEW p, ProcessorTyped(p), NEW c, Typed(c.body), NEW t,
         NEW res, res = Reassemble(p, c, t)
  PROVE  ProcessorTyped(res.processor) /\ (res.message = NoMessage \/ Typed(res.message))
<1> DEFINE q == hold(p, c, t)
           h == q.holders[c.key]
<1>1. CASE ~isValidChunk(p, c)
  BY <1>1 DEF Reassemble
<1>2. CASE isValidChunk(p, c) /\ c.count = 1
  <2> DEFINE f == [i \in {0} |-> c.body]
  <2>1. ProcessorTyped(expireByTimestamp(p, t))
    BY RemovedTyped DEF expireByTimestamp
  <2>2. 0 \in DOMAIN f /\ \A k \in DOMAIN f : Typed(f[k])
    BY Zenon
  <2>3. res = [processor |-> expireByTimestamp(p, t), message |-> unwrap(f)]
    BY <1>2 DEF Reassemble
  <2> HIDE DEF f
  <2>4. unwrap(f) = NoMessage \/ Typed(unwrap(f))
    BY <2>2, UnwrappedTyped, Zenon
  <2> QED BY <2>1, <2>3, <2>4
<1>3. CASE isValidChunk(p, c) /\ c.count # 1
  <2>1. ProcessorTyped(q) /\ c.key \in DOMAIN q.holders /\ c.index \in DOMAIN h.chunks
    BY HeldTyped, Zenon
  <2>2. res = IF h.received = h.count
                THEN [processor |-> expireByTimestamp(removeHolders(q, {c.key}), t),
                      message   |-> unwrap(h.chunks)]
                ELSE [processor |-> expireByTimestamp(q, t), message |-> NoMessage]
    BY <1>3, Zenon DEF Reassemble
  <2> HIDE DEF q
  <2>3. ProcessorTyped(expireByTimestamp(q, t))
    BY <2>1, RemovedTyped, Zenon DEF expireByTimestamp
  <2>4. ProcessorTyped(expireByTimestamp(removeHolders(q, {c.key}), t))
    BY <2>1, RemovedTyped DEF expireByTimestamp
  <2>5. \A k \in DOMAIN h.chunks : Typed(h.chunks[k])
    BY <2>1, Zenon DEF ProcessorTyped, HolderTyped
  <2> HIDE DEF h
  <2>6. unwrap(h.chunks) = NoMessage \/ Typed(unwrap(h.chunks))
    BY <2>1, <2>5, UnwrappedTyped
  <2> QED BY <2>2, <2>3, <2>4, <2>6
<1> QED BY <1>1, <1>2, <1>3, Zenon

-----------------------------------------------------------------------------
(* The block cutter, as commitNormalMessage uses it.                       *)

ReceiverOK(r) == /\ IsSeq(r.pendingBatch)
                 /\ r.pendingBatch = <<>> => r = NewReceiver

(* The four answers of Ordered: the message joins the batch; it overflows  *)
(* the batch, which is cut, and starts the next; it fills the batch, which *)
(* is cut; the batch is cut and the message is a batch of its own.         *)
Joins(b, tx, res) ==
  /\ res.batches = <<>> /\ res.pending = TRUE
  /\ res.receiver.pendingBatch = Append(b, tx)

Overflows(b, tx, res) ==
  /\ res.batches = <<b>> /\ res.pending = TRUE
  /\ res.receiver.pendingBatch = <<tx>> /\ b # <<>>

Fills(b, tx, res) ==
  /\ res.batches = <<Append(b, tx)>> /\ res.pending = FALSE
  /\ res.receiver = NewReceiver

Separates(b, tx, res) ==
  /\ res.batches = <<b, <<tx>>>> /\ res.pending = FALSE
  /\ res.receiver = NewReceiver /\ b # <<>>

(* Append to a sequence of one.                                            *)
LEMMA AppendToOne == \A x, y : Append(<<x>>, y) = <<x, y>>
<1> TAKE x, y
<1> DEFINE s == Append(<<x>>, y)
<1>1. <<x>> \in Seq({x, y}) /\ y \in {x, y}
  OBVIOUS
<1>2. s \in Seq({x, y}) /\ Len(s) = 2 /\ s[1] = x /\ s[2] = y
  BY <1>1
<1> HIDE DEF s
<1>3. s = <<x, y>>
  BY <1>2
<1> QED BY <1>3 DEF s

(* A new receiver holds nothing.                                           *)
LEMMA EmptyReceiver == ReceiverOK(NewReceiver) /\ NewReceiver.pendingBatch = <<>>
<1>1. NewReceiver.pendingBatch = <<>>
  BY DEF NewReceiver
<1> QED BY <1>1, EmptySeq DEF ReceiverOK

(* An empty batch is never overflowed.                                     *)
LEMMA NoOverflow ==
  ASSUME NEW size \in Nat, size <= BatchSize.preferredMaxBytes
  PROVE  ~((NewReceiver.pendingBatchSizeBytes + size) % Uint32Size
             > BatchSize.preferredMaxBytes)
<1>1. NewReceiver.pendingBatchSizeBytes + size = size
  BY DEF NewReceiver
<1>2. size % Uint32Size \in Nat /\ size % Uint32Size <= size
  BY Uint32Assumption
<1>3. BatchSize.preferredMaxBytes \in Nat
  BY HcsChainAssumption, Zenon
<1> QED BY <1>1, <1>2, <1>3

(* The four things Ordered does with an envelope.                          *)
LEMMA OrderedForms ==
  ASSUME NEW r, ReceiverOK(r), NEW tx, NEW size \in Nat,
         NEW res, res = Ordered(r, tx, size, BatchSize)
  PROVE  /\ ReceiverOK(res.receiver)
         /\ \/ Joins(r.pendingBatch, tx, res)
            \/ Overflows(r.pendingBatch, tx, res)
            \/ Fills(r.pendingBatch, tx, res)
            \/ Separates(r.pendingBatch, tx, res)
<1> DEFINE b == r.pendingBatch
           max == BatchSize.preferredMaxBytes
<1>0. IsSeq(b) /\ (b = <<>> => r = NewReceiver)
  BY Zenon DEF ReceiverOK
<1>1. CASE size > max
  <2>1. CASE b = <<>>
    <3>1. res = [batches |-> <<<<tx>>>>, pending |-> FALSE, receiver |-> r]
      BY <1>1, <2>1 DEF Ordered, OrderedIsolated
    <3>2. Append(b, tx) = <<tx>>
      BY <2>1
    <3>3. Fills(b, tx, res)
      BY <1>0, <2>1, <3>1, <3>2 DEF Fills
    <3> QED BY <3>3, EmptyReceiver DEF Fills
  <2>2. CASE b # <<>>
    <3>1. res = [batches |-> <<b, <<tx>>>>, pending |-> FALSE, receiver |-> NewReceiver]
      BY <1>1, <2>2, Zenon DEF Ordered, OrderedIsolated, Cut
    <3>2. Separates(b, tx, res)
      BY <2>2, <3>1 DEF Separates
    <3> QED BY <3>2, EmptyReceiver, Zenon DEF Separates
  <2> QED BY <2>1, <2>2, Zenon
<1>2. CASE ~(size > max)
  <2> DEFINE overflow == (r.pendingBatchSizeBytes + size) % Uint32Size > max
             first  == IF overflow THEN <<b>> ELSE <<>>
             before == IF overflow THEN NewReceiver ELSE r
             joined == [pendingBatch |-> Append(before.pendingBatch, tx),
                        pendingBatchSizeBytes |->
                          (before.pendingBatchSizeBytes + size) % Uint32Size]
             full == Len(joined.pendingBatch) >= BatchSize.maxMessageCount
  <2>1. res = IF full THEN [batches |-> Append(first, joined.pendingBatch),
                            pending |-> FALSE, receiver |-> NewReceiver]
                      ELSE [batches |-> first, pending |-> TRUE, receiver |-> joined]
    BY <1>2 DEF Ordered, OrderedBatched, Cut
  <2>2. overflow => b # <<>>
    <3>1. size <= max
      BY <1>2, HcsChainAssumption
    <3> QED BY <1>0, <3>1, NoOverflow
  <2>3. joined.pendingBatch = IF overflow THEN <<tx>> ELSE Append(b, tx)
    <3> HIDE DEF overflow
    <3>1. joined.pendingBatch = Append(before.pendingBatch, tx)
      OBVIOUS
    <3>2. Append(<<>>, tx) = <<tx>> /\ NewReceiver.pendingBatch = <<>>
      BY EmptyReceiver
    <3> HIDE DEF joined
    <3> QED BY <3>1, <3>2, Zenon
  <2>4. ReceiverOK(joined)
    <3> HIDE DEF overflow, joined
    <3>a. OneLonger(Append(b, tx), b, tx)
      BY <1>0, Appended, Zenon
    <3>1. IsSeq(Append(b, tx)) /\ Append(b, tx) # <<>>
      BY <3>a, Zenon DEF OneLonger
    <3>2. IsSeq(<<tx>>) /\ <<tx>> # <<>>
      BY SingleSeq, Zenon
    <3> QED BY <2>3, <3>1, <3>2 DEF ReceiverOK
  <2> HIDE DEF joined, full, overflow
  <2>5. CASE ~full /\ ~overflow
    <3>1. Joins(b, tx, res) /\ res.receiver = joined
      BY <2>1, <2>3, <2>5 DEF Joins
    <3> QED BY <2>4, <3>1, Zenon
  <2>6. CASE ~full /\ overflow
    <3>1. Overflows(b, tx, res) /\ res.receiver = joined
      BY <2>1, <2>2, <2>3, <2>6 DEF Overflows
    <3> QED BY <2>4, <3>1
  <2>7. CASE full /\ ~overflow
    <3>1. Append(first, joined.pendingBatch) = <<Append(b, tx)>>
      BY <2>3, <2>7
    <3>2. Fills(b, tx, res)
      BY <2>1, <2>7, <3>1 DEF Fills
    <3> QED BY <3>2, EmptyReceiver DEF Fills
  <2>8. CASE full /\ overflow
    <3>1. Append(first, joined.pendingBatch) = <<b, <<tx>>>>
      BY <2>3, <2>8, AppendToOne, Zenon
    <3>2. Separates(b, tx, res)
      BY <2>1, <2>2, <2>8, <3>1 DEF Separates
    <3> QED BY <3>2, EmptyReceiver DEF Separates
  <2> QED BY <2>5, <2>6, <2>7, <2>8, Zenon
<1> QED BY <1>1, <1>2


-----------------------------------------------------------------------------
(* Chains as records: what the operations of HcsChain return.              *)

ChainOf(n, free, ordered, original, configs, receiver, hashes, processor, blocks) ==
  [lastSequenceProcessed |-> n, lastChunkFree |-> free, lastOrderered |-> ordered,
   lastOriginal |-> original, sequence |-> configs, receiver |-> receiver,
   messageHashes |-> hashes, processor |-> processor, blocks |-> blocks]

(* h is the chain of these parts.                                          *)
Makes(h, n, free, ordered, original, configs, receiver, hashes, processor, blocks) ==
  h = ChainOf(n, free, ordered, original, configs, receiver, hashes, processor, blocks)

BatchBlock(batch, t, original, free, n) ==
  [txs |-> batch, config |-> FALSE, persisted |-> t, original |-> original,
   chunkFree |-> free, cutAt |-> n]

ConfigBlock(batch, t, original, free, n) ==
  [txs |-> batch, config |-> TRUE, persisted |-> t, original |-> original,
   chunkFree |-> free, cutAt |-> n]

WriteBatch(c, batch, t)  == WriteBlock(c, batch, FALSE, t)
WriteConfig(c, batch, t) == WriteBlock(c, batch, TRUE, t)

IsChain(c) ==
  c = ChainOf(c.lastSequenceProcessed, c.lastChunkFree, c.lastOrderered,
              c.lastOriginal, c.sequence, c.receiver, c.messageHashes,
              c.processor, c.blocks)

(* The fields of a chain.                                                  *)
LEMMA ChainFields ==
  ASSUME NEW n, NEW free, NEW ordered, NEW original, NEW configs, NEW r,
         NEW hashes, NEW p, NEW blocks, NEW c,
         Makes(c, n, free, ordered, original, configs, r, hashes, p, blocks)
  PROVE  /\ IsChain(c)
         /\ c.lastSequenceProcessed = n /\ c.lastChunkFree = free
         /\ c.lastOrderered = ordered /\ c.lastOriginal = original
         /\ c.sequence = configs /\ c.receiver = r /\ c.messageHashes = hashes
         /\ c.processor = p /\ c.blocks = blocks
BY DEF Makes, ChainOf, IsChain

(* A change of the receiver alone.                                         *)
LEMMA SetReceiver ==
  ASSUME NEW n, NEW free, NEW ordered, NEW original, NEW configs, NEW r,
         NEW hashes, NEW p, NEW blocks, NEW c,
         Makes(c, n, free, ordered, original, configs, r, hashes, p, blocks), NEW r2
  PROVE  Makes([c EXCEPT !.receiver = r2], n, free, ordered, original,
               configs, r2, hashes, p, blocks)
BY DEF Makes, ChainOf

(* A change of lastOriginal alone.                                         *)
LEMMA SetOriginal ==
  ASSUME NEW n, NEW free, NEW ordered, NEW original, NEW configs, NEW r,
         NEW hashes, NEW p, NEW blocks, NEW c,
         Makes(c, n, free, ordered, original, configs, r, hashes, p, blocks), NEW o2
  PROVE  Makes([c EXCEPT !.lastOriginal = o2],
               n, free, ordered, o2, configs, r, hashes, p, blocks)
BY DEF Makes, ChainOf

(* A change of messageHashes alone.                                        *)
LEMMA SetHashes ==
  ASSUME NEW n, NEW free, NEW ordered, NEW original, NEW configs, NEW r,
         NEW hashes, NEW p, NEW blocks, NEW c,
         Makes(c, n, free, ordered, original, configs, r, hashes, p, blocks), NEW h2
  PROVE  Makes([c EXCEPT !.messageHashes = h2], n, free, ordered, original,
               configs, r, h2, p, blocks)
BY DEF Makes, ChainOf

(* A change of the processor alone.                                        *)
LEMMA SetProcessor ==
  ASSUME NEW n, NEW free, NEW ordered, NEW original, NEW configs, NEW r,
         NEW hashes, NEW p, NEW blocks, NEW c,
         Makes(c, n, free, ordered, original, configs, r, hashes, p, blocks), NEW p2
  PROVE  Makes([c EXCEPT !.processor = p2], n, free, ordered, original,
               configs, r, hashes, p2, blocks)
BY DEF Makes, ChainOf

(* A change of the blocks alone.                                           *)
LEMMA SetBlocks ==
  ASSUME NEW n, NEW free, NEW ordered, NEW original, NEW configs, NEW r,
         NEW hashes, NEW p, NEW blocks, NEW c,
         Makes(c, n, free, ordered, original, configs, r, hashes, p, blocks), NEW b2
  PROVE  Makes([c EXCEPT !.blocks = b2], n, free, ordered, original,
               configs, r, hashes, p, b2)
BY DEF Makes, ChainOf

(* advance moves the two marks of the last ordered message.                *)
LEMMA Advanced ==
  ASSUME NEW n, NEW free, NEW ordered, NEW original, NEW configs, NEW r,
         NEW hashes, NEW p, NEW blocks, NEW c,
         Makes(c, n, free, ordered, original, configs, r, hashes, p, blocks), NEW t, NEW o2
  PROVE  Makes(advance(c, t, o2), n, free, t, o2, configs, r, hashes, p, blocks)
<1> DEFINE c1 == [c EXCEPT !.lastOriginal = o2]
           c2 == [c1 EXCEPT !.lastOrderered = t]
<1>1. Makes(c1, n, free, ordered, o2, configs, r, hashes, p, blocks)
  BY SetOriginal, Zenon
<1> HIDE DEF c1
<1>2. Makes(c2, n, free, t, o2, configs, r, hashes, p, blocks)
  BY <1>1 DEF Makes, ChainOf
<1>3. advance(c, t, o2) = c2
  BY DEF advance, c1
<1> QED BY <1>2, <1>3

(* WriteBlock for a batch, and for a configuration.                        *)
LEMMA WrittenBatch ==
  ASSUME NEW n, NEW free, NEW ordered, NEW original, NEW configs, NEW r,
         NEW hashes, NEW p, NEW blocks, NEW c,
         Makes(c, n, free, ordered, original, configs, r, hashes, p, blocks),
         NEW batch, NEW t
  PROVE  Makes(WriteBatch(c, batch, t), n, free, ordered, original, configs, r, {}, p,
               Append(blocks, BatchBlock(batch, t, original, free, n)))
<1> DEFINE b  == BatchBlock(batch, t, original, free, n)
           c1 == [c EXCEPT !.messageHashes = {}]
           c2 == [c1 EXCEPT !.sequence = @]
           c3 == [c2 EXCEPT !.blocks = Append(@, b)]
<1>0. /\ c.messageHashes = hashes /\ c.lastOriginal = original
      /\ c.lastChunkFree = free /\ c.lastSequenceProcessed = n
  BY ChainFields
<1>1. Makes(c1, n, free, ordered, original, configs, r, {}, p, blocks)
  BY <1>0, SetHashes
<1>2. WriteBatch(c, batch, t) = c3
  BY <1>0 DEF WriteBatch, WriteBlock, BatchBlock
<1> HIDE DEF c1, b
<1>3. Makes(c2, n, free, ordered, original, configs, r, {}, p, blocks)
  BY <1>1 DEF Makes, ChainOf
<1> HIDE DEF c2
<1>4. Makes(c3, n, free, ordered, original, configs, r, {}, p, Append(blocks, b))
  <2> DEFINE new == Append(blocks, b)
  <2>0. c2.blocks = blocks
    BY <1>3, ChainFields
  <2>1. c3 = [c2 EXCEPT !.blocks = new]
    BY <2>0, Zenon
  <2> HIDE DEF new, c3
  <2>2. Makes(c3, n, free, ordered, original, configs, r, {}, p, new)
    BY <1>3, <2>1, SetBlocks
  <2> QED BY <2>2 DEF new
<1> QED BY <1>2, <1>4 DEF b

(* WriteConfig appends one block and raises the sequence.                  *)
LEMMA WrittenConfig ==
  ASSUME NEW n, NEW free, NEW ordered, NEW original, NEW configs, NEW r,
         NEW hashes, NEW p, NEW blocks, NEW c,
         Makes(c, n, free, ordered, original, configs, r, hashes, p, blocks),
         NEW batch, NEW t
  PROVE  Makes(WriteConfig(c, batch, t), n, free, ordered, original,
               configs + 1, r, hashes, p,
               Append(blocks, ConfigBlock(batch, t, original, free, n)))
<1> DEFINE b  == ConfigBlock(batch, t, original, free, n)
           c1 == [c EXCEPT !.messageHashes = @]
           c2 == [c1 EXCEPT !.sequence = @ + 1]
           c3 == [c2 EXCEPT !.blocks = Append(@, b)]
<1>0. /\ c.messageHashes = hashes /\ c.lastOriginal = original
      /\ c.lastChunkFree = free /\ c.lastSequenceProcessed = n
  BY ChainFields
<1>1. Makes(c1, n, free, ordered, original, configs, r, hashes, p, blocks)
  BY <1>0, SetHashes
<1>2. WriteConfig(c, batch, t) = c3
  BY <1>0 DEF WriteConfig, WriteBlock, ConfigBlock
<1> HIDE DEF c1, b
<1>3. Makes(c2, n, free, ordered, original, configs + 1, r, hashes, p, blocks)
  BY <1>1 DEF Makes, ChainOf
<1> HIDE DEF c2
<1>4. Makes(c3, n, free, ordered, original, configs + 1, r, hashes, p, Append(blocks, b))
  <2> DEFINE new == Append(blocks, b)
  <2>0. c2.blocks = blocks
    BY <1>3, ChainFields
  <2>1. c3 = [c2 EXCEPT !.blocks = new]
    BY <2>0, Zenon
  <2> HIDE DEF new, c3
  <2>2. Makes(c3, n, free, ordered, original, configs + 1, r, hashes, p, new)
    BY <1>3, <2>1, SetBlocks, Zenon
  <2> QED BY <2>2 DEF new
<1> QED BY <1>2, <1>4 DEF b


(* commitNormalMessage in steps, as a function of what the cutter answers. *)
Commit1(c, t, original, res) ==
  IF Len(res.batches) = 0 \/ (Len(res.batches) = 1 /\ ~res.pending)
    THEN advance([c EXCEPT !.receiver = res.receiver], t, original)
    ELSE [c EXCEPT !.receiver = res.receiver]

Commit2(c, res) ==
  IF Len(res.batches) = 0 THEN c
  ELSE WriteBatch(c, res.batches[1], c.lastOrderered)

Commit3(c, t, original, res) ==
  IF Len(res.batches) < 2 THEN c
  ELSE WriteBatch(advance(c, t, original), res.batches[2], t)

(* A set with one more element and a sequence of one, under names.         *)
Plus(hashes, msg) == hashes \cup {msg}
Single(tx) == <<tx>>

AddHash(c, msg) == [c EXCEPT !.messageHashes = Plus(@, msg)]

Commit4(c, msg, res) == IF res.pending THEN AddHash(c, msg) ELSE c

CommitWith(c, msg, t, original, res) ==
  Commit4(Commit3(Commit2(Commit1(c, t, original, res), res), t, original, res),
          msg, res)

(* commitNormalMessage by what Ordered returns.                            *)
LEMMA CommitNormal ==
  ASSUME NEW c, NEW msg, NEW t, NEW original
  PROVE  commitNormalMessage(c, msg, t, original)
           = CommitWith(c, msg, t, original,
                        Ordered(c.receiver, [msg |-> msg, seq |-> t],
                                SizeOf[msg.env], BatchSize))
BY DEF commitNormalMessage, CommitWith, Commit1, Commit2, Commit3, Commit4,
       AddHash, WriteBatch, Plus

(* AddHash adds the hash of the message.                                   *)
LEMMA AddedHash ==
  ASSUME NEW n, NEW free, NEW ordered, NEW original, NEW configs, NEW r,
         NEW hashes, NEW p, NEW blocks, NEW c,
         Makes(c, n, free, ordered, original, configs, r, hashes, p, blocks),
         NEW msg
  PROVE  Makes(AddHash(c, msg), n, free, ordered, original,
               configs, r, Plus(hashes, msg), p, blocks)
<1> DEFINE h2 == Plus(hashes, msg)
           h3 == Plus(c.messageHashes, msg)
<1>1. h3 = h2
  BY ChainFields
<1> HIDE DEF h2, h3
<1>2. Makes([c EXCEPT !.messageHashes = h3], n, free, ordered, original,
            configs, r, h2, p, blocks)
  BY <1>1, SetHashes
<1>3. AddHash(c, msg) = [c EXCEPT !.messageHashes = h3]
  BY DEF h3, AddHash
<1> QED BY <1>2, <1>3 DEF h2

(* WriteBlock with the timestamp of the message ordered last.              *)
LEMMA WrittenEarlier ==
  ASSUME NEW n, NEW free, NEW ordered, NEW original, NEW configs, NEW r,
         NEW hashes, NEW p, NEW blocks, NEW c,
         Makes(c, n, free, ordered, original, configs, r, hashes, p, blocks),
         NEW batch
  PROVE  Makes(WriteBatch(c, batch, c.lastOrderered), n, free, ordered, original,
               configs, r, {}, p,
               Append(blocks, BatchBlock(batch, ordered, original, free, n)))
<1>1. c.lastOrderered = ordered
  BY ChainFields
<1>2. WriteBatch(c, batch, c.lastOrderered) = WriteBatch(c, batch, ordered)
  BY <1>1
<1>3. Makes(WriteBatch(c, batch, ordered), n, free, ordered, original, configs, r,
            {}, p, Append(blocks, BatchBlock(batch, ordered, original, free, n)))
  BY WrittenBatch, Zenon
<1> QED BY <1>2, <1>3

(* Tuples of at most two elements.                                         *)
LEMMA ShortTuples ==
  ASSUME NEW x, NEW y
  PROVE  /\ Len(<<>>) = 0 /\ Len(<<x>>) = 1 /\ Len(<<x, y>>) = 2
         /\ <<x>>[1] = x /\ <<x, y>>[1] = x /\ <<x, y>>[2] = y
OBVIOUS

(* One case for each answer.                                               *)
LEMMA CommitJoins ==
  ASSUME NEW n, NEW free, NEW ordered, NEW original, NEW configs, NEW r,
         NEW hashes, NEW p, NEW blocks, NEW c,
         Makes(c, n, free, ordered, original, configs, r, hashes, p, blocks),
         NEW msg, NEW t, NEW o2, NEW b, NEW tx, NEW res, Joins(b, tx, res),
         NEW h, h = CommitWith(c, msg, t, o2, res)
  PROVE  Makes(h, n, free, t, o2, configs, res.receiver, Plus(hashes, msg), p, blocks)
<1> DEFINE r2 == res.receiver
           h2 == Plus(hashes, msg)
           c0 == [c EXCEPT !.receiver = r2]
           c1 == advance(c0, t, o2)
           d  == AddHash(c1, msg)
<1>0. Len(res.batches) = 0 /\ res.pending = TRUE
  BY ShortTuples DEF Joins
<1>a. Commit1(c, t, o2, res) = c1
  BY <1>0, Zenon DEF Commit1
<1>b. Commit2(c1, res) = c1
  <2> HIDE DEF c1
  <2> QED BY <1>0, Zenon DEF Commit2
<1>c. Commit3(c1, t, o2, res) = c1
  <2> HIDE DEF c1
  <2> QED BY <1>0 DEF Commit3
<1>d. Commit4(c1, msg, res) = d
  <2> HIDE DEF c1
  <2> QED BY <1>0 DEF Commit4
<1>1. CommitWith(c, msg, t, o2, res) = d
  BY <1>a, <1>b, <1>c, <1>d DEF CommitWith
<1> HIDE DEF r2
<1>2. Makes(c0, n, free, ordered, original, configs, r2, hashes, p, blocks)
  BY SetReceiver, Zenon
<1> HIDE DEF c0
<1>3. Makes(c1, n, free, t, o2, configs, r2, hashes, p, blocks)
  BY <1>2, Advanced, Zenon
<1> HIDE DEF c1
<1>5. Makes(d, n, free, t, o2, configs, r2, h2, p, blocks)
  BY <1>3, AddedHash, Zenon
<1> HIDE DEF d, h2
<1> QED BY <1>1, <1>5, Zenon DEF r2, h2

(* The chain after an envelope that did not fit the batch.                 *)
LEMMA CommitOverflows ==
  ASSUME NEW n, NEW free, NEW ordered, NEW original, NEW configs, NEW r,
         NEW hashes, NEW p, NEW blocks, NEW c,
         Makes(c, n, free, ordered, original, configs, r, hashes, p, blocks),
         NEW msg, NEW t, NEW o2, NEW b, NEW tx, NEW res, Overflows(b, tx, res),
         NEW h, h = CommitWith(c, msg, t, o2, res)
  PROVE  Makes(h, n, free, ordered, original, configs, res.receiver, Plus({}, msg), p,
               Append(blocks, BatchBlock(b, ordered, original, free, n)))
<1> DEFINE r2 == res.receiver
           B  == BatchBlock(b, ordered, original, free, n)
           bs == Append(blocks, B)
           c0 == [c EXCEPT !.receiver = r2]
           c2 == WriteBatch(c0, b, c0.lastOrderered)
           d  == AddHash(c2, msg)
<1>0. Len(res.batches) = 1 /\ res.batches[1] = b /\ res.pending = TRUE
  BY ShortTuples DEF Overflows
<1>a. Commit1(c, t, o2, res) = c0
  BY <1>0 DEF Commit1
<1>b. Commit2(c0, res) = c2
  <2> HIDE DEF c0
  <2> QED BY <1>0 DEF Commit2
<1>c. Commit3(c2, t, o2, res) = c2
  <2> HIDE DEF c2
  <2> QED BY <1>0 DEF Commit3
<1>d. Commit4(c2, msg, res) = d
  <2> HIDE DEF c2
  <2> QED BY <1>0 DEF Commit4
<1>1. CommitWith(c, msg, t, o2, res) = d
  BY <1>a, <1>b, <1>c, <1>d DEF CommitWith
<1> HIDE DEF r2
<1>2. Makes(c0, n, free, ordered, original, configs, r2, hashes, p, blocks)
  BY SetReceiver, Zenon
<1> HIDE DEF c0
<1>4. Makes(c2, n, free, ordered, original, configs, r2, {}, p, bs)
  BY <1>2, WrittenEarlier, Zenon
<1> HIDE DEF c2, bs
<1>7. Makes(d, n, free, ordered, original, configs, r2, Plus({}, msg), p, bs)
  BY <1>4, AddedHash, Zenon
<1> HIDE DEF d
<1> QED BY <1>1, <1>7, Zenon DEF r2, bs, B

(* The chain after an envelope that filled the batch.                      *)
LEMMA CommitFills ==
  ASSUME NEW n, NEW free, NEW ordered, NEW original, NEW configs, NEW r,
         NEW hashes, NEW p, NEW blocks, NEW c,
         Makes(c, n, free, ordered, original, configs, r, hashes, p, blocks),
         NEW msg, NEW t, NEW o2, NEW b, NEW tx, NEW res, Fills(b, tx, res),
         NEW h, h = CommitWith(c, msg, t, o2, res)
  PROVE  Makes(h, n, free, t, o2, configs, NewReceiver, {}, p,
               Append(blocks, BatchBlock(Append(b, tx), t, o2, free, n)))
<1> DEFINE r2 == res.receiver
           b2 == Append(b, tx)
           B  == BatchBlock(b2, t, o2, free, n)
           bs == Append(blocks, B)
           c0 == [c EXCEPT !.receiver = r2]
           c1 == advance(c0, t, o2)
           d  == WriteBatch(c1, b2, c1.lastOrderered)
<1>0. /\ Len(res.batches) = 1 /\ res.batches[1] = b2 /\ res.pending = FALSE
      /\ r2 = NewReceiver
  BY ShortTuples DEF Fills
<1>a. Commit1(c, t, o2, res) = c1
  BY <1>0, Zenon DEF Commit1
<1>b. Commit2(c1, res) = d
  <2> HIDE DEF b2, c1
  <2> QED BY <1>0 DEF Commit2
<1>c. Commit3(d, t, o2, res) = d
  <2> HIDE DEF b2, d
  <2> QED BY <1>0 DEF Commit3
<1>d. Commit4(d, msg, res) = d
  <2> HIDE DEF b2, d
  <2> QED BY <1>0 DEF Commit4
<1>1. CommitWith(c, msg, t, o2, res) = d
  BY <1>a, <1>b, <1>c, <1>d, Zenon DEF CommitWith
<1> HIDE DEF r2, b2
<1>2. Makes(c0, n, free, ordered, original, configs, r2, hashes, p, blocks)
  BY SetReceiver, Zenon
<1> HIDE DEF c0
<1>3. Makes(c1, n, free, t, o2, configs, r2, hashes, p, blocks)
  BY <1>2, Advanced, Zenon
<1> HIDE DEF c1
<1>5. Makes(d, n, free, t, o2, configs, r2, {}, p, bs)
  BY <1>3, WrittenEarlier, Zenon
<1> HIDE DEF d
<1> QED BY <1>0, <1>1, <1>5, Zenon DEF bs, B, b2

TwoBlocks(blocks, batch, ordered, original, tx, t, o2, free, n) ==
  Append(Append(blocks, BatchBlock(batch, ordered, original, free, n)),
         BatchBlock(Single(tx), t, o2, free, n))

(* The chain after an oversized envelope: the batch and the envelope are   *)
(* two blocks.                                                             *)
LEMMA CommitSeparates ==
  ASSUME NEW n, NEW free, NEW ordered, NEW original, NEW configs, NEW r,
         NEW hashes, NEW p, NEW blocks, NEW c,
         Makes(c, n, free, ordered, original, configs, r, hashes, p, blocks),
         NEW msg, NEW t, NEW o2, NEW b, NEW tx, NEW res, Separates(b, tx, res),
         NEW h, h = CommitWith(c, msg, t, o2, res)
  PROVE  Makes(h, n, free, t, o2, configs, NewReceiver, {}, p,
               TwoBlocks(blocks, b, ordered, original, tx, t, o2, free, n))
<1> DEFINE r2 == res.receiver
           b2 == <<tx>>
           B  == BatchBlock(b, ordered, original, free, n)
           bs == Append(blocks, B)
           E  == BatchBlock(b2, t, o2, free, n)
           c0 == [c EXCEPT !.receiver = r2]
           c2 == WriteBatch(c0, b, c0.lastOrderered)
           c3 == advance(c2, t, o2)
           d  == WriteBatch(c3, b2, t)
<1>0. /\ Len(res.batches) = 2 /\ res.batches[1] = b /\ res.batches[2] = b2
      /\ res.pending = FALSE /\ r2 = NewReceiver
  BY ShortTuples DEF Separates
<1>a. Commit1(c, t, o2, res) = c0
  BY <1>0 DEF Commit1
<1>b. Commit2(c0, res) = c2
  <2> HIDE DEF b2, c0
  <2> QED BY <1>0 DEF Commit2
<1>c. Commit3(c2, t, o2, res) = d
  <2> HIDE DEF b2, c2
  <2> QED BY <1>0 DEF Commit3
<1>d. Commit4(d, msg, res) = d
  <2> HIDE DEF b2, d
  <2> QED BY <1>0 DEF Commit4
<1>1. CommitWith(c, msg, t, o2, res) = d
  BY <1>a, <1>b, <1>c, <1>d, Zenon DEF CommitWith
<1> HIDE DEF r2, b2
<1>2. Makes(c0, n, free, ordered, original, configs, r2, hashes, p, blocks)
  BY SetReceiver, Zenon
<1> HIDE DEF c0
<1>4. Makes(c2, n, free, ordered, original, configs, r2, {}, p, bs)
  BY <1>2, WrittenEarlier, Zenon
<1> HIDE DEF c2, bs
<1>5. Makes(c3, n, free, t, o2, configs, r2, {}, p, bs)
  BY <1>4, Advanced, Zenon
<1> HIDE DEF c3
<1>6. Makes(d, n, free, t, o2, configs, r2, {}, p, Append(bs, E))
  BY <1>5, WrittenBatch, Zenon
<1> HIDE DEF d
<1> QED BY <1>0, <1>1, <1>6, Zenon DEF bs, B, E, b2, Single, TwoBlocks

(* commitConfigMessage, without and with a pending batch.                  *)
LEMMA ConfigAlone ==
  ASSUME NEW n, NEW free, NEW ordered, NEW original, NEW configs, NEW r,
         NEW hashes, NEW p, NEW blocks, NEW c,
         Makes(c, n, free, ordered, original, configs, r, hashes, p, blocks),
         NEW msg, NEW t, NEW o2, r.pendingBatch = <<>>,
         NEW tx, tx = [msg |-> msg, seq |-> t],
         NEW h, h = commitConfigMessage(c, msg, t, o2)
  PROVE  Makes(h, n, free, ordered, o2, configs + 1, NewReceiver, hashes, p,
               Append(blocks, ConfigBlock(<<tx>>, t, o2, free, n)))
<1> DEFINE b2 == <<tx>>
           E  == ConfigBlock(b2, t, o2, free, n)
           r2 == NewReceiver
           c1 == [c EXCEPT !.receiver = r2]
           c2 == [c1 EXCEPT !.lastOriginal = o2]
           d  == WriteConfig(c2, b2, t)
<1>0. c.receiver = r
  BY ChainFields
<1>1. commitConfigMessage(c, msg, t, o2) = d
  BY <1>0, Zenon DEF commitConfigMessage, Cut, WriteConfig, WriteBatch
<1> HIDE DEF r2, b2
<1>2. Makes(c1, n, free, ordered, original, configs, r2, hashes, p, blocks)
  BY SetReceiver, Zenon
<1> HIDE DEF c1
<1>3. Makes(c2, n, free, ordered, o2, configs, r2, hashes, p, blocks)
  BY <1>2, SetOriginal, Zenon
<1> HIDE DEF c2
<1>4. Makes(d, n, free, ordered, o2, configs + 1, r2, hashes, p, Append(blocks, E))
  BY <1>3, WrittenConfig, Zenon
<1> HIDE DEF d
<1> QED BY <1>1, <1>4, Zenon DEF E, b2, r2

(* A configuration message with a batch pending: two blocks.               *)
LEMMA ConfigAfterBatch ==
  ASSUME NEW n, NEW free, NEW ordered, NEW original, NEW configs, NEW r,
         NEW hashes, NEW p, NEW blocks, NEW c,
         Makes(c, n, free, ordered, original, configs, r, hashes, p, blocks),
         NEW msg, NEW t, NEW o2, NEW b, b = r.pendingBatch, b # <<>>,
         NEW tx, tx = [msg |-> msg, seq |-> t],
         NEW h, h = commitConfigMessage(c, msg, t, o2)
  PROVE  Makes(h, n, free, ordered, o2, configs + 1, NewReceiver, {}, p,
               Append(Append(blocks, BatchBlock(b, ordered, original, free, n)),
                      ConfigBlock(<<tx>>, t, o2, free, n)))
<1> DEFINE b2 == <<tx>>
           B  == BatchBlock(b, ordered, original, free, n)
           bs == Append(blocks, B)
           E  == ConfigBlock(b2, t, o2, free, n)
           r2 == NewReceiver
           c1 == [c EXCEPT !.receiver = r2]
           c2 == WriteBatch(c1, b, c1.lastOrderered)
           c3 == [c2 EXCEPT !.lastOriginal = o2]
           d  == WriteConfig(c3, b2, t)
<1>0. c.receiver = r
  BY ChainFields
<1>1. commitConfigMessage(c, msg, t, o2) = d
  BY <1>0 DEF commitConfigMessage, Cut, WriteConfig, WriteBatch
<1> HIDE DEF r2, b2
<1>2. Makes(c1, n, free, ordered, original, configs, r2, hashes, p, blocks)
  BY SetReceiver, Zenon
<1> HIDE DEF c1
<1>4. Makes(c2, n, free, ordered, original, configs, r2, {}, p, bs)
  BY <1>2, WrittenEarlier, Zenon
<1> HIDE DEF c2, bs
<1>5. Makes(c3, n, free, ordered, o2, configs, r2, {}, p, bs)
  BY <1>4, SetOriginal, Zenon
<1> HIDE DEF c3
<1>6. Makes(d, n, free, ordered, o2, configs + 1, r2, {}, p, Append(bs, E))
  BY <1>5, WrittenConfig, Zenon
<1> HIDE DEF d
<1> QED BY <1>1, <1>6, Zenon DEF E, b2, r2, bs, B

(* processTimeToCutMessage when it cuts.                                   *)
LEMMA TimeCuts ==
  ASSUME NEW n, NEW free, NEW ordered, NEW original, NEW configs, NEW r,
         NEW hashes, NEW p, NEW blocks, NEW c,
         Makes(c, n, free, ordered, original, configs, r, hashes, p, blocks),
         NEW msg, NEW t, NEW b, b = r.pendingBatch, b # <<>>, createBlock(c, msg),
         NEW h, h = processTimeToCutMessage(c, msg, t)
  PROVE  Makes(h, n, free, ordered, t, configs, NewReceiver, {}, p,
               Append(blocks, BatchBlock(b, t, t, free, n)))
<1> DEFINE r2 == NewReceiver
           c1 == [c EXCEPT !.receiver = r2]
           c2 == [c1 EXCEPT !.lastOriginal = t]
           d  == WriteBatch(c2, b, t)
<1>0. c.receiver = r
  BY ChainFields
<1>1. processTimeToCutMessage(c, msg, t) = d
  BY <1>0 DEF processTimeToCutMessage, Cut, WriteBatch
<1> HIDE DEF r2
<1>2. Makes(c1, n, free, ordered, original, configs, r2, hashes, p, blocks)
  BY SetReceiver, Zenon
<1> HIDE DEF c1
<1>3. Makes(c2, n, free, ordered, t, configs, r2, hashes, p, blocks)
  BY <1>2, SetOriginal, Zenon
<1> HIDE DEF c2
<1>4. Makes(d, n, free, ordered, t, configs, r2, {}, p,
                  Append(blocks, BatchBlock(b, t, t, free, n)))
  BY <1>3, WrittenBatch, Zenon
<1> HIDE DEF d
<1> QED BY <1>1, <1>4, Zenon DEF r2


-----------------------------------------------------------------------------
(* collect and process.                                                    *)

FreeAfter(free, p, n) == IF IsPending(p) THEN free ELSE n

(* What collect makes of a chunk: the position advances by one and the     *)
(* processor takes the chunk.                                              *)
LEMMA Collected ==
  ASSUME NEW n, NEW free, NEW ordered, NEW original, NEW configs, NEW r,
         NEW hashes, NEW p, NEW blocks, NEW c,
         Makes(c, n, free, ordered, original, configs, r, hashes, p, blocks),
         NEW ch, NEW res, res = Reassemble(p, ch, n + 1)
  PROVE  /\ collect(c, ch).message = res.message
         /\ Makes(collect(c, ch).chain, n + 1,
                  FreeAfter(free, res.processor, n + 1), ordered,
                        original, configs, r, hashes, res.processor, blocks)
<1> DEFINE m  == n + 1
           q  == res.processor
           f2 == FreeAfter(free, q, m)
           c1 == [c EXCEPT !.lastSequenceProcessed = m]
           c2 == [c1 EXCEPT !.processor = q]
           d  == [c2 EXCEPT !.lastChunkFree = f2]
<1>0. c.lastSequenceProcessed = n /\ c.processor = p /\ c.lastChunkFree = free
  BY ChainFields
<1>1. /\ collect(c, ch).message = res.message
      /\ collect(c, ch).chain
           = [c EXCEPT !.lastSequenceProcessed = m, !.processor = q,
                       !.lastChunkFree = f2]
  BY <1>0 DEF collect, FreeAfter
<1> HIDE DEF m, q, f2
<1>2. [c EXCEPT !.lastSequenceProcessed = m, !.processor = q, !.lastChunkFree = f2] = d
  OBVIOUS
<1>3. Makes(c1, m, free, ordered, original, configs, r, hashes, p, blocks)
  BY DEF Makes, ChainOf
<1> HIDE DEF c1
<1>4. Makes(c2, m, free, ordered, original, configs, r, hashes, q, blocks)
  BY <1>3, SetProcessor, Zenon
<1> HIDE DEF c2
<1>5. Makes(d, m, f2, ordered, original, configs, r, hashes, q, blocks)
  BY <1>4 DEF Makes, ChainOf
<1> QED BY <1>1, <1>2, <1>5, Zenon DEF m, q, f2

NewOriginal(original, msg) == IF msg.originalSeq = 0 THEN original ELSE msg.originalSeq

(* Is the regular message committed?                                       *)
Commits(original, configs, msg) ==
  /\ ~(msg.originalSeq # 0 /\ msg.originalSeq <= original)
  /\ ~(msg.configSeq < configs)

(* Is the next block asked for?                                            *)
Asks(hashes, blocks, msg) ==
  \/ msg.type = "cutBlock" /\ msg.blockNumber = Len(blocks) + 1
  \/ msg.type = "cutHash" /\ msg.messageHash \in hashes

(* A chunk that completes no message changes nothing more.                 *)
LEMMA ProcessesNothing ==
  ASSUME NEW n, NEW free, NEW ordered, NEW original, NEW configs, NEW r,
         NEW hashes, NEW p, NEW blocks, NEW c,
         Makes(c, n, free, ordered, original, configs, r, hashes, p, blocks)
  PROVE  process(c, NoMessage) = c
BY DEF process, isRegular, isTimeToCut

(* An orderer-started message expires chunks and nothing else.             *)
LEMMA ProcessesStarted ==
  ASSUME NEW n, NEW free, NEW ordered, NEW original, NEW configs, NEW r,
         NEW hashes, NEW p, NEW blocks, NEW c,
         Makes(c, n, free, ordered, original, configs, r, hashes, p, blocks),
         NEW msg, msg # NoMessage, msg.type = "started"
  PROVE  Makes(process(c, msg), n, free, ordered, original,
               configs, r, hashes, ExpireByAppID(p, msg.ordererIdentity), blocks)
<1> DEFINE q == ExpireByAppID(p, msg.ordererIdentity)
<1>1. process(c, msg) = processOrdererStartedMessage(c, msg)
  BY DEF process, isRegular, isTimeToCut
<1>2. processOrdererStartedMessage(c, msg) = [c EXCEPT !.processor = q]
  BY ChainFields DEF processOrdererStartedMessage
<1> HIDE DEF q
<1>3. Makes([c EXCEPT !.processor = q], n, free, ordered, original,
            configs, r, hashes, q, blocks)
  BY SetProcessor, Zenon
<1> QED BY <1>1, <1>2, <1>3 DEF q

(* The chain h after the regular message msg at position n.                *)
RegularStep(h, c, msg, n, original, o2, configs, r, tx) ==
  h = IF ~Commits(original, configs, msg) THEN c
      ELSE IF msg.type = "config" THEN commitConfigMessage(c, msg, n, o2)
      ELSE CommitWith(c, msg, n, o2, Ordered(r, tx, SizeOf[msg.env], BatchSize))

(* A regular message is dropped, or committed as its type says.            *)
LEMMA ProcessesRegular ==
  ASSUME NEW n, NEW free, NEW ordered, NEW original, NEW configs, NEW r,
         NEW hashes, NEW p, NEW blocks, NEW c,
         Makes(c, n, free, ordered, original, configs, r, hashes, p, blocks),
         NEW msg, msg # NoMessage, msg.type \in {"normal", "config"},
         NEW o2, o2 = NewOriginal(original, msg),
         NEW tx, tx = [msg |-> msg, seq |-> n], NEW h, h = process(c, msg)
  PROVE  RegularStep(h, c, msg, n, original, o2, configs, r, tx)
<1>0. /\ c.lastSequenceProcessed = n /\ c.lastOriginal = original
      /\ c.sequence = configs /\ c.receiver = r
  BY ChainFields
<1>2. process(c, msg) = processRegularMessage(c, msg, n)
  BY <1>0 DEF process, isRegular, isTimeToCut
<1>3. consumed(c, msg) \/ stale(c, msg) <=> ~Commits(original, configs, msg)
  BY <1>0 DEF consumed, stale, Commits
<1>4. processRegularMessage(c, msg, n)
        = IF ~Commits(original, configs, msg) THEN c
          ELSE IF msg.type = "config" THEN commitConfigMessage(c, msg, n, o2)
          ELSE commitNormalMessage(c, msg, n, o2)
  BY <1>0, <1>3, Zenon DEF processRegularMessage, NewOriginal
<1>5. commitNormalMessage(c, msg, n, o2)
        = CommitWith(c, msg, n, o2,
                     Ordered(r, tx, SizeOf[msg.env], BatchSize))
  BY <1>0, CommitNormal
<1> QED BY <1>2, <1>4, <1>5, Zenon DEF RegularStep

(* A time-to-cut message for the next block cuts the batch.                *)
LEMMA ProcessesTimeToCut ==
  ASSUME NEW n, NEW free, NEW ordered, NEW original, NEW configs, NEW r,
         NEW hashes, NEW p, NEW blocks, NEW c,
         Makes(c, n, free, ordered, original, configs, r, hashes, p, blocks),
         NEW msg, msg # NoMessage, msg.type \in {"cutBlock", "cutHash"},
         Asks(hashes, blocks, msg), NEW b, b = r.pendingBatch, b # <<>>,
         NEW h, h = process(c, msg)
  PROVE  Makes(h, n, free, ordered, n, configs, NewReceiver, {}, p,
               Append(blocks, BatchBlock(b, n, n, free, n)))
<1>0. c.lastSequenceProcessed = n /\ c.messageHashes = hashes /\ c.blocks = blocks
  BY ChainFields
<1>1. h = processTimeToCutMessage(c, msg, n)
  BY <1>0, Zenon DEF process, isRegular, isTimeToCut
<1>2. createBlock(c, msg)
  BY <1>0, Zenon DEF createBlock, Asks, lastCutBlockNumber
<1> QED BY <1>1, <1>2, TimeCuts, Zenon

(* Any other time-to-cut message does nothing.                             *)
LEMMA IgnoresTimeToCut ==
  ASSUME NEW n, NEW free, NEW ordered, NEW original, NEW configs, NEW r,
         NEW hashes, NEW p, NEW blocks, NEW c,
         Makes(c, n, free, ordered, original, configs, r, hashes, p, blocks),
         NEW msg, msg # NoMessage, msg.type \in {"cutBlock", "cutHash"},
         ~(Asks(hashes, blocks, msg) /\ r.pendingBatch # <<>>)
  PROVE  process(c, msg) = c
<1>0. /\ c.lastSequenceProcessed = n /\ c.messageHashes = hashes
      /\ c.blocks = blocks /\ c.receiver = r
  BY ChainFields
<1>1. process(c, msg) = processTimeToCutMessage(c, msg, n)
  BY <1>0, Zenon DEF process, isRegular, isTimeToCut
<1>2. createBlock(c, msg) <=> Asks(hashes, blocks, msg)
  BY <1>0 DEF createBlock, Asks, lastCutBlockNumber
<1>3. processTimeToCutMessage(c, msg, n) = c
  BY <1>0, <1>2, Zenon DEF processTimeToCutMessage, Cut
<1> QED BY <1>1, <1>3, Zenon

-----------------------------------------------------------------------------
(* The state of a chain over a topic of length L, and what a message does  *)
(* to it.                                                                  *)

HashesOf(batch) == {tx.msg : tx \in Range(batch)}

ChainOK(c, L) ==
  /\ IsChain(c)
  /\ c.lastSequenceProcessed \in 0 .. L
  /\ c.lastChunkFree \in 0 .. c.lastSequenceProcessed
  /\ c.lastOrderered \in 0 .. c.lastSequenceProcessed
  /\ ReceiverOK(c.receiver)
  /\ c.messageHashes = HashesOf(c.receiver.pendingBatch)
  /\ ProcessorTyped(c.processor)
  /\ BlocksOK(c.blocks, L)

(* The message at the position of h was taken into h.                      *)
Follows(c, h, L) ==
  /\ ChainOK(h, L)
  /\ h.lastSequenceProcessed = c.lastSequenceProcessed
  /\ Grown(c.blocks, c.receiver.pendingBatch, h.blocks, h.receiver.pendingBatch,
           c.lastSequenceProcessed, L)

(* The hashes of a batch grow with it.                                     *)
LEMMA HashesOfBatches ==
  /\ HashesOf(<<>>) = {}
  /\ \A tx : HashesOf(<<tx>>) = {tx.msg}
  /\ \A b, tx : IsSeq(b) => HashesOf(Append(b, tx)) = HashesOf(b) \cup {tx.msg}
<1>1. HashesOf(<<>>) = {}
  <2>1. Range(<<>>) = {}
    BY DEF Range
  <2> QED BY <2>1 DEF HashesOf
<1>2. ASSUME NEW tx PROVE HashesOf(<<tx>>) = {tx.msg}
  <2>1. DOMAIN <<tx>> = {1} /\ <<tx>>[1] = tx
    OBVIOUS
  <2>2. Range(<<tx>>) = {tx}
    BY <2>1 DEF Range
  <2> QED BY <2>2 DEF HashesOf
<1>3. ASSUME NEW b, NEW tx, IsSeq(b)
      PROVE  HashesOf(Append(b, tx)) = HashesOf(b) \cup {tx.msg}
  <2> DEFINE d == Append(b, tx)
  <2>a. OneLonger(d, b, tx)
    BY <1>3, Appended, Zenon
  <2>1. /\ Len(b) \in Nat /\ DOMAIN b = 1 .. Len(b) /\ DOMAIN d = 1 .. Len(b) + 1
        /\ \A i \in DOMAIN b : d[i] = b[i]
        /\ d[Len(b) + 1] = tx
    BY <2>a, Zenon DEF OneLonger
  <2> HIDE DEF d
  <2>2. DOMAIN d = DOMAIN b \cup {Len(b) + 1}
    BY <2>1
  <2>3. Range(d) = Range(b) \cup {tx}
    BY <2>1, <2>2 DEF Range
  <2> QED BY <2>3 DEF HashesOf, d
<1> QED BY <1>1, <1>2, <1>3, Zenon

(* ChainOK by the fields of the chain.                                     *)
LEMMA ChainIsOK ==
  ASSUME NEW L, NEW n \in 0 .. L, NEW free \in 0 .. n, NEW ordered \in 0 .. n,
         NEW original, NEW configs, NEW r, ReceiverOK(r),
         NEW hashes, hashes = HashesOf(r.pendingBatch),
         NEW p, ProcessorTyped(p), NEW blocks, BlocksOK(blocks, L), NEW c,
         Makes(c, n, free, ordered, original, configs, r, hashes, p, blocks)
  PROVE  ChainOK(c, L)
BY ChainFields DEF ChainOK

(* What ChainOK says of the parts of a chain.                              *)
PartsOK(n, free, ordered, r, hashes, p, blocks, L) ==
  /\ n \in 0 .. L /\ free \in 0 .. n /\ ordered \in 0 .. n
  /\ ReceiverOK(r) /\ hashes = HashesOf(r.pendingBatch)
  /\ ProcessorTyped(p) /\ BlocksOK(blocks, L)

(* The fields of a chain that is OK.                                       *)
LEMMA OKChain ==
  ASSUME NEW n, NEW free, NEW ordered, NEW original, NEW configs, NEW r,
         NEW hashes, NEW p, NEW blocks, NEW c, NEW L,
         Makes(c, n, free, ordered, original, configs, r, hashes, p, blocks),
         ChainOK(c, L)
  PROVE  PartsOK(n, free, ordered, r, hashes, p, blocks, L)
BY ChainFields DEF ChainOK, PartsOK

(* A chain of the given parts follows one it grew from.                    *)
LEMMA ChainFollows ==
  ASSUME NEW n, NEW free, NEW ordered, NEW original, NEW configs, NEW r,
         NEW hashes, NEW p, NEW blocks, NEW c, NEW L \in Nat,
         Makes(c, n, free, ordered, original, configs, r, hashes, p, blocks),
         ChainOK(c, L), NEW ordered2 \in 0 .. n, NEW original2, NEW configs2,
         NEW r2, ReceiverOK(r2), NEW hs, hs = HashesOf(r2.pendingBatch), NEW bs,
         Grown(blocks, r.pendingBatch, bs, r2.pendingBatch, n, L), NEW h,
         Makes(h, n, free, ordered2, original2, configs2, r2, hs, p, bs)
  PROVE  Follows(c, h, L)
<1>a. PartsOK(n, free, ordered, r, hashes, p, blocks, L)
  BY OKChain, Zenon
<1>1. /\ n \in 0 .. L /\ free \in 0 .. n /\ ProcessorTyped(p)
  BY <1>a, Zenon DEF PartsOK
<1>2. BlocksOK(bs, L)
  BY Zenon DEF Grown
<1>3. ChainOK(h, L)
  BY <1>1, <1>2, ChainIsOK, Zenon
<1>4. /\ h.lastSequenceProcessed = n /\ h.receiver = r2 /\ h.blocks = bs
      /\ c.lastSequenceProcessed = n /\ c.receiver = r /\ c.blocks = blocks
  BY ChainFields
<1> QED BY <1>3, <1>4 DEF Follows

(* The block b of this batch may be appended at position n.                *)
Carries(b, batch, n, L) == Marked(b, n, L) /\ b.txs = batch

(* The marks of a block that is cut now are within the topic.              *)
LEMMA BatchBlockFields ==
  ASSUME NEW L \in Nat, NEW n \in 0 .. L, NEW batch, NEW t \in 0 .. n, NEW original,
         NEW free \in 0 .. n, NEW b, b = BatchBlock(batch, t, original, free, n)
  PROVE  Carries(b, batch, n, L)
BY DEF BatchBlock, Marked, Carries

(* So are those of a configuration block.                                  *)
LEMMA ConfigBlockFields ==
  ASSUME NEW L \in Nat, NEW n \in 0 .. L, NEW batch, NEW t \in 0 .. n, NEW original,
         NEW free \in 0 .. n, NEW b, b = ConfigBlock(batch, t, original, free, n)
  PROVE  Carries(b, batch, n, L)
BY DEF ConfigBlock, Marked, Carries

(* A position is a number in the interval that ends there.                 *)
LEMMA OwnInterval ==
  ASSUME NEW L \in Nat, NEW n \in 0 .. L
  PROVE  n \in Nat /\ n \in 0 .. n
OBVIOUS

(* A transaction is a message and its position.                            *)
LEMMA TransactionFields ==
  ASSUME NEW msg, NEW n, NEW tx, tx = [msg |-> msg, seq |-> n]
  PROVE  tx.seq = n /\ tx.msg = msg
OBVIOUS

(* commitNormalMessage.                                                    *)
LEMMA NormalCommitted ==
  ASSUME NEW n, NEW free, NEW ordered, NEW original, NEW configs, NEW r,
         NEW hashes, NEW p, NEW blocks, NEW c, NEW L \in Nat,
         Makes(c, n, free, ordered, original, configs, r, hashes, p, blocks),
         ChainOK(c, L), NEW msg, msg.env \in Envelopes, NEW o2,
         NEW tx, tx = [msg |-> msg, seq |-> n],
         NEW h, h = CommitWith(c, msg, n, o2,
                               Ordered(r, tx, SizeOf[msg.env], BatchSize))
  PROVE  Follows(c, h, L)
<1> DEFINE b   == r.pendingBatch
           res == Ordered(r, tx, SizeOf[msg.env], BatchSize)
           r2  == res.receiver
           k   == n
<1>a. PartsOK(n, free, ordered, r, hashes, p, blocks, L)
  BY OKChain, Zenon
<1>0. /\ n \in 0 .. L /\ free \in 0 .. n /\ ordered \in 0 .. n
      /\ ReceiverOK(r) /\ hashes = HashesOf(b) /\ BlocksOK(blocks, L)
  BY <1>a, Zenon DEF PartsOK
<1>b. n \in Nat /\ n \in 0 .. n
  BY <1>0, OwnInterval, Zenon
<1>c. tx.seq = n /\ tx.msg = msg
  BY TransactionFields, Zenon
<1>d. IsSeq(b)
  BY <1>0, Zenon DEF ReceiverOK
<1>1. /\ n \in Nat /\ n \in 0 .. n /\ tx.seq = n /\ tx.msg = msg /\ IsSeq(b)
  BY <1>b, <1>c, <1>d, Zenon
<1>2. SizeOf[msg.env] \in Nat
  BY HcsNetworkAssumption
<1>3. /\ ReceiverOK(r2)
      /\ \/ Joins(b, tx, res) \/ Overflows(b, tx, res)
         \/ Fills(b, tx, res) \/ Separates(b, tx, res)
  BY <1>0, <1>2, OrderedForms, Zenon
<1>4. /\ NewReceiver.pendingBatch = <<>> /\ ReceiverOK(NewReceiver)
      /\ HashesOf(<<>>) = {}
  BY EmptyReceiver, HashesOfBatches
<1>h. h = CommitWith(c, msg, k, o2, res) /\ k \in 0 .. n
  BY <1>1, Zenon
<1> HIDE DEF res, b, k
<1>6. CASE Joins(b, tx, res)
  <2> DEFINE hs == Plus(hashes, msg)
             b2 == Append(b, tx)
  <2>1. Makes(h, n, free, k, o2, configs, r2, hs, p, blocks)
    BY <1>h, <1>6, CommitJoins, Zenon
  <2>2. Grown(blocks, b, blocks, b2, n, L)
    BY <1>0, <1>1, GrownJoined, Zenon
  <2>h. HashesOf(b2) = HashesOf(b) \cup {tx.msg}
    BY <1>1, HashesOfBatches, Zenon
  <2>j. r2.pendingBatch = b2
    BY <1>6, Zenon DEF Joins
  <2>3. hs = HashesOf(r2.pendingBatch) /\ r2.pendingBatch = b2
    BY <1>0, <1>1, <2>h, <2>j, Zenon DEF Plus
  <2> HIDE DEF hs, b2, r2
  <2>4. Grown(blocks, r.pendingBatch, blocks, r2.pendingBatch, n, L)
    BY <2>2, <2>3, Zenon DEF b
  <2> QED BY <1>h, <1>3, <2>1, <2>3, <2>4, ChainFollows, Zenon
<1>7. CASE Overflows(b, tx, res)
  <2> DEFINE hs == Plus({}, msg)
             B  == BatchBlock(b, ordered, original, free, n)
             bs == Append(blocks, B)
             b2 == <<tx>>
  <2>1. Makes(h, n, free, ordered, original, configs, r2, hs, p, bs)
    BY <1>h, <1>7, CommitOverflows, Zenon
  <2>b. B = BatchBlock(b, ordered, original, free, n)
    BY Zenon
  <2> HIDE DEF B
  <2>c. Carries(B, b, n, L)
    BY <1>0, <2>b, BatchBlockFields, Zenon
  <2>2. Marked(B, n, L) /\ B.txs = b
    BY <2>c, Zenon DEF Carries
  <2>3. Grown(blocks, b, bs, b2, n, L)
    BY <1>0, <1>1, <1>7, <2>2, GrownOverflowed, Zenon DEF Overflows
  <2>4. hs = HashesOf(r2.pendingBatch) /\ r2.pendingBatch = b2
    BY <1>1, <1>7, HashesOfBatches, Zenon DEF Overflows, Plus
  <2> HIDE DEF hs, bs, b2, r2
  <2>5. Grown(blocks, r.pendingBatch, bs, r2.pendingBatch, n, L)
    BY <2>3, <2>4, Zenon DEF b
  <2> QED BY <1>0, <1>3, <2>1, <2>4, <2>5, ChainFollows, Zenon
<1>8. CASE Fills(b, tx, res)
  <2> DEFINE hs == {}
             q  == Append(b, tx)
             B  == BatchBlock(q, k, o2, free, n)
             bs == Append(blocks, B)
             b2 == <<>>
  <2>1. Makes(h, n, free, k, o2, configs, NewReceiver, hs, p, bs)
    BY <1>h, <1>8, CommitFills, Zenon
  <2> HIDE DEF q
  <2>b. B = BatchBlock(q, k, o2, free, n)
    BY Zenon
  <2> HIDE DEF B
  <2>c. Carries(B, q, n, L)
    BY <1>0, <1>h, <2>b, BatchBlockFields, Zenon
  <2>2. Marked(B, n, L) /\ B.txs = q
    BY <2>c, Zenon DEF Carries
  <2>3. Grown(blocks, b, bs, b2, n, L)
    BY <1>0, <1>1, <2>2, GrownFilled, Zenon DEF q
  <2>4. hs = HashesOf(NewReceiver.pendingBatch) /\ NewReceiver.pendingBatch = b2
    BY <1>4
  <2> HIDE DEF hs, bs, b2
  <2>5. Grown(blocks, r.pendingBatch, bs, NewReceiver.pendingBatch, n, L)
    BY <2>3, <2>4, Zenon DEF b
  <2> QED BY <1>h, <1>4, <2>1, <2>4, <2>5, ChainFollows, Zenon
<1>9. CASE Separates(b, tx, res)
  <2> DEFINE hs == {}
             B  == BatchBlock(b, ordered, original, free, n)
             E  == BatchBlock(Single(tx), k, o2, free, n)
             bs == TwoBlocks(blocks, b, ordered, original, tx, k, o2, free, n)
             b2 == <<>>
  <2>1. Makes(h, n, free, k, o2, configs, NewReceiver, hs, p, bs)
    BY <1>h, <1>9, CommitSeparates, Zenon
  <2>0. bs = Append(Append(blocks, B), E)
    BY DEF TwoBlocks
  <2> HIDE DEF bs
  <2>b. /\ B = BatchBlock(b, ordered, original, free, n)
        /\ E = BatchBlock(Single(tx), k, o2, free, n)
    BY Zenon
  <2> HIDE DEF B, E
  <2>c. Carries(B, b, n, L)
    BY <1>0, <2>b, BatchBlockFields, Zenon
  <2>d. Carries(E, Single(tx), n, L)
    BY <1>0, <1>h, <2>b, BatchBlockFields, Zenon
  <2>2. /\ Marked(B, n, L) /\ B.txs = b
        /\ Marked(E, n, L) /\ E.txs = Single(tx)
    BY <2>c, <2>d, Zenon DEF Carries
  <2>3. Grown(blocks, b, bs, b2, n, L)
    BY <1>0, <1>1, <1>9, <2>0, <2>2, GrownSeparated, Zenon DEF Separates, Single
  <2>4. hs = HashesOf(NewReceiver.pendingBatch) /\ NewReceiver.pendingBatch = b2
    BY <1>4
  <2> HIDE DEF hs, bs, b2
  <2>5. Grown(blocks, r.pendingBatch, bs, NewReceiver.pendingBatch, n, L)
    BY <2>3, <2>4, Zenon DEF b
  <2> QED BY <1>h, <1>4, <2>1, <2>4, <2>5, ChainFollows, Zenon
<1> QED BY <1>3, <1>6, <1>7, <1>8, <1>9, Zenon

(* commitConfigMessage.                                                    *)
LEMMA ConfigCommitted ==
  ASSUME NEW n, NEW free, NEW ordered, NEW original, NEW configs, NEW r,
         NEW hashes, NEW p, NEW blocks, NEW c, NEW L \in Nat,
         Makes(c, n, free, ordered, original, configs, r, hashes, p, blocks),
         ChainOK(c, L), NEW msg, NEW o2,
         NEW tx, tx = [msg |-> msg, seq |-> n],
         NEW h, h = commitConfigMessage(c, msg, n, o2)
  PROVE  Follows(c, h, L)
<1> DEFINE b  == r.pendingBatch
           b2 == <<>>
           k  == n
           E  == ConfigBlock(<<tx>>, k, o2, free, n)
<1>a. PartsOK(n, free, ordered, r, hashes, p, blocks, L)
  BY OKChain, Zenon
<1>0. /\ n \in 0 .. L /\ free \in 0 .. n /\ ordered \in 0 .. n
      /\ ReceiverOK(r) /\ hashes = HashesOf(b) /\ BlocksOK(blocks, L)
  BY <1>a, Zenon DEF PartsOK
<1>1. n \in Nat /\ n \in 0 .. n /\ tx.seq = n
  BY <1>0, OwnInterval, TransactionFields, Zenon
<1>2. /\ NewReceiver.pendingBatch = b2 /\ ReceiverOK(NewReceiver)
      /\ HashesOf(b2) = {}
  BY EmptyReceiver, HashesOfBatches, Zenon
<1>e. E = ConfigBlock(<<tx>>, k, o2, free, n) /\ k \in 0 .. n
  BY <1>1, Zenon
<1>h. h = commitConfigMessage(c, msg, k, o2) /\ tx = [msg |-> msg, seq |-> k]
  OBVIOUS
<1> HIDE DEF E, k
<1>f. Carries(E, <<tx>>, n, L)
  BY <1>0, <1>e, ConfigBlockFields, Zenon
<1>3. Marked(E, n, L) /\ E.txs = <<tx>>
  BY <1>f, Zenon DEF Carries
<1>4. CASE b = <<>>
  <2> DEFINE bs == Append(blocks, E)
  <2>1. Makes(h, n, free, ordered, o2, configs + 1, NewReceiver, hashes, p, bs)
    BY <1>h, <1>4, ConfigAlone, Zenon DEF E
  <2>2. Grown(blocks, b, bs, b2, n, L)
    BY <1>0, <1>1, <1>3, <1>4, GrownAlone, Zenon
  <2>3. hashes = HashesOf(NewReceiver.pendingBatch)
    BY <1>0, <1>2, <1>4, Zenon
  <2> HIDE DEF bs, b2
  <2> QED BY <1>0, <1>2, <2>1, <2>2, <2>3, ChainFollows, Zenon DEF b
<1>5. CASE b # <<>>
  <2> DEFINE hs == {}
             B  == BatchBlock(b, ordered, original, free, n)
             bs == Append(Append(blocks, B), E)
  <2>1. Makes(h, n, free, ordered, o2, configs + 1, NewReceiver, hs, p, bs)
    BY <1>h, <1>5, ConfigAfterBatch, Zenon DEF E
  <2>b. B = BatchBlock(b, ordered, original, free, n)
    OBVIOUS
  <2> HIDE DEF B
  <2>c. Carries(B, b, n, L)
    BY <1>0, <2>b, BatchBlockFields, Zenon
  <2>2. Marked(B, n, L) /\ B.txs = b
    BY <2>c, Zenon DEF Carries
  <2>3. Grown(blocks, b, bs, b2, n, L)
    BY <1>0, <1>1, <1>3, <1>5, <2>2, GrownSeparated, Zenon
  <2>4. hs = HashesOf(NewReceiver.pendingBatch)
    BY <1>2
  <2> HIDE DEF hs, bs, b2
  <2> QED BY <1>0, <1>2, <2>1, <2>3, <2>4, ChainFollows, Zenon DEF b
<1> QED BY <1>4, <1>5, Zenon
=============================================================================
