----------------------- MODULE AppMsgDeliveryProofs ------------------------
(***************************************************************************)
(* Proofs about AppMsgProcessorSpec: what Reassemble delivers.  A message  *)
(* is delivered no more often than it arrived, and one whose holder was    *)
(* neither expired nor evicted is delivered once all of it has arrived.    *)
(***************************************************************************)
EXTENDS AppMsgProcessorProofs

(* What is delivered has arrived.                                          *)

HistoryType ==
  /\ arrivals \in [Messages -> {arrivals[m] : m \in Messages}]
  /\ \A m \in Messages : arrivals[m] \in [Indexes(m) -> Nat]
  /\ delivered \in [Messages -> Nat]
  /\ intact \in [Messages -> BOOLEAN]
  /\ touched \in [Messages -> Nat]

(* A chunk of the message k that is held came once more than k was         *)
(* returned, and under the number of chunks k was cut into.                *)
Fed(k, h, came, returned) ==
  \A i \in DOMAIN h.chunks :
    h.chunks[i] \in Messages => /\ h.chunks[i] = k /\ i \in Indexes(k)
                                /\ h.count = CountOf[k]
                                /\ returned + 1 <= came[i]

DeliveryInv ==
  /\ HistoryType
  /\ NoSpuriousDelivery
  /\ \A k \in DOMAIN processor.holders :
       Fed(k, processor.holders[k], arrivals[k], delivered[k])

(* The history variables after a chunk of a message.                       *)
LEMMA ChunkHistory ==
  ASSUME HistoryType, NEW m \in Messages, NEW c \in Split(m), NEW gap,
         ReceiveChunk(m, c, gap), now' \in Nat
  PROVE  /\ arrivals' \in [Messages -> {arrivals'[n] : n \in Messages}]
         /\ \A n \in Messages : arrivals'[n] \in [Indexes(n) -> Nat]
         /\ intact' \in [Messages -> BOOLEAN]
         /\ touched' \in [Messages -> Nat]
         /\ \A n \in Messages : n # m => /\ arrivals'[n] = arrivals[n]
                                         /\ touched'[n] = touched[n]
                                         /\ intact'[n] = intact[n]
         /\ \A i \in Indexes(m) : i # c.index => arrivals'[m][i] = arrivals[m][i]
         /\ arrivals'[m][c.index] = arrivals[m][c.index] + 1
         /\ touched'[m] = now'
         /\ intact'[m] => /\ intact[m]
                          /\ arrivals[m][c.index] = 0
                          /\ touched[m] = 0 \/ now' - touched[m] < ReassembleTimeout
<1> DEFINE new == [arrivals[m] EXCEPT ![c.index] = @ + 1]
           ok == /\ intact[m]
                 /\ arrivals[m][c.index] = 0
                 /\ touched[m] = 0 \/ now' - touched[m] < ReassembleTimeout
<1>1. c.index \in Indexes(m)
  BY SplitChunks
<1>2. /\ DOMAIN arrivals = Messages /\ arrivals[m] \in [Indexes(m) -> Nat]
      /\ \A n \in Messages : arrivals[n] \in [Indexes(n) -> Nat]
      /\ arrivals = [n \in Messages |-> arrivals[n]]
  BY DEF HistoryType
<1>3. arrivals' = [arrivals EXCEPT ![m] = new]
  BY DEF ReceiveChunk
<1>4. /\ new \in [Indexes(m) -> Nat]
      /\ \A i \in Indexes(m) : i # c.index => new[i] = arrivals[m][i]
      /\ new[c.index] = arrivals[m][c.index] + 1
  BY <1>1, <1>2
<1> HIDE DEF new
<1>5. /\ arrivals'[m] = new /\ DOMAIN arrivals' = Messages
      /\ \A n \in Messages : n # m => arrivals'[n] = arrivals[n]
      /\ arrivals' = [n \in Messages |-> arrivals'[n]]
  BY <1>2, <1>3
<1>6. arrivals' \in [Messages -> {arrivals'[n] : n \in Messages}]
  BY <1>5
<1>7. \A n \in Messages : arrivals'[n] \in [Indexes(n) -> Nat]
  BY <1>2, <1>4, <1>5
<1>8. /\ touched' \in [Messages -> Nat] /\ touched'[m] = now'
      /\ \A n \in Messages : n # m => touched'[n] = touched[n]
  BY DEF ReceiveChunk, HistoryType
<1>9. intact' = [intact EXCEPT ![m] = ok] /\ intact \in [Messages -> BOOLEAN]
  BY DEF ReceiveChunk, HistoryType
<1>10. ok \in BOOLEAN
  OBVIOUS
<1>11. /\ intact' \in [Messages -> BOOLEAN] /\ intact'[m] = ok
       /\ \A n \in Messages : n # m => intact'[n] = intact[n]
  <2> HIDE DEF ok
  <2> QED BY <1>9, <1>10
<1>12. intact'[m] => /\ intact[m]
                     /\ arrivals[m][c.index] = 0
                     /\ touched[m] = 0 \/ now' - touched[m] < ReassembleTimeout
  BY <1>11, Zenon
<1> QED BY <1>4, <1>5, <1>6, <1>7, <1>8, <1>11, <1>12

(* The history of the other messages does not change.                      *)
LEMMA OtherHistory ==
  ASSUME HistoryType, NEW m \in Messages, NEW c \in Split(m), NEW gap,
         ReceiveChunk(m, c, gap), now' \in Nat, NEW n \in Messages, n # m
  PROVE  arrivals'[n] = arrivals[n] /\ touched'[n] = touched[n] /\ intact'[n] = intact[n]
BY ChunkHistory

(* Which message a valid chunk can make the processor return.              *)
ReturnedForm(p, c, t, res) ==
  /\ res.message = c.body /\ Verify(c.body)
  /\ \/ c.count = 1
     \/ /\ c.count > 1
        /\ Keeps(res.processor, p, Live(p, t) \ {c.key})
        /\ DOMAIN holderOf(p, c).chunks = (0 .. c.count - 1) \ {c.index}
        /\ \A i \in DOMAIN holderOf(p, c).chunks :
             holderOf(p, c).chunks[i] = c.body

(* A chunk that is the whole message is unwrapped as it comes.             *)
LEMMA SingleChunk ==
  ASSUME NEW p, NEW c, NEW t, NEW res, ReassembledForm(p, c, t, res), c.count = 1
  PROVE  res.message = unwrap([i \in {0} |-> c.body])
BY DEF ReassembledForm

(* It is the one the chunk was cut from, and all others are held.          *)
LEMMA Returned ==
  ASSUME NEW p, NEW s \in Nat, NEW t \in Nat, s < t, ProcOK(p, s),
         NEW c, GoodChunk(c), isValidChunk(p, c),
         NEW res, ReassembledForm(p, c, t, res), res.message \in Messages
  PROVE  ReturnedForm(p, c, t, res)
<1>0. c.count \in Int /\ c.index \in 0 .. c.count - 1 /\ c.body \in Bodies
  BY DEF isValidChunk, GoodChunk
<1>1. CASE c.count = 1
  <2> DEFINE f == [i \in {0} |-> c.body]
  <2>1. f \in [{0} -> Bodies] /\ f[0] = c.body /\ 0 \in {0}
    BY <1>0
  <2>2. res.message = unwrap(f)
    BY <1>1 DEF ReassembledForm
  <2> HIDE DEF f
  <2>3. IsFiniteSet({0})
    BY FS_Singleton, Zenon
  <2>4. Verify(unwrap(f)) /\ \A i \in {0} : f[i] = unwrap(f)
    BY <2>1, <2>2, <2>3, UnwrapSound
  <2>5. unwrap(f) = c.body
    BY <2>1, <2>4
  <2> QED BY <1>1, <2>2, <2>4, <2>5 DEF ReturnedForm
<1>2. CASE c.count # 1
  <2> DEFINE j == Joined(p, c, t)
             h == holderOf(p, c)
             f == j.chunks
             D == DOMAIN h.chunks
             n == c.count - 1
  <2>1. c.count > 1
    BY <1>0, <1>2
  <2>2. res.message # NoMessage
    BY AppMsgProcessorSpecAssumption
  <2>3. /\ j.received = j.count /\ res.message = unwrap(f)
        /\ Keeps(res.processor, p, Live(p, t) \ {c.key})
    BY <1>2, <2>2 DEF ReassembledForm
  <2>4. HolderOK(h, c.key, s) /\ HolderOK(j, c.key, t) /\ c.count = h.count /\ c.index \notin D
    BY <2>1, JoinedOK, Zenon
  <2>5. /\ f = [i \in D \cup {c.index} |-> IF i = c.index THEN c.body ELSE h.chunks[i]]
        /\ j.count = h.count
    BY DEF Joined
  <2>6. /\ j.received = Cardinality(DOMAIN f) /\ DOMAIN f \subseteq 0 .. n
        /\ f \in [DOMAIN f -> Bodies] /\ j.count = c.count
    <3>1. j.count = c.count
      BY <2>4, <2>5
    <3> QED BY <2>4, <3>1 DEF HolderOK, Holders
  <2> HIDE DEF j, h, f, D
  <2>7. /\ DOMAIN f = D \cup {c.index} /\ f[c.index] = c.body
        /\ \A i \in D : f[i] = h.chunks[i]
    BY <2>4, <2>5
  <2>8. IsFiniteSet(0 .. n) /\ Cardinality(0 .. n) = c.count
    <3>1. 0 \in Int /\ n \in Int /\ ~(0 > n) /\ n - 0 + 1 = c.count
      BY <1>0, <2>1
    <3> QED BY <3>1, FS_Interval, Zenon
  <2>9. IsFiniteSet(DOMAIN f) /\ DOMAIN f = 0 .. n
    <3> HIDE DEF n
    <3> QED BY <2>3, <2>6, <2>8, FS_Subset, Zenon
  <2>10. Verify(unwrap(f)) /\ \A i \in DOMAIN f : f[i] = unwrap(f)
    BY <2>3, <2>6, <2>9, UnwrapSound, Zenon
  <2>11. unwrap(f) = c.body
    BY <2>7, <2>10
  <2>12. D = (0 .. n) \ {c.index} /\ \A i \in D : h.chunks[i] = c.body
    BY <2>4, <2>7, <2>9, <2>10, <2>11 DEF D
  <2> QED BY <2>1, <2>3, <2>10, <2>11, <2>12, Zenon DEF h, D, ReturnedForm
<1> QED BY <1>1, <1>2

(* How a call changes the number of times a message was returned.          *)
Gains(n, c) ==
  /\ delivered'[n] = delivered[n] + 1
  /\ n = c.body /\ Verify(n) /\ isValidChunk(processor, c)
  /\ \/ c.count = 1
     \/ /\ c.count > 1
        /\ c.key \notin DOMAIN processor'.holders
        /\ DOMAIN holderOf(processor, c).chunks = (0 .. c.count - 1) \ {c.index}
        /\ \A i \in DOMAIN holderOf(processor, c).chunks :
             holderOf(processor, c).chunks[i] = c.body

(* No call returns a message except as Gains says.                         *)
LEMMA CallDelivers ==
  ASSUME ProcInv, delivered \in [Messages -> Nat], NEW c, NEW gap, Calls(c, gap)
  PROVE  /\ delivered' \in [Messages -> Nat]
         /\ \A n \in Messages : delivered'[n] = delivered[n] \/ Gains(n, c)
<1>0. now \in Nat /\ now' \in Nat /\ now < now' /\ ProcOK(processor, now) /\ GoodChunk(c)
  BY CallForm DEF ProcInv, Calls
<1>1. CASE ~isValidChunk(processor, c)
  <2>1. delivered' = [m \in Messages |->
                        delivered[m] + IF NoMessage = m THEN 1 ELSE 0]
    BY <1>1, CallForm
  <2> QED BY <2>1, AppMsgProcessorSpecAssumption
<1>2. CASE isValidChunk(processor, c)
  <2>1. PICK res :
          /\ ReassembledForm(processor, c, now', res) /\ processor' = res.processor
          /\ delivered' = [m \in Messages |->
                             delivered[m] + IF res.message = m THEN 1 ELSE 0]
    BY <1>2, CallForm
  <2>2. /\ delivered' \in [Messages -> Nat]
        /\ \A n \in Messages : IF res.message = n THEN delivered'[n] = delivered[n] + 1
                                                  ELSE delivered'[n] = delivered[n]
    BY <2>1
  <2>3. ASSUME NEW n \in Messages, res.message = n PROVE Gains(n, c)
    <3>1. ReturnedForm(processor, c, now', res)
      BY <1>0, <1>2, <2>1, <2>3, Returned
    <3>2. Keeps(res.processor, processor, Live(processor, now') \ {c.key})
            => c.key \notin DOMAIN processor'.holders
      BY <2>1 DEF Keeps
    <3> QED BY <1>2, <2>2, <2>3, <3>1, <3>2 DEF Gains, ReturnedForm
  <2> QED BY <2>2, <2>3
<1> QED BY <1>1, <1>2

(* Where a holder comes from that the processor has after a call.          *)
LEMMA CallHolders ==
  ASSUME ProcInv, NEW c, NEW gap, Calls(c, gap), NEW k \in DOMAIN processor'.holders
  PROVE  \/ /\ k \in DOMAIN processor.holders
            /\ processor'.holders[k] = processor.holders[k]
         \/ /\ k = c.key /\ isValidChunk(processor, c) /\ c.count > 1
            /\ processor'.holders[k] = Joined(processor, c, now')
<1>1. CASE ~isValidChunk(processor, c)
  BY <1>1, CallForm
<1>2. CASE isValidChunk(processor, c)
  <2>1. PICK res : /\ ReassembledForm(processor, c, now', res)
                   /\ processor' = res.processor
    BY <1>2, CallForm
  <2>2. Live(processor, now') \subseteq DOMAIN processor.holders
    BY DEF Live
  <2>3. \/ Keeps(processor', processor, Live(processor, now'))
        \/ Keeps(processor', processor, Live(processor, now') \ {c.key})
        \/ c.count > 1 /\ Puts(processor', processor, c.key,
                               Joined(processor, c, now'), Live(processor, now'))
    BY <2>1 DEF ReassembledForm
  <2> QED BY <1>2, <2>2, <2>3 DEF Keeps, Puts
<1> QED BY <1>1, <1>2

(* A holder goes on being fed while the counts only grow.                  *)
LEMMA FedStays ==
  ASSUME NEW k \in Messages, NEW h, NEW came \in [Indexes(k) -> Nat],
         NEW came2 \in [Indexes(k) -> Nat], NEW r \in Nat, NEW r2 \in Nat,
         Fed(k, h, came, r),
         \A i \in Indexes(k) : r + 1 <= came[i] => r2 + 1 <= came2[i]
  PROVE  Fed(k, h, came2, r2)
BY DEF Fed

(* The holder a chunk joins is fed if it was before and the chunk is.      *)
LEMMA FedJoins ==
  ASSUME NEW p, NEW c, GoodChunk(c), NEW t, NEW came \in [Indexes(c.key) -> Nat],
         NEW r \in Nat,
         c.key \in DOMAIN p.holders => Fed(c.key, p.holders[c.key], came, r),
         c.count = holderOf(p, c).count,
         c.body \in Messages => /\ c.body = c.key /\ c.index \in Indexes(c.key)
                                /\ c.count = CountOf[c.key] /\ r + 1 <= came[c.index]
  PROVE  Fed(c.key, Joined(p, c, t), came, r)
<1> DEFINE h == holderOf(p, c)
           j == Joined(p, c, t)
<1>1. /\ j.count = h.count
      /\ j.chunks = [i \in DOMAIN h.chunks \cup {c.index} |->
                       IF i = c.index THEN c.body ELSE h.chunks[i]]
  BY DEF Joined
<1>2. Fed(c.key, h, came, r)
  <2>1. CASE c.key \in DOMAIN p.holders
    BY <2>1, Zenon DEF holderOf
  <2>2. CASE c.key \notin DOMAIN p.holders
    <3>1. h.chunks = [i \in {} |-> {}]
      BY <2>2 DEF holderOf
    <3>2. DOMAIN h.chunks = {}
      BY <3>1
    <3> QED BY <3>2 DEF Fed
  <2> QED BY <2>1, <2>2
<1> HIDE DEF h, j
<1>3. ASSUME NEW i \in DOMAIN j.chunks, j.chunks[i] \in Messages
      PROVE  /\ j.chunks[i] = c.key /\ i \in Indexes(c.key)
             /\ j.count = CountOf[c.key] /\ r + 1 <= came[i]
  <2>1. CASE i = c.index
    BY <1>1, <1>3, <2>1 DEF h
  <2>2. CASE i # c.index
    <3>1. i \in DOMAIN h.chunks /\ j.chunks[i] = h.chunks[i]
      BY <1>1, <2>2
    <3> QED BY <1>1, <1>2, <1>3, <3>1, Zenon DEF Fed
  <2> QED BY <2>1, <2>2
<1>4. Fed(c.key, j, came, r)
  BY <1>3 DEF Fed
<1> QED BY <1>4 DEF j

(* A chunk that arrives pays for the delivery it completes.                *)
LEMMA DeliveryChunk ==
  ASSUME ProcInv, DeliveryInv, NEW m \in Messages, NEW gap, NEW c \in Split(m),
         Calls(c, gap), ReceiveChunk(m, c, gap)
  PROVE  DeliveryInv'
<1>0. /\ GoodChunk(c) /\ c.key = m /\ c.count = CountOf[m] /\ c.index \in Indexes(m)
      /\ c.body = m /\ CountOf[m] \in Nat \ {0}
      /\ now \in Nat /\ now' \in Nat /\ now < now' /\ ProcOK(processor, now)
      /\ ProcOK(processor', now')
  BY SplitChunks, CallForm, AppMsgProcessorSpecAssumption, Zenon DEF ProcInv
<1>1. /\ HistoryType /\ delivered \in [Messages -> Nat]
      /\ \A n \in Messages : arrivals[n] \in [Indexes(n) -> Nat]
  BY DEF DeliveryInv, HistoryType
<1>2. /\ arrivals' \in [Messages -> {arrivals'[n] : n \in Messages}]
      /\ \A n \in Messages : arrivals'[n] \in [Indexes(n) -> Nat]
      /\ intact' \in [Messages -> BOOLEAN]
      /\ touched' \in [Messages -> Nat]
      /\ \A n \in Messages : n # m => arrivals'[n] = arrivals[n]
      /\ \A i \in Indexes(m) : i # c.index => arrivals'[m][i] = arrivals[m][i]
      /\ arrivals'[m][c.index] = arrivals[m][c.index] + 1
  BY <1>0, <1>1, ChunkHistory
<1>3. /\ delivered' \in [Messages -> Nat]
      /\ \A n \in Messages : delivered'[n] = delivered[n] \/ Gains(n, c)
  BY <1>1, CallDelivers, Zenon
<1>4. HistoryType'
  BY <1>2, <1>3 DEF HistoryType
<1>5. \A n \in Messages : \A i \in Indexes(n) : /\ arrivals[n][i] \in Nat
                                                /\ arrivals'[n][i] \in Nat
                                                /\ arrivals[n][i] <= arrivals'[n][i]
  <2> SUFFICES ASSUME NEW n \in Messages, NEW i \in Indexes(n)
               PROVE  /\ arrivals[n][i] \in Nat /\ arrivals'[n][i] \in Nat
                      /\ arrivals[n][i] <= arrivals'[n][i]
    OBVIOUS
  <2>1. arrivals[n][i] \in Nat /\ arrivals'[n][i] \in Nat
    BY <1>1, <1>2
  <2>2. arrivals'[n][i] = arrivals[n][i] \/ arrivals'[n][i] = arrivals[n][i] + 1
    BY <1>2, Zenon
  <2> QED BY <2>1, <2>2
<1>6. c.count = 1 => \A i \in Indexes(m) : i = c.index
  BY <1>0 DEF Indexes
<1>7. \A k \in DOMAIN processor.holders :
        Fed(k, processor.holders[k], arrivals[k], delivered[k])
  BY DEF DeliveryInv
<1>8. \A n \in Messages : /\ delivered[n] \in Nat /\ delivered'[n] \in Nat
                          /\ \A i \in Indexes(n) : delivered[n] <= arrivals[n][i]
                          /\ delivered[n] > 0 => Verify(n)
  BY <1>1, <1>3 DEF DeliveryInv, NoSpuriousDelivery
<1>9. ASSUME NEW n \in Messages, NEW i \in Indexes(n)
      PROVE  delivered'[n] <= arrivals'[n][i]
  <2>1. CASE delivered'[n] = delivered[n]
    BY <1>5, <1>8, <2>1
  <2>2. CASE Gains(n, c)
    <3>1. n = m /\ delivered'[n] = delivered[n] + 1
      BY <1>0, <2>2 DEF Gains
    <3>2. CASE i = c.index
      BY <1>2, <1>5, <1>8, <3>1, <3>2
    <3>3. CASE i # c.index
      <4> DEFINE h == holderOf(processor, c)
      <4>1. DOMAIN h.chunks = (0 .. c.count - 1) \ {c.index} /\ h.chunks[i] = m
        BY <1>0, <1>6, <2>2, <3>1, <3>3, Zenon DEF Gains, Indexes
      <4>2. i \in DOMAIN h.chunks
        BY <1>0, <3>1, <3>3, <4>1, Zenon DEF Indexes
      <4>3. m \in DOMAIN processor.holders /\ h = processor.holders[m]
        <5>1. CASE m \notin DOMAIN processor.holders
          <6>1. h.chunks = [x \in {} |-> {}]
            BY <1>0, <5>1 DEF holderOf
          <6>2. DOMAIN h.chunks = {}
            BY <6>1
          <6> QED BY <4>2, <6>2
        <5>2. CASE m \in DOMAIN processor.holders
          BY <1>0, <5>2 DEF holderOf
        <5> QED BY <5>1, <5>2
      <4> HIDE DEF h
      <4>4. Fed(m, h, arrivals[m], delivered[m])
        BY <1>7, <4>3
      <4>5. delivered[m] + 1 <= arrivals[m][i]
        BY <4>1, <4>2, <4>4 DEF Fed
      <4> QED BY <1>2, <3>1, <3>3, <4>5, Zenon
    <3> QED BY <3>2, <3>3
  <2> QED BY <1>3, <2>1, <2>2
<1>10. ASSUME NEW n \in Messages, delivered'[n] > 0 PROVE Verify(n)
  BY <1>3, <1>8, <1>10, Zenon DEF Gains
<1>11. NoSpuriousDelivery'
  BY <1>9, <1>10, Zenon DEF NoSpuriousDelivery
<1>12. ASSUME NEW k \in DOMAIN processor'.holders
       PROVE  Fed(k, processor'.holders[k], arrivals'[k], delivered'[k])
  <2>1. k \in Messages
    BY <1>0, Zenon DEF ProcOK
  <2>2. CASE k \in DOMAIN processor.holders /\ processor'.holders[k] = processor.holders[k]
    <3>1. ASSUME NEW i \in Indexes(k), delivered[k] + 1 <= arrivals[k][i]
          PROVE  delivered'[k] + 1 <= arrivals'[k][i]
      <4>1. CASE delivered'[k] = delivered[k]
        BY <1>5, <1>8, <2>1, <3>1, <4>1
      <4>2. CASE Gains(k, c)
        <5>1. k = m /\ delivered'[k] = delivered[k] + 1 /\ c.count = 1
          BY <1>0, <1>12, <4>2, Zenon DEF Gains
        <5> QED BY <1>2, <1>5, <1>6, <1>8, <3>1, <5>1
      <4> QED BY <1>3, <2>1, <4>1, <4>2, Zenon
    <3>2. Fed(k, processor.holders[k], arrivals[k], delivered[k])
      BY <1>7, <2>2
    <3>3. Fed(k, processor.holders[k], arrivals'[k], delivered'[k])
      BY <1>1, <1>2, <1>8, <2>1, <3>1, <3>2, FedStays, Zenon
    <3> QED BY <2>2, <3>3
  <2>3. CASE /\ k = c.key /\ isValidChunk(processor, c) /\ c.count > 1
             /\ processor'.holders[k] = Joined(processor, c, now')
    <3>1. k = m /\ delivered'[k] = delivered[k]
      BY <1>0, <1>3, <1>12, <2>1, <2>3 DEF Gains
    <3>2. c.key \in DOMAIN processor.holders
            => Fed(c.key, processor.holders[c.key], arrivals'[m], delivered[m])
      <4> SUFFICES ASSUME m \in DOMAIN processor.holders
                   PROVE  Fed(m, processor.holders[m], arrivals'[m], delivered[m])
        BY <1>0
      <4>1. \A i \in Indexes(m) : delivered[m] + 1 <= arrivals[m][i]
                                    => delivered[m] + 1 <= arrivals'[m][i]
        BY <1>5, <1>8
      <4>2. Fed(m, processor.holders[m], arrivals[m], delivered[m])
        BY <1>7
      <4> QED BY <1>1, <1>2, <1>8, <4>1, <4>2, FedStays, Zenon
    <3>3. delivered[m] + 1 <= arrivals'[m][c.index]
      BY <1>0, <1>2, <1>5, <1>8
    <3>4. c.count = holderOf(processor, c).count
      BY <2>3 DEF isValidChunk
    <3>5. arrivals'[m] \in [Indexes(c.key) -> Nat] /\ delivered[m] \in Nat
      BY <1>0, <1>2, <1>8
    <3>6. Fed(c.key, Joined(processor, c, now'), arrivals'[m], delivered[m])
      BY <1>0, <3>2, <3>3, <3>4, <3>5, FedJoins, Zenon
    <3> QED BY <1>0, <2>3, <3>1, <3>6, Zenon
  <2> QED BY <2>2, <2>3, CallHolders
<1> QED BY <1>4, <1>11, <1>12 DEF DeliveryInv

(* A malformed chunk completes no message.                                 *)
LEMMA DeliveryMalformed ==
  ASSUME ProcInv, DeliveryInv, NEW gap, NEW c \in Malformed,
         Calls(c, gap), ReceiveMalformed(c, gap)
  PROVE  DeliveryInv'
<1>0. /\ GoodChunk(c) /\ c.body \notin Messages /\ c.key \in Messages
      /\ ProcOK(processor', now')
  BY MalformedChunks, CallForm DEF ProcInv, GoodChunk
<1>1. /\ HistoryType /\ delivered \in [Messages -> Nat]
      /\ \A n \in Messages : arrivals[n] \in [Indexes(n) -> Nat]
      /\ \A k \in DOMAIN processor.holders :
           Fed(k, processor.holders[k], arrivals[k], delivered[k])
  BY DEF DeliveryInv, HistoryType
<1>2. /\ arrivals' = arrivals /\ touched' = touched
      /\ intact' = [intact EXCEPT ![c.key] = FALSE]
  BY DEF ReceiveMalformed
<1>3. delivered' = delivered
  <2>1. /\ delivered' \in [Messages -> Nat]
        /\ \A n \in Messages : delivered'[n] = delivered[n]
    BY <1>0, <1>1, CallDelivers, Zenon DEF Gains
  <2> QED BY <1>1, <2>1
<1>4. HistoryType'
  BY <1>1, <1>2, <1>3, Zenon DEF HistoryType
<1>5. NoSpuriousDelivery'
  BY <1>2, <1>3, Zenon DEF DeliveryInv, NoSpuriousDelivery
<1>6. ASSUME NEW k \in DOMAIN processor'.holders
      PROVE  Fed(k, processor'.holders[k], arrivals[k], delivered[k])
  <2>1. CASE k \in DOMAIN processor.holders /\ processor'.holders[k] = processor.holders[k]
    BY <1>1, <2>1, Zenon
  <2>2. CASE /\ k = c.key /\ isValidChunk(processor, c) /\ c.count > 1
             /\ processor'.holders[k] = Joined(processor, c, now')
    <3>1. c.count = holderOf(processor, c).count
      BY <2>2 DEF isValidChunk
    <3>2. arrivals[k] \in [Indexes(c.key) -> Nat] /\ delivered[k] \in Nat
      BY <1>0, <1>1, <2>2, Zenon
    <3>3. c.key \in DOMAIN processor.holders
            => Fed(c.key, processor.holders[c.key], arrivals[k], delivered[k])
      BY <1>1, <2>2
    <3>4. Fed(c.key, Joined(processor, c, now'), arrivals[k], delivered[k])
      BY <1>0, <3>1, <3>2, <3>3, FedJoins, Zenon
    <3> QED BY <2>2, <3>4, Zenon
  <2> QED BY <2>1, <2>2, CallHolders, Zenon
<1> QED BY <1>2, <1>3, <1>4, <1>5, <1>6, Zenon DEF DeliveryInv

(* Every call keeps the deliveries covered by arrivals.                    *)
LEMMA DeliveryInvariant == Spec => []DeliveryInv
<1>1. Init => DeliveryInv
  <2> SUFFICES ASSUME Init PROVE DeliveryInv
    OBVIOUS
  <2>1. /\ arrivals = [m \in Messages |-> [i \in Indexes(m) |-> 0]]
        /\ delivered = [m \in Messages |-> 0]
        /\ intact = [m \in Messages |-> TRUE]
        /\ touched = [m \in Messages |-> 0]
        /\ processor.holders = [k \in {} |-> {}]
    BY DEF Init, newAppMsgProcessor
  <2>2. \A m \in Messages : arrivals[m] = [i \in Indexes(m) |-> 0]
    BY <2>1
  <2>3. HistoryType
    BY <2>1, <2>2 DEF HistoryType
  <2>4. NoSpuriousDelivery
    BY <2>1, <2>2 DEF NoSpuriousDelivery
  <2>5. DOMAIN processor.holders = {}
    BY <2>1
  <2> QED BY <2>3, <2>4, <2>5 DEF DeliveryInv
<1>2. ProcInv /\ DeliveryInv /\ [Next]_vars => DeliveryInv'
  <2> SUFFICES ASSUME ProcInv, DeliveryInv, [Next]_vars PROVE DeliveryInv'
    OBVIOUS
  <2>1. ASSUME NEW m \in Messages, NEW gap \in Gaps, NEW c \in Split(m),
               Calls(c, gap), ReceiveChunk(m, c, gap)
        PROVE  DeliveryInv'
    BY <2>1, DeliveryChunk
  <2>2. ASSUME NEW c \in Malformed, NEW gap \in Gaps,
               Calls(c, gap), ReceiveMalformed(c, gap)
        PROVE  DeliveryInv'
    BY <2>2, DeliveryMalformed, Zenon
  <2>3. ASSUME NEW app \in Apps, OrdererStarted(app) PROVE DeliveryInv'
    <3>1. Keeps(processor', processor,
                {k \in DOMAIN processor.holders : AppOf[k] # app})
      BY <2>3, ExpireAppForm
    <3>2. /\ UNCHANGED <<arrivals, delivered, touched>>
          /\ intact' = [m \in Messages |-> intact[m] /\ AppOf[m] # app]
      BY <2>3 DEF OrdererStarted
    <3>3. intact' \in [Messages -> BOOLEAN]
      BY <3>2, Zenon
    <3>4. HistoryType'
      BY <3>2, <3>3, Zenon DEF DeliveryInv, HistoryType
    <3> QED BY <3>1, <3>2, <3>4 DEF DeliveryInv, NoSpuriousDelivery, Keeps
  <2>4. CASE UNCHANGED vars
    BY <2>4 DEF vars, DeliveryInv, HistoryType, NoSpuriousDelivery
  <2> QED BY <2>1, <2>2, <2>3, <2>4, StepForms
<1> QED BY <1>1, <1>2, ProcInvariant, PTL DEF Spec

(* Duplicates, reordering and malformed chunks never make Reassemble       *)
(* return a message more often than each of its chunks was received, nor   *)
(* one whose signature does not verify.                                    *)
THEOREM AppMsgNoSpuriousDelivery == Spec => []NoSpuriousDelivery
<1>1. DeliveryInv => NoSpuriousDelivery
  BY DEF DeliveryInv
<1> QED BY <1>1, DeliveryInvariant, PTL

-----------------------------------------------------------------------------
(* What arrives in time is delivered.                                      *)

Arrived(m) == {i \in Indexes(m) : arrivals[m][i] # 0}

(* The holder of m is what its chunks that have arrived make of it.        *)
Waiting(m) ==
  /\ m \in DOMAIN processor.holders
  /\ processor.holders[m].chunks = [i \in Arrived(m) |-> m]
  /\ processor.holders[m].count = CountOf[m]
  /\ processor.holders[m].timestamp = touched[m]

(* Nothing is held of a message of which nothing has arrived.  One of      *)
(* which a part has arrived waits, or has been waiting for too long.  One  *)
(* that has arrived has been returned.                                     *)
IntactOK(m) ==
  /\ Arrived(m) = {} => m \notin DOMAIN processor.holders /\ touched[m] = 0
  /\ Arrived(m) # {} => touched[m] \in 1 .. now
  /\ Arrived(m) # {} /\ Arrived(m) # Indexes(m)
       => now - touched[m] >= ReassembleTimeout \/ Waiting(m)
  /\ Arrived(m) = Indexes(m) /\ Verify(m) => delivered[m] >= 1

IntactInv == \A m \in Messages : intact[m] => IntactOK(m)

(* A step that concerns other messages may only expire the holder of m.    *)
LEMMA IntactStays ==
  ASSUME NEW m \in Messages, IntactOK(m), HistoryType,
         now \in Nat, now' \in Nat, now <= now',
         arrivals'[m] = arrivals[m], touched'[m] = touched[m],
         delivered[m] \in Nat, delivered'[m] \in Nat, delivered[m] <= delivered'[m],
         m \in DOMAIN processor'.holders
           => /\ m \in DOMAIN processor.holders
              /\ processor'.holders[m] = processor.holders[m],
         m \in DOMAIN processor.holders /\ m \notin DOMAIN processor'.holders
           => Late(processor.holders[m], now')
  PROVE  IntactOK(m)'
<1>1. Arrived(m)' = Arrived(m) /\ touched[m] \in Nat
  BY Zenon DEF Arrived, HistoryType
<1>2. Arrived(m) = {} => m \notin DOMAIN processor'.holders /\ touched[m] = 0
  BY DEF IntactOK
<1>3. Arrived(m) # {} => touched[m] \in 1 .. now'
  BY DEF IntactOK
<1>4. Arrived(m) = Indexes(m) /\ Verify(m) => delivered'[m] >= 1
  BY DEF IntactOK
<1>5. Arrived(m) # {} /\ Arrived(m) # Indexes(m)
        => now' - touched[m] >= ReassembleTimeout \/ Waiting(m)'
  <2> SUFFICES ASSUME Arrived(m) # {} /\ Arrived(m) # Indexes(m)
               PROVE  now' - touched[m] >= ReassembleTimeout \/ Waiting(m)'
    BY Zenon
  <2>1. CASE now - touched[m] >= ReassembleTimeout
    BY <1>1, <2>1, AppMsgProcessorAssumption
  <2>2. CASE Waiting(m) /\ m \in DOMAIN processor'.holders
    BY <1>1, <2>2, Zenon DEF Waiting
  <2>3. CASE Waiting(m) /\ m \notin DOMAIN processor'.holders
    BY <2>3, Zenon DEF Waiting, Late
  <2> QED BY <2>1, <2>2, <2>3, Zenon DEF IntactOK
<1> QED BY <1>1, <1>2, <1>3, <1>4, <1>5, Zenon DEF IntactOK

(* What a call with a chunk of another message does to the holder of m.    *)
LEMMA OtherHolder ==
  ASSUME ProcInv, NEW c, NEW gap, Calls(c, gap), NEW m, m # c.key
  PROVE  /\ m \in DOMAIN processor'.holders
              => /\ m \in DOMAIN processor.holders
                 /\ processor'.holders[m] = processor.holders[m]
         /\ m \in DOMAIN processor.holders /\ m \notin DOMAIN processor'.holders
              => Late(processor.holders[m], now')
<1>1. m \in DOMAIN processor'.holders
        => /\ m \in DOMAIN processor.holders
           /\ processor'.holders[m] = processor.holders[m]
  BY CallHolders, Zenon
<1>2. CASE ~isValidChunk(processor, c)
  BY <1>1, <1>2, CallForm, Zenon
<1>3. CASE isValidChunk(processor, c)
  <2>1. PICK res : /\ ReassembledForm(processor, c, now', res)
                   /\ processor' = res.processor
    BY <1>3, CallForm, Zenon
  <2>2. \/ Keeps(processor', processor, Live(processor, now'))
        \/ Keeps(processor', processor, Live(processor, now') \ {c.key})
        \/ Puts(processor', processor, c.key,
                Joined(processor, c, now'), Live(processor, now'))
    BY <2>1, Zenon DEF ReassembledForm
  <2>3. m \in Live(processor, now') => m \in DOMAIN processor'.holders
    BY <2>2, Zenon DEF Keeps, Puts
  <2> QED BY <1>1, <2>3 DEF Live
<1> QED BY <1>2, <1>3, Zenon

(* The holder a chunk of an intact message meets.                          *)
LEMMA IntactHolder ==
  ASSUME ProcInv, HistoryType, NEW m \in Messages, IntactOK(m), NEW c \in Split(m),
         now' \in Nat, now < now',
         arrivals[m][c.index] = 0,
         touched[m] = 0 \/ now' - touched[m] < ReassembleTimeout
  PROVE  /\ holderOf(processor, c).chunks = [i \in Arrived(m) |-> m]
         /\ holderOf(processor, c).count = CountOf[m]
         /\ isValidChunk(processor, c)
<1> DEFINE h == holderOf(processor, c)
<1>0. /\ c.key = m /\ c.count = CountOf[m] /\ c.index \in Indexes(m)
      /\ CountOf[m] \in Nat \ {0} /\ now \in Nat /\ touched[m] \in Nat
  BY SplitChunks, AppMsgProcessorSpecAssumption DEF ProcInv, HistoryType
<1>1. c.index \notin Arrived(m) /\ Arrived(m) # Indexes(m)
  BY <1>0, Zenon DEF Arrived
<1>2. h.chunks = [i \in Arrived(m) |-> m] /\ h.count = CountOf[m]
  <2>1. CASE Arrived(m) = {}
    <3>1. m \notin DOMAIN processor.holders
      BY <2>1, Zenon DEF IntactOK
    <3>2. h.chunks = [i \in {} |-> {}] /\ h.count = c.count
      BY <1>0, <3>1, Zenon DEF holderOf
    <3>3. [i \in {} |-> {}] = [i \in Arrived(m) |-> m]
      BY <2>1
    <3> QED BY <1>0, <3>2, <3>3, Zenon
  <2>2. CASE Arrived(m) # {}
    <3>1. touched[m] \in 1 .. now
      BY <2>2, Zenon DEF IntactOK
    <3>2. ~(now - touched[m] >= ReassembleTimeout)
      BY <1>0, <3>1, AppMsgProcessorAssumption
    <3>3. Waiting(m)
      BY <1>1, <2>2, <3>2, Zenon DEF IntactOK
    <3> QED BY <1>0, <3>3, Zenon DEF Waiting, holderOf
  <2> QED BY <2>1, <2>2, Zenon
<1>3. DOMAIN h.chunks = Arrived(m)
  BY <1>2, Zenon
<1>4. isValidChunk(processor, c)
  <2> HIDE DEF h
  <2>1. c.count >= 1 /\ c.index \in 0 .. c.count - 1
    BY <1>0 DEF Indexes
  <2>2. c.index \notin DOMAIN h.chunks /\ c.count = h.count
    BY <1>0, <1>1, <1>2, <1>3, Zenon
  <2> QED BY <2>1, <2>2, Zenon DEF isValidChunk, h
<1> QED BY <1>2, <1>4, Zenon

(* A chunk of an intact message: it waits with the others or is the last.  *)
LEMMA IntactChunk ==
  ASSUME ProcInv, DeliveryInv, NEW m \in Messages, intact[m] => IntactOK(m),
         NEW gap, NEW c \in Split(m), Calls(c, gap), ReceiveChunk(m, c, gap), intact'[m]
  PROVE  IntactOK(m)'
<1> DEFINE h == holderOf(processor, c)
           j == Joined(processor, c, now')
           A == Arrived(m)
           B == Arrived(m)'
<1>0. /\ GoodChunk(c) /\ c.key = m /\ c.count = CountOf[m] /\ c.index \in Indexes(m)
      /\ c.body = m /\ CountOf[m] \in Nat \ {0}
      /\ now \in Nat /\ now' \in Nat /\ now < now' /\ ProcOK(processor, now)
      /\ HistoryType /\ delivered \in [Messages -> Nat]
  BY SplitChunks, CallForm, AppMsgProcessorSpecAssumption, Zenon
     DEF ProcInv, DeliveryInv, HistoryType
<1>1. /\ arrivals[m] \in [Indexes(m) -> Nat] /\ arrivals'[m] \in [Indexes(m) -> Nat]
      /\ \A i \in Indexes(m) : i # c.index => arrivals'[m][i] = arrivals[m][i]
      /\ arrivals'[m][c.index] = arrivals[m][c.index] + 1
      /\ touched'[m] = now'
      /\ intact[m] /\ arrivals[m][c.index] = 0
      /\ touched[m] = 0 \/ now' - touched[m] < ReassembleTimeout
  <2>1. arrivals[m] \in [Indexes(m) -> Nat]
    BY <1>0, Zenon DEF HistoryType
  <2> QED BY <1>0, <2>1, ChunkHistory
<1>2. B = A \cup {c.index} /\ c.index \notin A /\ B \subseteq Indexes(m)
  BY <1>0, <1>1 DEF Arrived
<1>3. /\ h.chunks = [i \in A |-> m] /\ h.count = CountOf[m]
      /\ isValidChunk(processor, c)
  BY <1>0, <1>1, IntactHolder, Zenon
<1>4. PICK res : /\ ReassembledForm(processor, c, now', res)
                 /\ processor' = res.processor
                 /\ delivered' = [n \in Messages |->
                                    delivered[n] + IF res.message = n THEN 1 ELSE 0]
  BY <1>3, CallForm
<1>5. touched'[m] \in 1 .. now' /\ B # {}
  BY <1>0, <1>1, <1>2
<1>6. res.message = m => delivered'[m] >= 1
  BY <1>0, <1>4
<1>7. CASE c.count = 1
  <2>1. A = {} /\ B = Indexes(m)
    BY <1>0, <1>2, <1>7 DEF Indexes
  <2>2. Verify(m) => res.message = m
    <3> SUFFICES ASSUME Verify(m) PROVE res.message = m
      BY Zenon
    <3>1. res.message = unwrap([i \in {0} |-> m])
      BY <1>0, <1>4, <1>7, SingleChunk, Zenon
    <3> QED BY <3>1, UnwrapComplete, Zenon
  <2> QED BY <1>5, <1>6, <2>1, <2>2, Zenon DEF IntactOK
<1>8. CASE c.count # 1
  <2>0. c.count > 1
    BY <1>0, <1>8
  <2>1. /\ j.count = CountOf[m] /\ j.timestamp = now'
        /\ j.chunks = [i \in DOMAIN h.chunks \cup {c.index} |->
                         IF i = c.index THEN c.body ELSE h.chunks[i]]
    BY <1>3, Zenon DEF Joined
  <2>2. j.chunks = [i \in B |-> m]
    <3>1. DOMAIN h.chunks = A /\ \A i \in A : h.chunks[i] = m
      BY <1>3, Zenon
    <3> HIDE DEF h, A, B, j
    <3> QED BY <1>0, <1>2, <2>1, <3>1, Zenon
  <2>3. j.received = Cardinality(B)
    <3>1. HolderOK(j, c.key, now')
      BY <1>0, <1>3, <2>0, JoinedOK, Zenon
    <3>2. DOMAIN j.chunks = B
      BY <2>2, Zenon
    <3> QED BY <3>1, <3>2, Zenon DEF HolderOK
  <2>4. j.received = j.count <=> B = Indexes(m)
    <3> DEFINE n == CountOf[m] - 1
    <3>1. IsFiniteSet(0 .. n) /\ Cardinality(0 .. n) = CountOf[m]
      <4>1. 0 \in Int /\ n \in Int /\ ~(0 > n) /\ n - 0 + 1 = CountOf[m]
        BY <1>0
      <4> QED BY <4>1, FS_Interval, Zenon
    <3>2. Indexes(m) = 0 .. n
      BY Zenon DEF Indexes
    <3> HIDE DEF n, B, j, h, A
    <3>3. B \in SUBSET (0 .. n)
      BY <1>2, <3>2, Zenon
    <3>4. Cardinality(0 .. n) = Cardinality(B) => 0 .. n = B
      BY <3>1, <3>3, FS_Subset, Zenon
    <3> QED BY <2>1, <2>3, <3>1, <3>2, <3>4, Zenon
  <2>5. CASE B = Indexes(m)
    <3>1. Verify(m) => res.message = m
      <4> SUFFICES ASSUME Verify(m) PROVE res.message = m
        OBVIOUS
      <4>1. res.message = unwrap(j.chunks)
        BY <1>4, <1>8, <2>4, <2>5, Zenon DEF ReassembledForm
      <4> HIDE DEF j, B
      <4> QED BY <1>5, <2>2, <4>1, UnwrapComplete, Zenon
    <3> QED BY <1>5, <1>6, <2>5, <3>1, Zenon DEF IntactOK
  <2>6. CASE B # Indexes(m)
    <3>1. Puts(processor', processor, c.key, j, Live(processor, now'))
      BY <1>4, <1>8, <2>4, <2>6, Zenon DEF ReassembledForm
    <3>2. m \in DOMAIN processor'.holders /\ processor'.holders[m] = j
      BY <1>0, <3>1, Zenon DEF Puts
    <3>3. Waiting(m)'
      BY <1>1, <2>1, <2>2, <3>2, Zenon DEF Waiting
    <3> QED BY <1>5, <2>6, <3>3, Zenon DEF IntactOK
  <2> QED BY <2>5, <2>6, Zenon
<1> QED BY <1>7, <1>8, Zenon

(* Every call keeps intact messages waiting or returned.                   *)
LEMMA IntactInvariant == Spec => []IntactInv
<1>1. Init => IntactInv
  <2> SUFFICES ASSUME Init, NEW m \in Messages PROVE IntactOK(m)
    BY DEF IntactInv
  <2>1. /\ \A i \in Indexes(m) : arrivals[m][i] = 0
        /\ touched[m] = 0 /\ processor.holders = [k \in {} |-> {}]
    BY DEF Init, newAppMsgProcessor
  <2>2. DOMAIN processor.holders = {} /\ Arrived(m) = {}
    BY <2>1 DEF Arrived
  <2>3. Indexes(m) # {}
    <3>1. CountOf[m] \in Nat \ {0}
      BY AppMsgProcessorSpecAssumption
    <3>2. 0 \in 0 .. CountOf[m] - 1
      BY <3>1
    <3> QED BY <3>2 DEF Indexes
  <2> QED BY <2>1, <2>2, <2>3, Zenon DEF IntactOK
<1>2. ProcInv /\ DeliveryInv /\ IntactInv /\ [Next]_vars => IntactInv'
  <2> SUFFICES ASSUME ProcInv, DeliveryInv, IntactInv, [Next]_vars,
                      NEW m \in Messages, intact'[m]
               PROVE  IntactOK(m)'
    BY Zenon DEF IntactInv
  <2>0. /\ HistoryType /\ now \in Nat /\ delivered \in [Messages -> Nat]
        /\ delivered[m] \in Nat /\ intact \in [Messages -> BOOLEAN]
        /\ intact[m] => IntactOK(m)
    BY Zenon DEF ProcInv, DeliveryInv, HistoryType, IntactInv
  <2>1. ASSUME NEW c, NEW gap, Calls(c, gap), m # c.key, intact[m],
               arrivals'[m] = arrivals[m], touched'[m] = touched[m]
        PROVE  IntactOK(m)'
    <3>1. now' \in Nat /\ now <= now'
      BY <2>0, <2>1, CallForm
    <3>2. delivered'[m] \in Nat /\ delivered[m] <= delivered'[m]
      <4>1. /\ delivered' \in [Messages -> Nat]
            /\ delivered'[m] = delivered[m] \/ Gains(m, c)
        BY <2>0, <2>1, CallDelivers, Zenon
      <4> QED BY <2>0, <4>1 DEF Gains
    <3> QED BY <2>0, <2>1, <3>1, <3>2, OtherHolder, IntactStays
  <2>2. ASSUME NEW n \in Messages, NEW gap \in Gaps, NEW c \in Split(n),
               Calls(c, gap), ReceiveChunk(n, c, gap)
        PROVE  IntactOK(m)'
    <3>1. CASE n = m
      BY <2>0, <2>2, <3>1, IntactChunk, Zenon
    <3>2. CASE n # m
      <4>1. c.key = n /\ now' \in Nat
        BY <2>2, SplitChunks, CallForm, Zenon
      <4>2. arrivals'[m] = arrivals[m] /\ touched'[m] = touched[m] /\ intact'[m] = intact[m]
        BY <2>0, <2>2, <3>2, <4>1, OtherHistory, Zenon
      <4> QED BY <2>1, <2>2, <3>2, <4>1, <4>2, Zenon
    <3> QED BY <3>1, <3>2
  <2>3. ASSUME NEW c \in Malformed, NEW gap \in Gaps,
               Calls(c, gap), ReceiveMalformed(c, gap)
        PROVE  IntactOK(m)'
    <3>1. /\ arrivals' = arrivals /\ touched' = touched
          /\ intact' = [intact EXCEPT ![c.key] = FALSE]
      BY <2>3 DEF ReceiveMalformed
    <3>2. m # c.key /\ intact[m]
      BY <2>0, <3>1, Zenon
    <3> QED BY <2>1, <2>3, <3>1, <3>2, Zenon
  <2>4. ASSUME NEW app \in Apps, OrdererStarted(app) PROVE IntactOK(m)'
    <3>1. Keeps(processor', processor,
                {k \in DOMAIN processor.holders : AppOf[k] # app})
      BY <2>4, ExpireAppForm, Zenon
    <3>2. /\ UNCHANGED <<now, arrivals, delivered, touched>>
          /\ intact' = [n \in Messages |-> intact[n] /\ AppOf[n] # app]
      BY <2>4 DEF OrdererStarted
    <3>3. intact[m] /\ AppOf[m] # app
      BY <3>2, Zenon
    <3>4. /\ m \in DOMAIN processor'.holders <=> m \in DOMAIN processor.holders
          /\ m \in DOMAIN processor'.holders
               => processor'.holders[m] = processor.holders[m]
      BY <3>1, <3>3 DEF Keeps
    <3> QED BY <2>0, <3>2, <3>3, <3>4, IntactStays
  <2>5. CASE UNCHANGED vars
    BY <2>0, <2>5, Zenon DEF vars, IntactOK, Waiting, Arrived
  <2> QED BY <2>2, <2>3, <2>4, <2>5, StepForms, Zenon
<1> QED BY <1>1, <1>2, ProcInvariant, DeliveryInvariant, PTL DEF Spec

(* A message whose chunks each arrive once, none of them later than        *)
(* ReassembleTimeout after the one before, is returned exactly once, in    *)
(* whatever order they come and whatever else the processor is given.      *)
THEOREM AppMsgIntactIsDelivered == Spec => []IntactIsDelivered
<1>1. DeliveryInv /\ IntactInv => IntactIsDelivered
  <2> SUFFICES ASSUME DeliveryInv, IntactInv, NEW m \in Messages, Verify(m),
                      intact[m], \A i \in Indexes(m) : arrivals[m][i] = 1
               PROVE  delivered[m] = 1
    BY DEF IntactIsDelivered
  <2>1. Arrived(m) = Indexes(m)
    BY DEF Arrived
  <2>2. delivered[m] \in Nat /\ delivered[m] >= 1
    BY <2>1, Zenon DEF IntactInv, IntactOK, DeliveryInv, HistoryType
  <2>3. 0 \in Indexes(m)
    <3>1. CountOf[m] \in Nat \ {0}
      BY AppMsgProcessorSpecAssumption, Zenon
    <3> QED BY <3>1 DEF Indexes
  <2>4. delivered[m] <= 1
    BY <2>3 DEF DeliveryInv, NoSpuriousDelivery
  <2> QED BY <2>2, <2>4
<1> QED BY <1>1, DeliveryInvariant, IntactInvariant, PTL
=============================================================================
