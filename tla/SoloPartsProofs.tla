-------------------------- MODULE SoloPartsProofs --------------------------
(***************************************************************************)
(* The parts a solo consenter is made of.  The block cutter, for any       *)
(* envelopes, sizes and batch sizes: it neither loses, duplicates nor      *)
(* reorders an envelope and keeps to its limits.  Configuration trees, for *)
(* any tree, policies and update: what an accepted update makes of them.   *)
(***************************************************************************)
EXTENDS SoloChain, DataInduction

-----------------------------------------------------------------------------
(* Sequences.                                                              *)

(* Sequences of the same length and elements are equal.                    *)
LEMMA EqualSequences ==
  ASSUME NEW S, NEW s \in Seq(S), NEW t \in Seq(S), Len(s) = Len(t),
         \A i \in 1 .. Len(s) : s[i] = t[i]
  PROVE  s = t
OBVIOUS

(* Length and elements of a concatenation.                                 *)
LEMMA ConcatSequences ==
  ASSUME NEW S, NEW s \in Seq(S), NEW t \in Seq(S)
  PROVE  /\ s \o t \in Seq(S) /\ Len(s \o t) = Len(s) + Len(t)
         /\ \A i \in 1 .. Len(s) + Len(t) :
              (s \o t)[i] = IF i <= Len(s) THEN s[i] ELSE t[i - Len(s)]
OBVIOUS

(* The empty sequence is neutral.                                          *)
LEMMA ConcatEmpty ==
  ASSUME NEW S, NEW s \in Seq(S)
  PROVE  s \o <<>> = s /\ <<>> \o s = s
OBVIOUS

(* Concatenation is associative.                                           *)
LEMMA EnvelopesConcat ==
  \A s, t, u \in Seq(Envelopes) : (s \o t) \o u = s \o (t \o u)
<1> SUFFICES ASSUME NEW s \in Seq(Envelopes), NEW t \in Seq(Envelopes),
                    NEW u \in Seq(Envelopes)
             PROVE  (s \o t) \o u = s \o (t \o u)
  BY Zenon
<1> DEFINE a == (s \o t) \o u
           b == s \o (t \o u)
<1>1. /\ s \o t \in Seq(Envelopes) /\ Len(s \o t) = Len(s) + Len(t)
      /\ t \o u \in Seq(Envelopes) /\ Len(t \o u) = Len(t) + Len(u)
  BY ConcatSequences
<1>2. /\ a \in Seq(Envelopes) /\ Len(a) = Len(s) + Len(t) + Len(u)
      /\ b \in Seq(Envelopes) /\ Len(b) = Len(s) + Len(t) + Len(u)
  BY <1>1, ConcatSequences
<1>3. ASSUME NEW i \in 1 .. Len(s) + Len(t) + Len(u)
      PROVE  a[i] = b[i]
  BY <1>1
<1> HIDE DEF a, b
<1>4. a = b
  BY <1>2, <1>3, EqualSequences
<1> QED BY <1>4 DEF a, b

(* What Append adds to a sequence.                                         *)
LEMMA AppendElement ==
  ASSUME NEW S, NEW s \in Seq(S), NEW e \in S
  PROVE  /\ Append(s, e) \in Seq(S) /\ Append(s, e) # <<>>
         /\ Len(Append(s, e)) = Len(s) + 1
         /\ \A i \in 1 .. Len(s) : Append(s, e)[i] = s[i]
         /\ Append(s, e)[Len(s) + 1] = e
         /\ Append(s, e) = s \o <<e>>
OBVIOUS

-----------------------------------------------------------------------------
Receivers == [pendingBatch : Seq(Envelopes), pendingBatchSizeBytes : Nat]

(* The batches of a result, followed by what stays pending, spell the old  *)
(* pending batch followed by the new envelope.                             *)
Conserves(r, env, res) ==
  /\ res.receiver \in Receivers
  /\ res.batches \in Seq(Seq(Envelopes))
  /\ res.pending \in BOOLEAN
  /\ Concat(res.batches) \in Seq(Envelopes)
  /\ Concat(res.batches) \o res.receiver.pendingBatch
       = Append(r.pendingBatch, env)

(* A message that is not isolated is small, and a sum that wraps around is *)
(* smaller still, so the byte count stays within PreferredMaxBytes.        *)
LEMMA OrderedWithinPreferred ==
  ASSUME NEW r \in Receivers, NEW env \in Envelopes, NEW size \in Nat,
         NEW b \in BatchSizes, r.pendingBatchSizeBytes <= b.preferredMaxBytes
  PROVE  Ordered(r, env, size, b).receiver.pendingBatchSizeBytes
           <= b.preferredMaxBytes
<1>1. /\ r.pendingBatchSizeBytes \in Nat /\ b.preferredMaxBytes \in Nat
  BY BlockCutterAssumption DEF Receivers
<1>2. CASE size > b.preferredMaxBytes
  BY <1>1, <1>2 DEF Ordered, OrderedIsolated, Cut, NewReceiver
<1>3. CASE ~(size > b.preferredMaxBytes)
  <2>1. (0 + size) % Uint32Size \in Nat /\ (0 + size) % Uint32Size <= size
    BY Uint32Assumption
  <2>2. Ordered(r, env, size, b) = OrderedBatched(r, env, size, b)
    BY <1>3 DEF Ordered
  <2>3. (r.pendingBatchSizeBytes + size) % Uint32Size \in Nat
    BY <1>1, Uint32Assumption
  <2> QED BY <1>1, <1>3, <2>1, <2>2, <2>3 DEF OrderedBatched, Cut, NewReceiver
<1> QED BY <1>2, <1>3

OrderedResult(bs, pd, rc) == [batches |-> bs, pending |-> pd, receiver |-> rc]

(* The ways a message takes through Ordered: isolated, after a cut or not; *)
(* or joined to an empty batch after a cut, or to the pending batch, which *)
(* is then full or not.                                                    *)
OrderedForm(r, env, size, b, res) ==
  LET p      == r.pendingBatch
      one    == <<env>>
      full   == Append(p, env)
      sum    == (r.pendingBatchSizeBytes + size) % Uint32Size
      large  == size > b.preferredMaxBytes
      over   == sum > b.preferredMaxBytes
      alone  == [pendingBatch |-> one,
                 pendingBatchSizeBytes |-> (0 + size) % Uint32Size]
      joined == [pendingBatch |-> full, pendingBatchSizeBytes |-> sum]
  IN  \/ /\ large /\ p = <<>>
         /\ res = OrderedResult(<<one>>, FALSE, r)
      \/ /\ large /\ p # <<>>
         /\ res = OrderedResult(<<p, one>>, FALSE, NewReceiver)
      \/ /\ ~large /\ over /\ Len(one) >= b.maxMessageCount
         /\ res = OrderedResult(<<p, one>>, FALSE, NewReceiver)
      \/ /\ ~large /\ over /\ ~(Len(one) >= b.maxMessageCount)
         /\ res = OrderedResult(<<p>>, TRUE, alone)
      \/ /\ ~large /\ ~over /\ Len(full) >= b.maxMessageCount
         /\ res = OrderedResult(<<full>>, FALSE, NewReceiver)
      \/ /\ ~large /\ ~over /\ ~(Len(full) >= b.maxMessageCount)
         /\ res = OrderedResult(<<>>, TRUE, joined)

(* There is no other way.                                                  *)
LEMMA OrderedForms ==
  ASSUME NEW r \in Receivers, NEW env \in Envelopes, NEW size \in Nat,
         NEW b \in BatchSizes
  PROVE  OrderedForm(r, env, size, b, Ordered(r, env, size, b))
<1> DEFINE p == r.pendingBatch
           one == <<env>>
           full == Append(p, env)
           sum == (r.pendingBatchSizeBytes + size) % Uint32Size
           large == size > b.preferredMaxBytes
           over == sum > b.preferredMaxBytes
           joined == [pendingBatch |-> full, pendingBatchSizeBytes |-> sum]
<1>1. CASE large /\ p = <<>>
  BY <1>1 DEF OrderedForm, Ordered, OrderedIsolated, OrderedResult
<1>2. CASE large /\ p # <<>>
  BY <1>2 DEF OrderedForm, Ordered, OrderedIsolated, OrderedResult, Cut
<1>3. CASE ~large /\ over
  <2>1. Append(<<>>, env) = one
    OBVIOUS
  <2>2. Append(<<p>>, one) = <<p, one>>
    <3> DEFINE S == Seq(Envelopes)
    <3>1. <<p>> \in Seq(S) /\ <<p, one>> \in Seq(S) /\ one \in S
      BY DEF Receivers
    <3> DEFINE l == Append(<<p>>, one)
               m == <<p, one>>
    <3> HIDE DEF S, p, one
    <3>2. /\ l \in Seq(S) /\ Len(l) = 2
          /\ l[1] = p /\ l[2] = one
      BY <3>1, AppendElement
    <3>3. /\ m \in Seq(S) /\ Len(m) = 2
          /\ m[1] = p /\ m[2] = one
      BY <3>1
    <3> HIDE DEF l, m
    <3>4. \A i \in 1..Len(l) : l[i] = m[i]
      <4>1. \A i \in 1..2 : i = 1 \/ i = 2
        OBVIOUS
      <4> QED BY <3>2, <3>3, <4>1
    <3>5. l = m
      BY <3>2, <3>3, <3>4, EqualSequences
    <3> QED BY <3>5 DEF l, m
  <2> QED BY <1>3, <2>1, <2>2, Zenon
          DEF OrderedForm, Ordered, OrderedBatched, OrderedResult, Cut, NewReceiver
<1>4. CASE ~large /\ ~over
  <2>1. Append(<<>>, full) = <<full>>
    OBVIOUS
  <2>2. Ordered(r, env, size, b) =
          IF Len(full) >= b.maxMessageCount
            THEN OrderedResult(<<full>>, FALSE, NewReceiver)
            ELSE OrderedResult(<<>>, TRUE, joined)
    BY <1>4, <2>1, Zenon DEF Ordered, OrderedBatched, OrderedResult, Cut
  <2> QED BY <1>4, <2>2, Zenon DEF OrderedForm
<1> QED BY <1>1, <1>2, <1>3, <1>4

(* One call of Ordered conserves the envelopes, whichever way the message  *)
(* takes.                                                                  *)
LEMMA OrderedConserves ==
  ASSUME NEW r \in Receivers, NEW env \in Envelopes, NEW size \in Nat,
         NEW b \in BatchSizes
  PROVE  Conserves(r, env, Ordered(r, env, size, b))
<1> DEFINE p == r.pendingBatch
           one == <<env>>
           full == Append(p, env)
           sum == (r.pendingBatchSizeBytes + size) % Uint32Size
           alone == [pendingBatch |-> one,
                     pendingBatchSizeBytes |-> (0 + size) % Uint32Size]
           joined == [pendingBatch |-> full, pendingBatchSizeBytes |-> sum]
<1>1. /\ p \in Seq(Envelopes) /\ one \in Seq(Envelopes)
      /\ full \in Seq(Envelopes) /\ full = p \o one
  BY AppendElement DEF Receivers
<1>2. /\ <<>> \o one = one /\ one \o <<>> = one
      /\ full \o <<>> = full /\ <<>> \o full = full
  <2> HIDE DEF p, one, full
  <2> QED BY <1>1, ConcatEmpty
<1>3. NewReceiver \in Receivers /\ NewReceiver.pendingBatch = <<>>
  BY DEF NewReceiver, Receivers
<1>4. /\ alone \in Receivers /\ alone.pendingBatch = one
      /\ joined \in Receivers /\ joined.pendingBatch = full
  <2>1. sum \in Nat /\ (0 + size) % Uint32Size \in Nat
    BY Uint32Assumption DEF Receivers
  <2> HIDE DEF one, full, sum
  <2> QED BY <1>1, <2>1 DEF Receivers
<1>5. /\ Concat(<<>>) = <<>>
      /\ \A s : Concat(<<s>>) = s
      /\ \A s, t : Concat(<<s, t>>) = s \o t
  BY DEF Concat
<1>6. /\ \A s \in Seq(Envelopes) : <<s>> \in Seq(Seq(Envelopes))
      /\ \A s, t \in Seq(Envelopes) : <<s, t>> \in Seq(Seq(Envelopes))
      /\ <<>> \in Seq(Seq(Envelopes)) /\ <<>> \in Seq(Envelopes)
  OBVIOUS
<1>7. ASSUME NEW bs \in Seq(Seq(Envelopes)), NEW pd \in BOOLEAN,
             NEW rc \in Receivers, Concat(bs) \in Seq(Envelopes),
             Concat(bs) \o rc.pendingBatch = full
      PROVE  Conserves(r, env, OrderedResult(bs, pd, rc))
  BY <1>7, Zenon DEF Conserves, OrderedResult
<1> HIDE DEF one, full, alone, joined
<1>8. Conserves(r, env, OrderedResult(<<p, one>>, FALSE, NewReceiver))
  BY <1>1, <1>2, <1>3, <1>5, <1>6, <1>7, Zenon
<1>9. p = <<>> => Conserves(r, env, OrderedResult(<<one>>, FALSE, r))
  BY <1>1, <1>2, <1>5, <1>6, <1>7, Zenon
<1>10. Conserves(r, env, OrderedResult(<<p>>, TRUE, alone))
  BY <1>1, <1>4, <1>5, <1>6, <1>7, Zenon
<1>11. Conserves(r, env, OrderedResult(<<full>>, FALSE, NewReceiver))
  BY <1>1, <1>2, <1>3, <1>5, <1>6, <1>7, Zenon
<1>12. Conserves(r, env, OrderedResult(<<>>, TRUE, joined))
  BY <1>1, <1>2, <1>4, <1>5, <1>6, <1>7, Zenon
<1> DEFINE res == Ordered(r, env, size, b)
<1>13. OrderedForm(r, env, size, b, res)
  BY OrderedForms
<1> HIDE DEF res
<1>14. \/ res = OrderedResult(<<p, one>>, FALSE, NewReceiver)
       \/ res = OrderedResult(<<p>>, TRUE, alone)
       \/ res = OrderedResult(<<full>>, FALSE, NewReceiver)
       \/ res = OrderedResult(<<>>, TRUE, joined)
       \/ p = <<>> /\ res = OrderedResult(<<one>>, FALSE, r)
  BY <1>13, Zenon DEF OrderedForm, one, full, alone, joined
<1>15. Conserves(r, env, res)
  BY <1>8, <1>9, <1>10, <1>11, <1>12, <1>14, Zenon
<1> QED BY <1>15 DEF res

(* Type correctness and conservation are inductive together: the batches a *)
(* call hands out are exactly what it takes out of the pending batch.      *)
THEOREM BlockCutterConserves == Spec => [](TypeOK /\ NothingLost)
<1> DEFINE IInv == TypeOK /\ NothingLost
<1>1. Init => IInv
  BY BlockCutterAssumption, ConcatEmpty
     DEF Init, TypeOK, NothingLost, NewReceiver, CutResult
<1>2. IInv /\ [Next]_vars => IInv'
  <2> SUFFICES ASSUME TypeOK, NothingLost, [Next]_vars
               PROVE  TypeOK' /\ NothingLost'
    OBVIOUS
  <2>0. /\ receiver \in Receivers
        /\ receiver.pendingBatch \in Seq(Envelopes)
        /\ emitted \in Seq(Envelopes)
    BY DEF TypeOK, Receivers
  <2>1. ASSUME NEW env \in Envelopes, CallOrdered(env)
        PROVE  TypeOK' /\ NothingLost'
    <3> DEFINE res == Ordered(receiver, env, Size[env], batchSize)
               c == Concat(res.batches)
    <3>0. Size[env] \in Nat /\ batchSize \in BatchSizes
      BY BlockCutterAssumption DEF TypeOK
    <3>1. /\ res.receiver \in Receivers
          /\ res.batches \in Seq(Seq(Envelopes))
          /\ res.pending \in BOOLEAN
          /\ res.receiver.pendingBatchSizeBytes <= batchSize.preferredMaxBytes
          /\ c \in Seq(Envelopes)
          /\ c \o res.receiver.pendingBatch = Append(receiver.pendingBatch, env)
      <4>1. Conserves(receiver, env, res)
        BY <2>0, <3>0, OrderedConserves
      <4>2. res.receiver.pendingBatchSizeBytes <= batchSize.preferredMaxBytes
        BY <2>0, <3>0, OrderedWithinPreferred, Zenon DEF TypeOK
      <4> HIDE DEF res
      <4> QED BY <4>1, <4>2 DEF Conserves
    <3>2. /\ receiver' = res.receiver
          /\ emitted' = emitted \o c
          /\ fed' = Append(fed, env)
          /\ batchSize' = batchSize
          /\ last' = [op |-> "ordered", batches |-> res.batches,
                      pending |-> res.pending]
      BY <2>1 DEF CallOrdered
    <3> HIDE DEF res, c
    <3>3. TypeOK'
      BY <3>1, <3>2, ConcatSequences, AppendElement DEF TypeOK, Receivers
    <3>4. emitted' \o receiver'.pendingBatch
            = emitted \o (c \o res.receiver.pendingBatch)
      <4>1. res.receiver.pendingBatch \in Seq(Envelopes)
        BY <3>1 DEF Receivers
      <4> QED BY <2>0, <3>1, <3>2, <4>1, EnvelopesConcat, Zenon
    <3>5. emitted \o Append(receiver.pendingBatch, env)
            = Append(emitted \o receiver.pendingBatch, env)
      <4>1. Append(receiver.pendingBatch, env) = receiver.pendingBatch \o <<env>>
        BY <2>0, AppendElement
      <4>2. emitted \o receiver.pendingBatch \in Seq(Envelopes)
        BY <2>0, ConcatSequences
      <4>3. Append(emitted \o receiver.pendingBatch, env)
              = (emitted \o receiver.pendingBatch) \o <<env>>
        BY <4>2, AppendElement
      <4> DEFINE one == <<env>>
      <4>4. one \in Seq(Envelopes)
        OBVIOUS
      <4>5. (emitted \o receiver.pendingBatch) \o one
              = emitted \o (receiver.pendingBatch \o one)
        <5> HIDE DEF one
        <5> QED BY <2>0, <4>4, EnvelopesConcat, Zenon
      <4> QED BY <4>1, <4>3, <4>5, Zenon
    <3> QED BY <3>1, <3>2, <3>3, <3>4, <3>5 DEF NothingLost
  <2>2. ASSUME CallCut \/ Reconfigure
        PROVE  TypeOK' /\ NothingLost'
    <3>1. /\ receiver' = NewReceiver
          /\ emitted' = emitted \o receiver.pendingBatch
          /\ fed' = fed
          /\ batchSize' \in BatchSizes
          /\ last' = CutResult
      BY <2>2 DEF CallCut, Reconfigure, Cut, TypeOK
    <3>2. emitted \o receiver.pendingBatch \in Seq(Envelopes)
      BY <2>0, ConcatSequences
    <3>3. NothingLost'
      BY <3>1, <3>2, ConcatEmpty DEF NothingLost, NewReceiver
    <3>4. NewReceiver.pendingBatchSizeBytes <= batchSize'.preferredMaxBytes
      BY <3>1, BlockCutterAssumption DEF NewReceiver
    <3> QED BY <3>1, <3>2, <3>3, <3>4 DEF TypeOK, NewReceiver, CutResult
  <2>3. CASE UNCHANGED vars
    BY <2>3 DEF vars, TypeOK, NothingLost
  <2> QED BY <2>1, <2>2, <2>3 DEF Next
<1> QED BY <1>1, <1>2, PTL DEF Spec

-----------------------------------------------------------------------------
(* The recursion of Bytes has a solution: the byte counts of the prefixes. *)
LEMMA BytesPrefixes ==
  ASSUME NEW b \in Seq(Envelopes)
  PROVE  \E s \in [0 .. Len(b) -> Nat] :
           /\ s[0] = 0
           /\ \A i \in 1 .. Len(b) : s[i] = s[i - 1] + Size[b[i]]
           /\ Bytes(b) = s[Len(b)]
<1> DEFINE n == Len(b)
           step == [iv \in (1 .. n) \X Nat |-> iv[2] + Size[b[iv[1]]]]
           Sum(s) == [i \in 0 .. n |-> IF i = 0 THEN 0
                                       ELSE s[i - 1] + Size[b[i]]]
<1>0. n \in Nat /\ \A i \in 1 .. n : Size[b[i]] \in Nat
  BY BlockCutterAssumption
<1>1. step \in [(1 .. n) \X Nat -> Nat]
  <2> HIDE DEF n
  <2> QED BY <1>0
<1>2. PICK f \in [0 .. n -> Nat] :
             /\ f[0] = 0
             /\ \A i \in 1 .. n : f[i] = step[<<i, f[i - 1]>>]
  <2> HIDE DEF n, step
  <2>1. PrefixRecursions(n, Nat, 0, step) # {}
    BY <1>0, <1>1, PrefixRecursionExists, Zenon
  <2> QED BY <2>1 DEF PrefixRecursions
<1>3. \A i \in 1 .. n : f[i] = f[i - 1] + Size[b[i]]
  <2> SUFFICES ASSUME NEW i \in 1 .. n PROVE f[i] = f[i - 1] + Size[b[i]]
    OBVIOUS
  <2>1. <<i, f[i - 1]>> \in (1 .. n) \X Nat
    <3> HIDE DEF n
    <3> QED BY <1>0
  <2> QED BY <1>2, <2>1, Zenon
<1>4. f = Sum(f)
  <2> HIDE DEF n, step
  <2> QED BY <1>2, <1>3
<1>5. Bytes(b) = (CHOOSE s : s = Sum(s))[n]
  BY DEF Bytes
<1> DEFINE g == CHOOSE s : s = Sum(s)
<1>6. g = Sum(g)
  <2> HIDE DEF Sum
  <2> QED BY <1>4, Zenon
<1> HIDE DEF g
<1>7. /\ DOMAIN g = 0 .. n /\ g[0] = 0
      /\ \A i \in 1 .. n : g[i] = g[i - 1] + Size[b[i]]
  <2> HIDE DEF n, step
  <2> QED BY <1>0, <1>6
<1>8. 0 .. n \subseteq {i \in 0 .. n : g[i] = f[i]}
  <2> DEFINE S == {i \in 0 .. n : g[i] = f[i]}
  <2>1. 0 \in S
    BY <1>0, <1>2, <1>7
  <2>2. ASSUME NEW i \in 0 .. n, i + 1 \in 0 .. n, i \in S PROVE i + 1 \in S
    <3>1. i + 1 \in 1 .. n /\ (i + 1) - 1 = i
      BY <2>2
    <3> QED BY <1>3, <1>7, <2>2, <3>1
  <2> HIDE DEF S, n
  <2> QED BY <1>0, <2>1, <2>2, IntervalInduction, Zenon DEF S
<1>9. n \in 0 .. n /\ g[n] = f[n]
  BY <1>0, <1>8
<1> QED BY <1>2, <1>3, <1>5, <1>9, Zenon DEF g

(* The size of a batch grows by the size of the envelope that joins it.    *)
LEMMA BytesAppend ==
  ASSUME NEW b \in Seq(Envelopes), NEW e \in Envelopes
  PROVE  Bytes(b) \in Nat /\ Bytes(Append(b, e)) = Bytes(b) + Size[e]
<1> DEFINE a == Append(b, e)
           n == Len(b)
<1>0. /\ a \in Seq(Envelopes) /\ Len(a) = n + 1 /\ n \in Nat
      /\ a[n + 1] = e /\ \A i \in 1 .. n : a[i] = b[i]
  OBVIOUS
<1>1. PICK s \in [0 .. n -> Nat] :
        /\ s[0] = 0
        /\ \A i \in 1 .. n : s[i] = s[i - 1] + Size[b[i]]
        /\ Bytes(b) = s[n]
  BY BytesPrefixes
<1>2. PICK t \in [0 .. n + 1 -> Nat] :
        /\ t[0] = 0
        /\ \A i \in 1 .. n + 1 : t[i] = t[i - 1] + Size[a[i]]
        /\ Bytes(a) = t[n + 1]
  <2> HIDE DEF a, n
  <2> QED BY <1>0, BytesPrefixes, Zenon
<1> HIDE DEF a, n
<1> DEFINE S == {i \in 0 .. n : s[i] = t[i]}
<1>3. 0 \in S
  BY <1>0, <1>1, <1>2
<1>4. ASSUME NEW i \in 0 .. n, i + 1 \in 0 .. n, i \in S PROVE i + 1 \in S
  <2>1. i + 1 \in 1 .. n /\ i + 1 \in 1 .. n + 1 /\ (i + 1) - 1 = i
    BY <1>0, <1>4
  <2>2. s[i + 1] = s[i] + Size[b[i + 1]] /\ t[i + 1] = t[i] + Size[a[i + 1]]
    BY <1>1, <1>2, <2>1
  <2>3. a[i + 1] = b[i + 1]
    BY <1>0, <2>1
  <2> QED BY <1>4, <2>2, <2>3
<1>5. n \in S
  <2>1. 0 .. n \subseteq S
    <3> HIDE DEF S
    <3> QED BY <1>0, <1>3, <1>4, IntervalInduction, Zenon
  <2> QED BY <1>0, <2>1
<1>6. t[n + 1] = t[n] + Size[e]
  <2>1. n + 1 \in 1 .. n + 1 /\ (n + 1) - 1 = n
    BY <1>0
  <2> QED BY <1>0, <1>2, <2>1, Zenon
<1>7. s[n] \in Nat
  BY <1>0
<1> QED BY <1>1, <1>2, <1>5, <1>6, <1>7 DEF a

(* What BatchesBounded says of a receiver and of the result of a call.     *)
Counted(r, b) == /\ Bytes(r.pendingBatch) < Uint32Size
                      => r.pendingBatchSizeBytes = Bytes(r.pendingBatch)
                 /\ Len(r.pendingBatch) < b.maxMessageCount

Fits(batch, b) == /\ Len(batch) \in 1 .. b.maxMessageCount
                  /\ Bytes(batch) > b.preferredMaxBytes
                       => Len(batch) = 1 \/ Bytes(batch) >= Uint32Size

Shaped(res, b) ==
  /\ \A i \in DOMAIN res.batches : Fits(res.batches[i], b)
  /\ Len(res.batches) <= IF res.pending THEN 1 ELSE 2
  /\ res.batches = <<>> => res.pending
  /\ res.pending <=> res.receiver.pendingBatch # <<>>

(* One call of Ordered keeps the byte count exact unless the sum wraps,    *)
(* and its result has the promised shape.  The batch cut on overflow is    *)
(* not empty because the message alone does not overflow.                  *)
LEMMA OrderedBounded ==
  ASSUME NEW r \in Receivers, NEW env \in Envelopes, NEW b \in BatchSizes,
         r.pendingBatchSizeBytes <= b.preferredMaxBytes, Counted(r, b)
  PROVE  LET res == Ordered(r, env, Size[env], b)
         IN  Counted(res.receiver, b) /\ Shaped(res, b)
<1> DEFINE p == r.pendingBatch
           size == Size[env]
           one == <<env>>
           full == Append(p, env)
           sum == (r.pendingBatchSizeBytes + size) % Uint32Size
           alone == [pendingBatch |-> one,
                     pendingBatchSizeBytes |-> (0 + size) % Uint32Size]
           joined == [pendingBatch |-> full, pendingBatchSizeBytes |-> sum]
           Good(res) == Counted(res.receiver, b) /\ Shaped(res, b)
<1>1. /\ size \in Nat /\ r.pendingBatchSizeBytes \in Nat
      /\ b.preferredMaxBytes \in Nat /\ b.maxMessageCount \in Nat \ {0}
      /\ Uint32Size \in Nat \ {0}
  BY BlockCutterAssumption, Uint32Assumption DEF Receivers
<1>2. /\ p \in Seq(Envelopes) /\ one \in Seq(Envelopes) /\ full \in Seq(Envelopes)
      /\ Len(p) \in Nat /\ Len(one) = 1 /\ Len(full) = Len(p) + 1
      /\ (p = <<>> <=> Len(p) = 0) /\ one # <<>> /\ full # <<>>
  BY DEF Receivers
<1>3. /\ Bytes(<<>>) = 0 /\ Bytes(one) = size
      /\ Bytes(p) \in Nat /\ Bytes(full) = Bytes(p) + size
  <2>1. Bytes(<<>>) = 0
    <3>1. <<>> \in Seq(Envelopes) /\ Len(<<>>) = 0
      OBVIOUS
    <3> QED BY <3>1, BytesPrefixes, Zenon
  <2>2. Append(<<>>, env) = one /\ <<>> \in Seq(Envelopes)
    OBVIOUS
  <2>3. Bytes(one) = Bytes(<<>>) + size
    BY <2>2, BytesAppend, Zenon
  <2>4. Bytes(p) \in Nat /\ Bytes(full) = Bytes(p) + size
    BY <1>2, BytesAppend
  <2> QED BY <1>1, <2>1, <2>3, <2>4
<1>4. /\ Bytes(p) < Uint32Size => /\ r.pendingBatchSizeBytes = Bytes(p)
                                  /\ Bytes(p) <= b.preferredMaxBytes
      /\ Len(p) < b.maxMessageCount
  BY DEF Counted
<1>5. /\ size < Uint32Size => (0 + size) % Uint32Size = size
      /\ Bytes(p) + size < Uint32Size => sum = Bytes(p) + size
      /\ p = <<>> => sum <= size
  <2>1. \A n \in Nat : n < Uint32Size => n % Uint32Size = n
    BY Uint32Assumption
  <2>2. \A n \in Nat : n % Uint32Size <= n
    BY Uint32Assumption
  <2>3. p = <<>> => r.pendingBatchSizeBytes = 0
    BY <1>1, <1>3, <1>4
  <2> HIDE DEF size, p
  <2>4. 0 + size = size /\ Bytes(p) + size \in Nat
    BY <1>1, <1>3
  <2>5. Bytes(p) + size < Uint32Size => r.pendingBatchSizeBytes = Bytes(p)
    BY <1>1, <1>3, <1>4
  <2> QED BY <1>1, <2>1, <2>2, <2>3, <2>4, <2>5, Zenon
<1>6. /\ NewReceiver.pendingBatch = <<>>
      /\ Counted(NewReceiver, b)
  BY <1>1, <1>3 DEF Counted, NewReceiver
<1> HIDE DEF size, one, full, sum, p
<1>7. Fits(one, b) /\ (p # <<>> => Fits(p, b))
  <2>1. Fits(one, b)
    BY <1>1, <1>2 DEF Fits
  <2>2. p # <<>> => Len(p) \in 1 .. b.maxMessageCount
    BY <1>1, <1>2, <1>4
  <2>3. Bytes(p) > b.preferredMaxBytes => Bytes(p) >= Uint32Size
    BY <1>1, <1>3, <1>4
  <2>4. p # <<>> => Fits(p, b)
    BY <2>2, <2>3, Zenon DEF Fits
  <2> QED BY <2>1, <2>4, Zenon
<1>8. p # <<>> => Good(OrderedResult(<<p, one>>, FALSE, NewReceiver))
  BY <1>6, <1>7 DEF OrderedResult, Shaped
<1>9. p = <<>> => Good(OrderedResult(<<one>>, FALSE, r))
  BY <1>7 DEF OrderedResult, Shaped, p
<1>10. size <= b.preferredMaxBytes /\ sum > b.preferredMaxBytes => p # <<>>
  <2>1. sum \in Nat
    BY <1>1 DEF sum
  <2> QED BY <1>1, <1>5, <2>1
<1>11. ASSUME size <= b.preferredMaxBytes, p # <<>>, ~(Len(one) >= b.maxMessageCount)
       PROVE  Good(OrderedResult(<<p>>, TRUE, alone))
  <2>1. Counted(alone, b)
    <3>1. /\ alone.pendingBatch = one
          /\ size < Uint32Size => alone.pendingBatchSizeBytes = size
      BY <1>5
    <3> HIDE DEF alone
    <3>2. Len(one) < b.maxMessageCount
      BY <1>1, <1>2, <1>11
    <3> QED BY <1>3, <3>1, <3>2 DEF Counted
  <2> QED BY <1>2, <1>7, <1>11, <2>1 DEF OrderedResult, Shaped
<1>12. ASSUME size <= b.preferredMaxBytes, ~(sum > b.preferredMaxBytes),
              Len(full) >= b.maxMessageCount
       PROVE  Good(OrderedResult(<<full>>, FALSE, NewReceiver))
  <2>1. Len(full) \in 1 .. b.maxMessageCount
    BY <1>1, <1>2, <1>4
  <2>2. Bytes(full) > b.preferredMaxBytes => Bytes(full) >= Uint32Size
    <3>1. Bytes(full) < Uint32Size => ~(Bytes(full) > b.preferredMaxBytes)
      BY <1>3, <1>5, <1>12, Zenon
    <3> QED BY <1>1, <1>3, <3>1
  <2>3. Fits(full, b)
    BY <2>1, <2>2, Zenon DEF Fits
  <2> QED BY <1>6, <2>3 DEF OrderedResult, Shaped
<1>13. ASSUME size <= b.preferredMaxBytes, ~(Len(full) >= b.maxMessageCount)
       PROVE  Good(OrderedResult(<<>>, TRUE, joined))
  <2>1. Counted(joined, b)
    <3>1. /\ joined.pendingBatch = full
          /\ Bytes(full) < Uint32Size => joined.pendingBatchSizeBytes = Bytes(full)
      BY <1>3, <1>5
    <3> HIDE DEF joined
    <3>2. Len(full) < b.maxMessageCount
      BY <1>1, <1>2, <1>13
    <3> QED BY <3>1, <3>2 DEF Counted
  <2> QED BY <1>2, <2>1 DEF OrderedResult, Shaped
<1>14. ~(size > b.preferredMaxBytes) => size <= b.preferredMaxBytes
  BY <1>1
<1> HIDE DEF alone, joined, Good
<1> DEFINE res == Ordered(r, env, size, b)
<1>15. OrderedForm(r, env, size, b, res)
  BY <1>1, OrderedForms
<1> HIDE DEF res
<1>16. \/ p = <<>> /\ res = OrderedResult(<<one>>, FALSE, r)
       \/ /\ p # <<>> \/ (~(size > b.preferredMaxBytes) /\ sum > b.preferredMaxBytes)
          /\ res = OrderedResult(<<p, one>>, FALSE, NewReceiver)
       \/ /\ ~(size > b.preferredMaxBytes) /\ sum > b.preferredMaxBytes
          /\ ~(Len(one) >= b.maxMessageCount)
          /\ res = OrderedResult(<<p>>, TRUE, alone)
       \/ /\ ~(size > b.preferredMaxBytes) /\ ~(sum > b.preferredMaxBytes)
          /\ Len(full) >= b.maxMessageCount
          /\ res = OrderedResult(<<full>>, FALSE, NewReceiver)
       \/ /\ ~(size > b.preferredMaxBytes) /\ ~(Len(full) >= b.maxMessageCount)
          /\ res = OrderedResult(<<>>, TRUE, joined)
  BY <1>15, Zenon DEF OrderedForm, one, full, alone, joined, p, sum
<1>17. Good(res)
  BY <1>8, <1>9, <1>10, <1>11, <1>12, <1>13, <1>14, <1>16, Zenon
<1> QED BY <1>17 DEF Good, size, res

(* For every set of envelopes, every size and every batch size: while the  *)
(* pending batch is smaller than Uint32Size the running count is its size, *)
(* a batch exceeds PreferredMaxBytes only as a single oversized envelope   *)
(* or with Uint32Size bytes or more, and never MaxMessageCount, and the    *)
(* pending flag is exact.                                                  *)
THEOREM BlockCutterBounds == Spec => []BatchesBounded
<1> DEFINE Result == [batches |-> last.batches, pending |-> last.pending,
                      receiver |-> receiver]
           IInv == /\ Counted(receiver, batchSize)
                   /\ last.op = "ordered" => Shaped(Result, batchSize)
<1>0. ASSUME NEW b \in BatchSizes PROVE Counted(NewReceiver, b)
  <2>1. <<>> \in Seq(Envelopes) /\ Len(<<>>) = 0
    OBVIOUS
  <2>2. Bytes(<<>>) = 0
    BY <2>1, BytesPrefixes, Zenon
  <2>3. b.maxMessageCount \in Nat \ {0}
    BY BlockCutterAssumption
  <2> QED BY <2>1, <2>2, <2>3 DEF Counted, NewReceiver
<1>1. Init => IInv
  BY <1>0 DEF Init, CutResult
<1>2. TypeOK /\ IInv /\ [Next]_vars => IInv'
  <2> SUFFICES ASSUME TypeOK, IInv, [Next]_vars PROVE IInv'
    BY Zenon
  <2>1. ASSUME NEW env \in Envelopes, CallOrdered(env)
        PROVE  IInv'
    <3> DEFINE res == Ordered(receiver, env, Size[env], batchSize)
    <3>1. /\ receiver' = res.receiver /\ batchSize' = batchSize
          /\ last' = [op |-> "ordered", batches |-> res.batches,
                      pending |-> res.pending]
      BY <2>1 DEF CallOrdered
    <3>2. receiver \in Receivers /\ batchSize \in BatchSizes
          /\ receiver.pendingBatchSizeBytes <= batchSize.preferredMaxBytes
      BY Zenon DEF TypeOK, Receivers
    <3>3. Counted(res.receiver, batchSize) /\ Shaped(res, batchSize)
      BY <3>2, OrderedBounded
    <3> HIDE DEF res
    <3> QED BY <3>1, <3>3, Zenon DEF Counted, Shaped
  <2>2. CASE CallCut \/ Reconfigure
    <3>1. receiver' = NewReceiver /\ batchSize' \in BatchSizes /\ last' = CutResult
      BY <2>2 DEF CallCut, Reconfigure, Cut, TypeOK
    <3>2. last'.op # "ordered"
      BY <3>1 DEF CutResult
    <3>3. Counted(NewReceiver, batchSize')
      BY <3>1, <1>0, Zenon
    <3> QED BY <3>1, <3>2, <3>3 DEF Counted
  <2>3. CASE UNCHANGED vars
    BY <2>3, Zenon DEF vars, Counted, Shaped
  <2> QED BY <2>1, <2>2, <2>3, Zenon DEF Next
<1>3. IInv => BatchesBounded
  BY DEF BatchesBounded, Counted, Shaped, Fits
<1> QED BY <1>1, <1>2, <1>3, BlockCutterConserves, PTL DEF Spec

-----------------------------------------------------------------------------
(* Configuration trees and what an accepted update does to them.           *)

(* The group n levels down the path p.                                     *)
Above(p, n) == SubSeq(p, 1, n)

(* Nothing is a list of anything.                                          *)
LEMMA EmptyIsSequence == \A S : <<>> \in Seq(S)
OBVIOUS

(* Prefixes of a path and of the path of one of its members.               *)
LEMMA PrefixFacts ==
  ASSUME NEW S, NEW p \in Seq(S), NEW n \in 0 .. Len(p)
  PROVE  /\ Above(p, n) \in Seq(S) /\ Len(Above(p, n)) = n
         /\ \A i \in 1 .. n : Above(p, n)[i] = p[i]
         /\ \A k \in 0 .. n : Above(Above(p, n), k) = Above(p, k)
<1>1. /\ Above(p, n) \in Seq(S) /\ Len(Above(p, n)) = n
      /\ \A i \in 1 .. n : Above(p, n)[i] = p[i]
  BY DEF Above
<1>2. ASSUME NEW k \in 0 .. n PROVE Above(Above(p, n), k) = Above(p, k)
  <2> DEFINE a == Above(Above(p, n), k)
             b == Above(p, k)
  <2>1. /\ a \in Seq(S) /\ Len(a) = k
        /\ \A i \in 1 .. k : a[i] = Above(p, n)[i]
    BY <1>1 DEF Above
  <2>2. /\ b \in Seq(S) /\ Len(b) = k /\ \A i \in 1 .. k : b[i] = p[i]
    BY DEF Above
  <2>3. \A i \in 1 .. k : i \in 1 .. n
    OBVIOUS
  <2> HIDE DEF a, b
  <2>4. a = b
    BY <1>1, <2>1, <2>2, <2>3, EqualSequences, Zenon
  <2> QED BY <2>4 DEF a, b
<1> QED BY <1>1, <1>2

(* The path of a member of the group at p.                                 *)
LEMMA MemberFacts ==
  ASSUME NEW S, NEW p \in Seq(S), NEW m, Append(p, m) \in Seq(S)
  PROVE  /\ Len(Append(p, m)) = Len(p) + 1
         /\ Append(p, m)[Len(p) + 1] = m
         /\ \A i \in 1 .. Len(p) : Append(p, m)[i] = p[i]
         /\ \A n \in 0 .. Len(p) : Above(Append(p, m), n) = Above(p, n)
         /\ Above(p, Len(p)) = p
<1>1. /\ Len(Append(p, m)) = Len(p) + 1
      /\ Append(p, m)[Len(p) + 1] = m
      /\ \A i \in 1 .. Len(p) : Append(p, m)[i] = p[i]
  OBVIOUS
<1>2. ASSUME NEW n \in 0 .. Len(p)
      PROVE  Above(Append(p, m), n) = Above(p, n)
  <2> DEFINE q == Append(p, m)
  <2>1. q \in Seq(S) /\ n \in 0 .. Len(q)
    BY <1>1
  <2>2. /\ Above(q, n) \in Seq(S) /\ Len(Above(q, n)) = n
        /\ \A i \in 1 .. n : Above(q, n)[i] = q[i]
    <3> HIDE DEF q
    <3> QED BY <2>1, PrefixFacts
  <2>3. /\ Above(p, n) \in Seq(S) /\ Len(Above(p, n)) = n
        /\ \A i \in 1 .. n : Above(p, n)[i] = p[i]
    BY PrefixFacts
  <2>4. \A i \in 1 .. n : q[i] = p[i]
    BY <1>1
  <2> HIDE DEF q
  <2>5. \A i \in 1 .. n : Above(q, n)[i] = Above(p, n)[i]
    BY <2>2, <2>3, <2>4
  <2>6. Above(q, n) = Above(p, n)
    BY <2>2, <2>3, <2>5, EqualSequences
  <2> QED BY <2>6 DEF q
<1>3. Above(p, Len(p)) = p
  <2>1. Len(p) \in 0 .. Len(p)
    OBVIOUS
  <2>2. /\ Above(p, Len(p)) \in Seq(S) /\ Len(Above(p, Len(p))) = Len(p)
        /\ \A i \in 1 .. Len(p) : Above(p, Len(p))[i] = p[i]
    BY <2>1, PrefixFacts
  <2> QED BY <2>2, EqualSequences
<1> QED BY <1>1, <1>2, <1>3

(* A path is its parent extended by its last name.                         *)
LEMMA ParentFacts ==
  ASSUME NEW S, NEW p \in Seq(S), NEW n \in 0 .. Len(p), n # 0
  PROVE  /\ n - 1 \in 0 .. Len(p) /\ n \in 1 .. Len(p)
         /\ Above(p, n) = Append(Above(p, n - 1), p[n])
<1>1. n - 1 \in 0 .. Len(p) /\ n \in 1 .. Len(p) /\ p[n] \in S
  OBVIOUS
<1> DEFINE a == Above(p, n)
           b == Append(Above(p, n - 1), p[n])
<1>2. /\ Above(p, n - 1) \in Seq(S) /\ Len(Above(p, n - 1)) = n - 1
      /\ \A i \in 1 .. n - 1 : Above(p, n - 1)[i] = p[i]
  BY <1>1, PrefixFacts
<1>3. /\ b \in Seq(S) /\ Len(b) = n /\ b[n] = p[n]
      /\ \A i \in 1 .. n - 1 : b[i] = p[i]
  BY <1>1, <1>2
<1>4. /\ a \in Seq(S) /\ Len(a) = n /\ \A i \in 1 .. n : a[i] = p[i]
  BY PrefixFacts
<1>5. \A i \in 1 .. n : i = n \/ i \in 1 .. n - 1
  OBVIOUS
<1> HIDE DEF a, b
<1>6. a = b
  BY <1>3, <1>4, <1>5, EqualSequences, Zenon
<1> QED BY <1>1, <1>6 DEF a, b

-----------------------------------------------------------------------------
DeltaSet(u) == computeDeltaSet(u.readSet, u.writeSet)
FullMap(map, u) == computeUpdateResult(map, u, DeltaSet(u))

(* The groups above an element of a tree are elements that name it.        *)
LEMMA TreeFacts ==
  ASSUME NEW map, IsTree(map), NEW p \in DOMAIN map
  PROVE  /\ p \in Seq(STRING)
         /\ \A n \in 0 .. Len(p) - 1 : /\ Above(p, n) \in DOMAIN map
                                       /\ IsGroup(Above(p, n))
                                       /\ p[n + 1] \in map[Above(p, n)].content
         /\ IsGroup(p) => \A m \in map[p].content : Append(p, m) \in DOMAIN map
BY DEF IsTree, Reachable, Complete, Above

(* An element of a tree is there if all its groups are and name it.        *)
LEMMA MemberIsThere ==
  ASSUME NEW map, IsTree(map), NEW p \in Seq(STRING), Len(p) # 0,
         Above(p, Len(p) - 1) \in DOMAIN map, IsGroup(Above(p, Len(p) - 1)),
         p[Len(p)] \in map[Above(p, Len(p) - 1)].content
  PROVE  p \in DOMAIN map
<1>0. Len(p) \in 0 .. Len(p)
  OBVIOUS
<1>1. Above(p, Len(p)) = Append(Above(p, Len(p) - 1), p[Len(p)])
  BY <1>0, ParentFacts
<1>2. Above(p, Len(p)) = p
  <2>1. /\ Above(p, Len(p)) \in Seq(STRING) /\ Len(Above(p, Len(p))) = Len(p)
        /\ \A i \in 1 .. Len(p) : Above(p, Len(p))[i] = p[i]
    BY <1>0, PrefixFacts, Zenon
  <2> QED BY <2>1, EqualSequences
<1>3. Append(Above(p, Len(p) - 1), p[Len(p)]) \in DOMAIN map
  BY TreeFacts
<1> QED BY <1>1, <1>2, <1>3, Zenon

(* What an accepted update does to an element of the configuration: it is  *)
(* as before, or its version went up by one with its policy satisfied.     *)
LEMMA UpdateOfElement ==
  ASSUME NEW map, IsTree(map), NEW u, Authorized(map, u), NEW p \in DOMAIN map
  PROVE  /\ p \in DOMAIN FullMap(map, u)
         /\ \/ FullMap(map, u)[p] = map[p]
            \/ /\ FullMap(map, u)[p].version = map[p].version + 1
               /\ Satisfies(u.signers, map[p].modPolicy)
<1>1. verifyDeltaSet(map, u, DeltaSet(u))
  BY Zenon DEF Authorized, DeltaSet
<1>2. p \in DOMAIN FullMap(map, u)
  BY Zenon DEF FullMap, computeUpdateResult
<1>3. CASE p \in DeltaSet(u)
  BY <1>1, <1>2, <1>3, Zenon DEF FullMap, computeUpdateResult, verifyDeltaSet
<1>4. CASE p \notin DeltaSet(u)
  BY <1>2, <1>4 DEF FullMap, computeUpdateResult
<1> QED BY <1>2, <1>3, <1>4, Zenon

(* The updated map is the part of the full one that can be reached.        *)
LEMMA UpdatedElement ==
  ASSUME NEW map, NEW u, NEW p \in DOMAIN UpdatedMap(map, u)
  PROVE  /\ p \in DOMAIN FullMap(map, u) /\ p \in Reachable(FullMap(map, u))
         /\ UpdatedMap(map, u)[p] = FullMap(map, u)[p]
<1>1. UpdatedMap(map, u) = Restrict(FullMap(map, u), Reachable(FullMap(map, u)))
  BY DEF UpdatedMap, FullMap, DeltaSet
<1> QED BY <1>1 DEF Restrict, Reachable

(* configMapToConfig gives a tree again.                                   *)
LEMMA UpdatedIsTree ==
  ASSUME NEW map, IsTree(map), NEW u, Authorized(map, u),
         DOMAIN u.writeSet \subseteq Seq(STRING)
  PROVE  IsTree(UpdatedMap(map, u))
<1> DEFINE f == FullMap(map, u)
           R == Reachable(f)
           new == UpdatedMap(map, u)
<1>1. DOMAIN f \subseteq Seq(STRING) /\ Root \in DOMAIN f
  BY DEF FullMap, computeUpdateResult, DeltaSet, computeDeltaSet, IsTree
<1>2. DOMAIN new = R /\ \A p \in R : new[p] = f[p]
  BY Zenon DEF UpdatedMap, FullMap, DeltaSet, Restrict
<1>3. R \subseteq DOMAIN f
  BY Zenon DEF Reachable
<1>4. Complete(f)
  BY DEF Authorized, FullMap, DeltaSet
<1>5. \A p \in R : \A n \in 0 .. Len(p) - 1 : /\ Above(p, n) \in DOMAIN f
                                              /\ IsGroup(Above(p, n))
                                              /\ p[n + 1] \in f[Above(p, n)].content
  BY DEF Reachable, Above
<1>6. ASSUME NEW p \in DOMAIN f,
             \A n \in 0 .. Len(p) - 1 : /\ Above(p, n) \in DOMAIN f
                                        /\ IsGroup(Above(p, n))
                                        /\ p[n + 1] \in f[Above(p, n)].content
      PROVE  p \in R
  BY <1>6, Zenon DEF Reachable, Above
<1>7. \A p \in DOMAIN f : f[p].version \in Nat
  <2>1. verifyDeltaSet(map, u, DeltaSet(u))
    BY DEF Authorized, DeltaSet
  <2>2. \A p \in DOMAIN map : map[p].version \in Nat
    BY DEF IsTree
  <2> QED BY <2>1, <2>2 DEF FullMap, computeUpdateResult, verifyDeltaSet
<1> HIDE DEF f, R, new
<1>8. ASSUME NEW p \in R, NEW n \in 0 .. Len(p) - 1
      PROVE  Above(p, n) \in R
  <2>1. p \in Seq(STRING) /\ n \in 0 .. Len(p)
    BY <1>1, <1>3
  <2>2. /\ Len(Above(p, n)) = n
        /\ \A i \in 1 .. n : Above(p, n)[i] = p[i]
        /\ \A k \in 0 .. n : Above(Above(p, n), k) = Above(p, k)
    BY <2>1, PrefixFacts
  <2>3. ASSUME NEW k \in 0 .. n - 1
        PROVE  /\ Above(Above(p, n), k) \in DOMAIN f
               /\ IsGroup(Above(Above(p, n), k))
               /\ Above(p, n)[k + 1] \in f[Above(Above(p, n), k)].content
    <3>1. k \in 0 .. Len(p) - 1 /\ k \in 0 .. n /\ k + 1 \in 1 .. n
      BY <2>1
    <3>2. Above(Above(p, n), k) = Above(p, k) /\ Above(p, n)[k + 1] = p[k + 1]
      BY <2>2, <3>1
    <3> QED BY <1>5, <3>1, <3>2
  <2>4. Above(p, n) \in DOMAIN f
    BY <1>5
  <2> QED BY <1>6, <2>2, <2>3, <2>4
<1>9. Reachable(new) = DOMAIN new
  <2>1. ASSUME NEW p \in R PROVE p \in Reachable(new)
    <3>1. \A n \in 0 .. Len(p) - 1 : /\ Above(p, n) \in DOMAIN new
                                     /\ IsGroup(Above(p, n))
                                     /\ p[n + 1] \in new[Above(p, n)].content
      BY <1>2, <1>5, <1>8
    <3> QED BY <1>2, <3>1 DEF Reachable, Above
  <2> QED BY <1>2, <2>1 DEF Reachable
<1>10. Complete(new)
  <2> SUFFICES ASSUME NEW p \in R, IsGroup(p), NEW m \in f[p].content
               PROVE  Append(p, m) \in R
    BY <1>2, <1>9 DEF Complete
  <2> DEFINE q == Append(p, m)
  <2>0. p \in Seq(STRING) /\ Len(p) \in Nat
    BY <1>1, <1>3
  <2>1. q \in DOMAIN f
    BY <1>4 DEF Complete, R
  <2>2. q \in Seq(STRING)
    BY <1>1, <2>1, Zenon
  <2>3. /\ Len(q) = Len(p) + 1 /\ q[Len(p) + 1] = m
        /\ \A i \in 1 .. Len(p) : q[i] = p[i]
        /\ \A n \in 0 .. Len(p) : Above(q, n) = Above(p, n)
        /\ Above(p, Len(p)) = p
    BY <2>0, <2>2, MemberFacts
  <2> HIDE DEF q
  <2>4. ASSUME NEW n \in 0 .. Len(q) - 1
        PROVE  /\ Above(q, n) \in DOMAIN f
               /\ IsGroup(Above(q, n))
               /\ q[n + 1] \in f[Above(q, n)].content
    <3>1. CASE n = Len(p)
      <4>1. n \in 0 .. Len(p)
        BY <2>0, <3>1
      <4>2. Above(q, n) = p /\ q[n + 1] = m
        BY <2>3, <3>1, <4>1
      <4> QED BY <1>3, <4>2
    <3>2. CASE n # Len(p)
      <4>1. n \in 0 .. Len(p) - 1 /\ n \in 0 .. Len(p) /\ n + 1 \in 1 .. Len(p)
        BY <2>0, <2>3, <3>2
      <4>2. Above(q, n) = Above(p, n) /\ q[n + 1] = p[n + 1]
        BY <2>3, <4>1, Zenon
      <4> QED BY <1>5, <4>1, <4>2
    <3> QED BY <3>1, <3>2
  <2>5. q \in R
    BY <1>6, <2>1, <2>4
  <2> QED BY <2>5 DEF q
<1>11. Root \in R
  <2>1. Root \in Seq(STRING) /\ 0 .. Len(Root) - 1 = {}
    BY DEF Root
  <2> QED BY <1>1, <1>6, <2>1, Zenon
<1>12. IsTree(new)
  BY <1>1, <1>2, <1>3, <1>7, <1>9, <1>10, <1>11, Zenon DEF IsTree
<1> QED BY <1>12 DEF new

-----------------------------------------------------------------------------
(* Nothing changes without the consent the previous tree asks for.         *)
May(map, u, p) == p \in DOMAIN map /\ Satisfies(u.signers, map[p].modPolicy)

(* An accepted update changes an element with the consent of its own       *)
(* mod_policy, and adds or removes one with that of a group above it.      *)
LEMMA UpdateIsAuthorized ==
  ASSUME NEW map, IsTree(map), NEW u, Authorized(map, u),
         DOMAIN u.writeSet \subseteq Seq(STRING),
         NEW new, new = UpdatedMap(map, u)
  PROVE  /\ \A p \in DOMAIN map \cap DOMAIN new : map[p] # new[p] => May(map, u, p)
         /\ \A p \in (DOMAIN map \ DOMAIN new) \cup (DOMAIN new \ DOMAIN map) :
              \E n \in 0 .. Len(p) - 1 : May(map, u, Above(p, n))
<1> DEFINE f == FullMap(map, u)
<1>0. \A p \in DOMAIN map : p \in DOMAIN f /\ (f[p] = map[p] \/ May(map, u, p))
  BY UpdateOfElement, Zenon DEF May
<1>1. \A p \in DOMAIN new : /\ p \in DOMAIN f /\ p \in Reachable(f)
                            /\ new[p] = f[p]
  BY UpdatedElement
<1>2. DOMAIN new = Reachable(f)
  BY Zenon DEF UpdatedMap, FullMap, DeltaSet, Restrict
<1> HIDE DEF f
<1>3. \A p \in DOMAIN map \cap DOMAIN new : map[p] # new[p] => May(map, u, p)
  BY <1>0, <1>1, Zenon
<1>4. ASSUME NEW p \in DOMAIN map \ DOMAIN new
      PROVE  \E n \in 0 .. Len(p) - 1 : May(map, u, Above(p, n))
  <2>1. \A n \in 0 .. Len(p) - 1 : /\ Above(p, n) \in DOMAIN map
                                   /\ IsGroup(Above(p, n))
                                   /\ p[n + 1] \in map[Above(p, n)].content
    BY TreeFacts, Zenon
  <2>2. p \in DOMAIN f /\ p \notin Reachable(f)
    BY <1>0, <1>2
  <2>3. PICK n \in 0 .. Len(p) - 1 : ~ (/\ Above(p, n) \in DOMAIN f
                                        /\ IsGroup(Above(p, n))
                                        /\ p[n + 1] \in f[Above(p, n)].content)
    BY <2>2, Zenon DEF Reachable, Above
  <2>4. f[Above(p, n)] # map[Above(p, n)]
    BY <1>0, <2>1, <2>3, Zenon
  <2> QED BY <1>0, <2>1, <2>4, Zenon
<1>5. ASSUME NEW p \in DOMAIN new \ DOMAIN map
      PROVE  \E n \in 0 .. Len(p) - 1 : May(map, u, Above(p, n))
  <2>0. IsTree(new)
    BY UpdatedIsTree, Zenon
  <2>1. /\ p \in Seq(STRING) /\ Len(p) \in Nat
        /\ \A n \in 0 .. Len(p) - 1 : /\ Above(p, n) \in DOMAIN new
                                      /\ IsGroup(Above(p, n))
                                      /\ p[n + 1] \in new[Above(p, n)].content
    BY <2>0, TreeFacts
  <2>2. Above(p, Len(p)) = p /\ Above(p, 0) = Root
    <3>1. Len(p) \in 0 .. Len(p) /\ 0 \in 0 .. Len(p)
      BY <2>1
    <3>2. Above(p, Len(p)) = p
      BY <2>1, <3>1, PrefixFacts, EqualSequences
    <3>3. Len(Above(p, 0)) = 0 /\ Above(p, 0) \in Seq(STRING)
      BY <2>1, <3>1, PrefixFacts, Zenon
    <3> QED BY <3>2, <3>3 DEF Root
  <2> DEFINE T == {n \in 0 .. Len(p) : Above(p, n) \notin DOMAIN map}
  <2>3. T \subseteq Nat /\ T # {}
    BY <2>1, <2>2
  <2>4. PICK n \in T : \A k \in T : n <= k
    <3> HIDE DEF T
    <3> QED BY <2>3, LeastNatural, Zenon
  <2>5. n \in 0 .. Len(p) /\ n # 0
    BY <2>2, Zenon DEF IsTree
  <2>6. n - 1 \in 0 .. Len(p) - 1 /\ n - 1 \in 0 .. Len(p) /\ (n - 1) + 1 = n
        /\ ~(n <= n - 1)
    BY <2>1, <2>5
  <2> DEFINE q == Above(p, n - 1)
  <2>7. q \in DOMAIN map
    BY <2>4, <2>6, Zenon
  <2>8. IsGroup(q) /\ p[n] \in new[q].content /\ q \in DOMAIN new
    BY <2>1, <2>6
  <2>9. Above(p, n) = Append(q, p[n])
    BY <2>1, <2>5, ParentFacts, Zenon
  <2>10. p[n] \notin map[q].content
    <3>1. Append(q, p[n]) \notin DOMAIN map
      BY <2>9, Zenon
    <3> HIDE DEF q
    <3> QED BY <2>7, <2>8, <3>1, TreeFacts
  <2>11. map[q] # new[q]
    BY <2>8, <2>10, Zenon
  <2> HIDE DEF q
  <2>12. May(map, u, q)
    BY <1>3, <2>7, <2>8, <2>11, Zenon
  <2> QED BY <2>6, <2>12 DEF q
<1> QED BY <1>3, <1>4, <1>5, Zenon

-----------------------------------------------------------------------------
(* a is an earlier, b a later configuration.  Where the versions of all    *)
(* groups above an element are the same in both, the element is still      *)
(* there, its version has not gone down, and an equal version stands for   *)
(* the very same element: it was not removed and added again in between.   *)
SameAbove(a, b, p) ==
  \A n \in 0 .. Len(p) - 1 : /\ Above(p, n) \in DOMAIN a
                             /\ Above(p, n) \in DOMAIN b
                             /\ a[Above(p, n)].version = b[Above(p, n)].version

Vouches(a, b) ==
  \A p \in DOMAIN a :
    SameAbove(a, b, p) => /\ p \in DOMAIN b
                          /\ a[p].version <= b[p].version
                          /\ a[p].version = b[p].version => a[p] = b[p]

(* A configuration vouches for itself.                                     *)
LEMMA VouchesReflexive ==
  ASSUME NEW a, IsTree(a)
  PROVE  Vouches(a, a)
BY DEF Vouches, IsTree

(* An accepted update keeps what the versions of an earlier configuration  *)
(* vouch for: a group that loses or gains a member gets a new version.     *)
LEMMA VouchesStep ==
  ASSUME NEW a, IsTree(a), NEW b, IsTree(b), Vouches(a, b),
         NEW u, Authorized(b, u), DOMAIN u.writeSet \subseteq Seq(STRING)
  PROVE  Vouches(a, UpdatedMap(b, u))
<1> DEFINE c == UpdatedMap(b, u)
<1> SUFFICES ASSUME NEW p \in DOMAIN a, SameAbove(a, c, p)
             PROVE  /\ p \in DOMAIN c
                    /\ a[p].version <= c[p].version
                    /\ a[p].version = c[p].version => a[p] = c[p]
  BY DEF Vouches
<1>1. IsTree(c)
  BY UpdatedIsTree, Zenon
<1>2. \A q \in DOMAIN b \cap DOMAIN c :
        \/ c[q] = b[q]
        \/ c[q].version = b[q].version + 1
  BY UpdateOfElement, UpdatedElement
<1>3. /\ \A q \in DOMAIN a : a[q].version \in Nat
      /\ \A q \in DOMAIN b : b[q].version \in Nat
      /\ \A q \in DOMAIN c : c[q].version \in Nat
  BY <1>1, Zenon DEF IsTree
<1> HIDE DEF c
<1>4. /\ p \in Seq(STRING) /\ Len(p) \in Nat
      /\ \A n \in 0 .. Len(p) - 1 : /\ Above(p, n) \in DOMAIN a
                                    /\ IsGroup(Above(p, n))
                                    /\ p[n + 1] \in a[Above(p, n)].content
  BY TreeFacts
<1>5. ASSUME NEW n \in 0 .. Len(p) - 1,
             \A k \in 0 .. n - 1 : /\ Above(p, k) \in DOMAIN b
                                   /\ a[Above(p, k)].version = b[Above(p, k)].version
      PROVE  SameAbove(a, b, Above(p, n))
  <2>1. /\ Len(Above(p, n)) = n
        /\ \A k \in 0 .. n : Above(Above(p, n), k) = Above(p, k)
    <3>1. n \in 0 .. Len(p)
      BY <1>4
    <3> QED BY <1>4, <3>1, PrefixFacts, Zenon
  <2>2. \A k \in 0 .. n - 1 : k \in 0 .. n /\ k \in 0 .. Len(p) - 1
    BY <1>4
  <2> QED BY <1>4, <1>5, <2>1, <2>2, Zenon DEF SameAbove
<1> DEFINE Same(n) == /\ Above(p, n) \in DOMAIN b
                      /\ a[Above(p, n)].version = b[Above(p, n)].version
           T == {n \in 0 .. Len(p) - 1 : ~Same(n)}
<1>6. T = {}
  <2> SUFFICES ASSUME T # {} PROVE FALSE
    BY Zenon
  <2>1. T \subseteq Nat
    BY <1>4
  <2>2. PICK n \in T : \A k \in T : n <= k
    <3> HIDE DEF T
    <3> QED BY <2>1, LeastNatural, Zenon
  <2>3. n \in 0 .. Len(p) - 1 /\ ~Same(n)
    BY Zenon
  <2>4. \A k \in 0 .. n - 1 : Same(k)
    <3> SUFFICES ASSUME NEW k \in 0 .. n - 1 PROVE Same(k)
      BY Zenon
    <3>1. k \in 0 .. Len(p) - 1 /\ ~(n <= k)
      BY <1>4, <2>3
    <3> QED BY <2>2, <3>1, Zenon
  <2>5. SameAbove(a, b, Above(p, n))
    BY <1>5, <2>3, <2>4, Zenon
  <2>6. /\ Above(p, n) \in DOMAIN a /\ Above(p, n) \in DOMAIN c
        /\ a[Above(p, n)].version = c[Above(p, n)].version
    BY <2>3, Zenon DEF SameAbove
  <2>7. /\ Above(p, n) \in DOMAIN b
        /\ a[Above(p, n)].version <= b[Above(p, n)].version
    BY <2>5, <2>6, Zenon DEF Vouches
  <2>8. b[Above(p, n)].version <= c[Above(p, n)].version
    <3> DEFINE q == Above(p, n)
    <3>1. c[q] = b[q] \/ c[q].version = b[q].version + 1
      BY <1>2, <2>6, <2>7, Zenon
    <3>2. b[q].version \in Nat
      BY <1>3, <2>7, Zenon
    <3> HIDE DEF q
    <3>3. b[q].version <= c[q].version
      BY <3>1, <3>2
    <3> QED BY <3>3 DEF q
  <2>9. a[Above(p, n)].version = b[Above(p, n)].version
    BY <1>3, <2>6, <2>7, <2>8
  <2> QED BY <2>3, <2>7, <2>9
<1>7. \A n \in 0 .. Len(p) - 1 : Same(n)
  BY <1>6, Zenon
<1>8. SameAbove(a, b, p)
  BY <1>4, <1>7, Zenon DEF SameAbove
<1>9. /\ p \in DOMAIN b /\ a[p].version <= b[p].version
      /\ a[p].version = b[p].version => a[p] = b[p]
  BY <1>8 DEF Vouches
<1>10. p \in DOMAIN c
  <2>1. CASE Len(p) = 0
    BY <1>1, <1>4, <2>1 DEF IsTree, Root
  <2>2. CASE Len(p) # 0
    <3> DEFINE n == Len(p) - 1
               q == Above(p, n)
    <3>1. n \in 0 .. Len(p) - 1 /\ n + 1 = Len(p)
      BY <1>4, <2>2
    <3>2. SameAbove(a, b, q)
      <4>1. \A k \in 0 .. n - 1 : k \in 0 .. Len(p) - 1
        BY <1>4
      <4> QED BY <1>5, <1>7, <3>1, <4>1, Zenon
    <3>3. /\ q \in DOMAIN a /\ q \in DOMAIN b /\ q \in DOMAIN c
          /\ a[q].version = b[q].version /\ a[q].version = c[q].version
          /\ IsGroup(q) /\ p[Len(p)] \in a[q].content
      BY <1>4, <1>7, <3>1 DEF SameAbove
    <3> HIDE DEF n, q
    <3>4. a[q] = b[q]
      BY <3>2, <3>3, Zenon DEF Vouches
    <3>5. c[q] = b[q]
      <4>1. b[q].version \in Nat /\ c[q].version = b[q].version
        BY <1>3, <3>3, Zenon
      <4>2. c[q].version # b[q].version + 1
        BY <4>1
      <4> QED BY <1>2, <3>3, <4>2, Zenon
    <3> QED BY <1>1, <1>4, <2>2, <3>3, <3>4, <3>5, MemberIsThere, Zenon DEF n, q
  <2> QED BY <2>1, <2>2, Zenon
<1>11. c[p] = b[p] \/ c[p].version = b[p].version + 1
  BY <1>2, <1>9, <1>10
<1> QED BY <1>3, <1>9, <1>10, <1>11
=============================================================================
