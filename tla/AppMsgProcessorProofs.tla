----------------------- MODULE AppMsgProcessorProofs -----------------------
(***************************************************************************)
(* Reassembly for any messages cut into any number of chunks: the indexes  *)
(* of the processor agree, no message is returned more often than all its  *)
(* chunks came in, and one whose chunks all came in time is returned.      *)
(***************************************************************************)
EXTENDS AppMsgProcessorSpec, DataInduction, FiniteSetTheorems

-----------------------------------------------------------------------------
(* One processor.                                                          *)

(* What Without returns.                                                   *)
LEMMA WithoutLeaves ==
  ASSUME NEW S, NEW list \in Seq(S), NEW keys
  PROVE  /\ Without(list, keys) \in Seq(S)
         /\ LeftOf(list, keys, Len(list), Without(list, keys))
<1> DEFINE kept == CHOOSE f : f = [i \in 0 .. Len(list) |->
                                     IF i = 0 THEN <<>>
                                     ELSE IF list[i] \in keys THEN f[i - 1]
                                     ELSE Append(f[i - 1], list[i])]
<1>1. Without(list, keys) = kept[Len(list)]
  BY DEF Without
<1>2. kept[Len(list)] \in Seq(S) /\ LeftOf(list, keys, Len(list), kept[Len(list)])
  BY KeptElements, Zenon
<1> QED BY <1>1, <1>2

Bodies == Messages \cup {c.body : c \in Malformed}

Holders == [chunks : UNION {[D -> Bodies] : D \in SUBSET Nat},
            count : Nat, received : Nat, app : Apps, timestamp : Nat]

GoodChunk(c) == /\ c.key \in Messages /\ c.app = AppOf[c.key]
                /\ c.count \in Int /\ c.index \in Int /\ c.body \in Bodies

(* The holder of the message with key k at time t.                         *)
HolderOK(h, k, t) ==
  /\ h \in Holders
  /\ DOMAIN h.chunks \subseteq 0 .. h.count - 1
  /\ h.received = Cardinality(DOMAIN h.chunks)
  /\ h.app = AppOf[k]
  /\ h.timestamp <= t

(* What IndexesAgree says of a processor, in the form in which it is kept. *)
ProcOK(p, t) ==
  /\ DOMAIN p.holders \subseteq Messages
  /\ \A k \in DOMAIN p.holders : HolderOK(p.holders[k], k, t)
  /\ p.holderListByAge \in Seq(Messages)
  /\ Range(p.holderListByAge) = DOMAIN p.holders
  /\ \A i, j \in DOMAIN p.holderListByAge :
       i < j => p.holders[p.holderListByAge[i]].timestamp
                  < p.holders[p.holderListByAge[j]].timestamp
  /\ p.holdersByAppID
       = [a \in Apps |-> {k \in DOMAIN p.holders : p.holders[k].app = a}]

(* q holds what p holds for the keys of K, and nothing else.               *)
Keeps(q, p, K) == /\ DOMAIN q.holders = K
                  /\ \A k \in K : q.holders[k] = p.holders[k]

(* What is left of a list has the range that is left of its range.         *)
LEMMA WithoutRange ==
  ASSUME NEW S, NEW list \in Seq(S), NEW keys
  PROVE  Range(Without(list, keys)) = Range(list) \ keys
<1> DEFINE w == Without(list, keys)
<1>1. LeftOf(list, keys, Len(list), w) /\ DOMAIN list = 1 .. Len(list)
  BY WithoutLeaves
<1> HIDE DEF w
<1>2. /\ \A a \in DOMAIN w : \E c \in DOMAIN list : w[a] = list[c] /\ list[c] \notin keys
      /\ \A c \in DOMAIN list : list[c] \notin keys => \E a \in DOMAIN w : w[a] = list[c]
  BY <1>1, Zenon DEF LeftOf
<1>3. Range(w) = Range(list) \ keys
  <2>1. ASSUME NEW k \in Range(w) PROVE k \in Range(list) \ keys
    BY <1>2, Zenon DEF Range
  <2>2. ASSUME NEW k \in Range(list), k \notin keys PROVE k \in Range(w)
    BY <1>2, <2>2 DEF Range
  <2> QED BY <2>1, <2>2
<1> QED BY <1>3 DEF w

(* removeHolder takes a holder out of the map, the list and the index.     *)
LEMMA RemoveOK ==
  ASSUME NEW p, NEW t, ProcOK(p, t), NEW keys
  PROVE  /\ ProcOK(removeHolders(p, keys), t)
         /\ Keeps(removeHolders(p, keys), p, DOMAIN p.holders \ keys)
<1> DEFINE q == removeHolders(p, keys)
           L == p.holderListByAge
           W == Without(L, keys)
           K == DOMAIN p.holders \ keys
<1>1. /\ L \in Seq(Messages) /\ Range(L) = DOMAIN p.holders
      /\ DOMAIN p.holders \subseteq Messages
      /\ \A k \in DOMAIN p.holders : HolderOK(p.holders[k], k, t)
  BY DEF ProcOK
<1>2. \A i, j \in DOMAIN L :
        i < j => p.holders[L[i]].timestamp < p.holders[L[j]].timestamp
  BY DEF ProcOK
<1>3. /\ q.holders = [k \in K |-> p.holders[k]]
      /\ q.holdersByAppID = [a \in Apps |-> p.holdersByAppID[a] \ keys]
      /\ q.holderListByAge = W
  BY DEF removeHolders, Restrict
<1> HIDE DEF q
<1>4. DOMAIN q.holders = K /\ \A k \in K : q.holders[k] = p.holders[k]
  BY <1>3
<1>5. W \in Seq(Messages) /\ LeftOf(L, keys, Len(L), W) /\ Range(W) = K
  <2> HIDE DEF L
  <2> QED BY <1>1, WithoutLeaves, WithoutRange
<1>6. DOMAIN L = 1 .. Len(L)
  BY <1>1
<1> HIDE DEF L, W
<1>6b. \A i, j \in DOMAIN W :
         i < j => \E c, d \in DOMAIN L : c < d /\ W[i] = L[c] /\ W[j] = L[d]
  <2>1. \A i, j \in DOMAIN W :
          i < j => \E c, d \in 1 .. Len(L) : c < d /\ W[i] = L[c] /\ W[j] = L[d]
    BY <1>5, Zenon DEF LeftOf
  <2> QED BY <1>6, <2>1
<1>7. ASSUME NEW i \in DOMAIN W, NEW j \in DOMAIN W, i < j
      PROVE  q.holders[W[i]].timestamp < q.holders[W[j]].timestamp
  <2>1. PICK c \in DOMAIN L, d \in DOMAIN L : c < d /\ W[i] = L[c] /\ W[j] = L[d]
    BY <1>7, <1>6b
  <2>2. W[i] \in K /\ W[j] \in K
    BY <1>5 DEF Range
  <2>3. p.holders[L[c]].timestamp < p.holders[L[d]].timestamp
    BY <1>2, <2>1
  <2> QED BY <1>4, <2>1, <2>2, <2>3
<1>8. q.holdersByAppID
        = [a \in Apps |-> {k \in K : q.holders[k].app = a}]
  <2>1. p.holdersByAppID
          = [a \in Apps |-> {k \in DOMAIN p.holders : p.holders[k].app = a}]
    BY DEF ProcOK
  <2>2. \A a \in Apps : p.holdersByAppID[a] \ keys
                          = {k \in K : q.holders[k].app = a}
    BY <1>4, <2>1
  <2> QED BY <1>3, <2>2, Zenon
<1>9. ProcOK(q, t)
  <2>1. \A k \in DOMAIN q.holders : HolderOK(q.holders[k], k, t)
    BY <1>1, <1>4
  <2>2. DOMAIN q.holders \subseteq Messages
    BY <1>1, <1>4
  <2> HIDE DEF K
  <2> QED BY <1>3, <1>4, <1>5, <1>7, <1>8, <2>1, <2>2, Zenon DEF ProcOK
<1>10. Keeps(q, p, K)
  BY <1>4 DEF Keeps
<1> QED BY <1>9, <1>10 DEF q

Late(h, t) == t - h.timestamp >= ReassembleTimeout

(* The list being sorted, expireByTimestamp finds all that is overdue,     *)
(* though it stops at the first holder that is not.                        *)
LEMMA OverdueAreLate ==
  ASSUME NEW p, NEW t \in Nat, ProcOK(p, t)
  PROVE  overdue(p, t) = {k \in DOMAIN p.holders : Late(p.holders[k], t)}
<1> DEFINE L == p.holderListByAge
           H == p.holders
           M == {i \in 0 .. Len(L) : \A j \in 1 .. i : Late(H[L[j]], t)}
           n == Max(M)
<1>1. /\ L \in Seq(Messages) /\ Range(L) = DOMAIN H
      /\ \A k \in DOMAIN H : HolderOK(H[k], k, t)
      /\ \A i, j \in DOMAIN L : i < j => H[L[i]].timestamp < H[L[j]].timestamp
  BY DEF ProcOK
<1>2. DOMAIN L = 1 .. Len(L) /\ Len(L) \in Nat
  BY <1>1
<1>3. overdue(p, t) = {L[j] : j \in 1 .. n}
  BY DEF overdue, Late
<1> HIDE DEF L, H
<1>4. 0 \in M /\ M \subseteq 0 .. Len(L)
  BY <1>2
<1>5. n \in M /\ \A i \in M : i <= n
  <2> HIDE DEF M
  <2> QED BY <1>2, <1>4, MaxOfNaturals, Zenon
<1>6. n \in 0 .. Len(L) /\ \A j \in 1 .. n : Late(H[L[j]], t)
  BY <1>5
<1>7. ASSUME NEW j \in DOMAIN L, Late(H[L[j]], t)
      PROVE  j \in 1 .. n
  <2> SUFFICES ASSUME j \notin 1 .. n PROVE FALSE
    OBVIOUS
  <2>1. j \in Nat /\ n + 1 <= j /\ n + 1 \in 0 .. Len(L) /\ n + 1 \in 1 .. Len(L)
        /\ ~(n + 1 <= n) /\ n \in Nat
    BY <1>2, <1>6
  <2>2. n + 1 \notin M
    BY <1>5, <2>1, Zenon
  <2>3. PICK x \in 1 .. n + 1 : ~Late(H[L[x]], t)
    BY <2>1, <2>2, Zenon
  <2>4. x = n + 1
    <3>1. x \in 1 .. n \/ x = n + 1
      BY <2>1
    <3> QED BY <1>6, <2>3, <3>1, Zenon
  <2>5. /\ H[L[x]].timestamp \in Nat /\ H[L[j]].timestamp \in Nat
        /\ H[L[x]].timestamp <= H[L[j]].timestamp
    <3>1. L[x] \in DOMAIN H /\ L[j] \in DOMAIN H
      BY <1>1, <1>2, <2>1, <2>4 DEF Range
    <3>2. H[L[x]].timestamp \in Nat /\ H[L[j]].timestamp \in Nat
      BY <1>1, <3>1, Zenon DEF HolderOK, Holders
    <3>3. x = j \/ x < j
      BY <2>1, <2>4
    <3>4. x \in DOMAIN L
      BY <1>2, <2>1, <2>4
    <3> QED BY <1>1, <3>2, <3>3, <3>4
  <2> QED BY <1>7, <2>3, <2>5, AppMsgProcessorAssumption DEF Late
<1>8. \A j \in 1 .. n : j \in DOMAIN L
  BY <1>2, <1>6
<1>9. {L[j] : j \in 1 .. n} = {k \in DOMAIN H : Late(H[k], t)}
  <2>1. \A k \in DOMAIN H : \E j \in DOMAIN L : k = L[j]
    BY <1>1 DEF Range
  <2>2. \A j \in DOMAIN L : L[j] \in DOMAIN H
    BY <1>1 DEF Range
  <2> HIDE DEF n
  <2> QED BY <1>6, <1>7, <1>8, <2>1, <2>2
<1> QED BY <1>3, <1>9, Zenon DEF H

Live(p, t) == {k \in DOMAIN p.holders : ~Late(p.holders[k], t)}

(* expireByTimestamp keeps exactly the holders that are not overdue.       *)
LEMMA ExpireOK ==
  ASSUME NEW p, NEW t \in Nat, ProcOK(p, t)
  PROVE  /\ ProcOK(expireByTimestamp(p, t), t)
         /\ Keeps(expireByTimestamp(p, t), p, Live(p, t))
<1> DEFINE late == {k \in DOMAIN p.holders : Late(p.holders[k], t)}
<1>1. expireByTimestamp(p, t) = removeHolders(p, late)
  BY OverdueAreLate DEF expireByTimestamp
<1>2. DOMAIN p.holders \ late = Live(p, t)
  BY DEF Live
<1> HIDE DEF late
<1> QED BY <1>1, <1>2, RemoveOK

(* Time passing hurts nothing.                                             *)
LEMMA LaterOK ==
  ASSUME NEW p, NEW s \in Nat, NEW t \in Nat, s <= t, ProcOK(p, s)
  PROVE  ProcOK(p, t)
<1>1. ASSUME NEW k, NEW h, HolderOK(h, k, s) PROVE HolderOK(h, k, t)
  <2>1. h.timestamp \in Nat /\ h.timestamp <= s
    BY <1>1 DEF HolderOK, Holders
  <2> QED BY <1>1, <2>1 DEF HolderOK
<1> QED BY <1>1 DEF ProcOK

(* The holder of a chunk after the chunk has joined it.                    *)
Joined(p, c, t) ==
  LET h == holderOf(p, c)
  IN  [chunks    |-> [i \in DOMAIN h.chunks \cup {c.index} |->
                        IF i = c.index THEN c.body ELSE h.chunks[i]],
       count     |-> h.count,
       received  |-> h.received + 1,
       app       |-> h.app,
       timestamp |-> t]

(* The same as an update of the holder's fields.                           *)
LEMMA JoinedRecord ==
  ASSUME NEW h \in Holders, NEW f, NEW t
  PROVE  [h EXCEPT !.chunks = f, !.received = @ + 1, !.timestamp = t]
           = [chunks |-> f, count |-> h.count, received |-> h.received + 1,
              app |-> h.app, timestamp |-> t]
<1> DEFINE a == [h EXCEPT !.chunks = f]
           r == h.received + 1
           b == [a EXCEPT !.received = r]
           e == [b EXCEPT !.timestamp = t]
<1>1. a = [chunks |-> f, count |-> h.count, received |-> h.received,
           app |-> h.app, timestamp |-> h.timestamp]
  BY DEF Holders
<1>2. [h EXCEPT !.chunks = f, !.received = @ + 1, !.timestamp = t] = e
  OBVIOUS
<1> HIDE DEF a, r
<1>3. b = [chunks |-> f, count |-> h.count, received |-> r,
           app |-> h.app, timestamp |-> h.timestamp]
  BY <1>1
<1> HIDE DEF b
<1>4. e = [chunks |-> f, count |-> h.count, received |-> r,
           app |-> h.app, timestamp |-> t]
  BY <1>3
<1> HIDE DEF e
<1> QED BY <1>2, <1>4 DEF r

(* A holder has room for a valid chunk and counts it.                      *)
LEMMA JoinedOK ==
  ASSUME NEW p, NEW s \in Nat, NEW t \in Nat, s < t, ProcOK(p, s),
         NEW c, GoodChunk(c), isValidChunk(p, c), c.count > 1
  PROVE  /\ HolderOK(holderOf(p, c), c.key, s)
         /\ HolderOK(Joined(p, c, t), c.key, t)
         /\ c.count = holderOf(p, c).count
         /\ c.index \notin DOMAIN holderOf(p, c).chunks
<1> DEFINE h == holderOf(p, c)
           D == DOMAIN h.chunks
           j == Joined(p, c, t)
           f == [i \in D \cup {c.index} |->
                   IF i = c.index THEN c.body ELSE h.chunks[i]]
<1>1. /\ c.key \in Messages /\ c.app = AppOf[c.key] /\ c.app \in Apps
      /\ c.count \in Nat /\ c.index \in Nat /\ c.body \in Bodies
      /\ c.index \in 0 .. c.count - 1
  BY AppMsgProcessorSpecAssumption DEF GoodChunk, isValidChunk
<1>2. c.count = h.count /\ c.index \notin D
  BY DEF isValidChunk
<1>3. HolderOK(h, c.key, s)
  <2>1. CASE c.key \in DOMAIN p.holders
    BY <2>1 DEF ProcOK, holderOf
  <2>2. CASE c.key \notin DOMAIN p.holders
    <3> DEFINE e == [i \in {} |-> {}]
    <3>1. /\ e \in [{} -> Bodies] /\ {} \in SUBSET Nat /\ DOMAIN e = {}
      OBVIOUS
    <3>2. h = [chunks |-> e, count |-> c.count, received |-> 0,
               app |-> c.app, timestamp |-> 0]
      BY <2>2 DEF holderOf
    <3> HIDE DEF e, h
    <3>3. h \in Holders
      BY <1>1, <3>1, <3>2, Zenon DEF Holders
    <3> QED BY <1>1, <3>1, <3>2, <3>3, FS_EmptySet DEF HolderOK
  <2> QED BY <2>1, <2>2
<1>4. /\ h.chunks \in [D -> Bodies] /\ D \subseteq 0 .. c.count - 1 /\ D \subseteq Nat
      /\ h.received = Cardinality(D) /\ h.app = AppOf[c.key] /\ h.app \in Apps
  <2>1. h \in Holders
    BY <1>3 DEF HolderOK
  <2>2. PICK E \in SUBSET Nat : h.chunks \in [E -> Bodies]
    BY <2>1 DEF Holders
  <2>3. h.chunks \in [D -> Bodies] /\ D \subseteq Nat
    BY <2>2, Zenon
  <2> HIDE DEF h
  <2> QED BY <1>2, <1>3, <2>1, <2>3 DEF HolderOK, Holders
<1>5. /\ j.chunks = f /\ j.count = c.count /\ j.received = h.received + 1
      /\ j.app = h.app /\ j.timestamp = t
      /\ j = [chunks |-> f, count |-> c.count, received |-> h.received + 1,
              app |-> h.app, timestamp |-> t]
  BY <1>2 DEF Joined
<1> HIDE DEF h, D, j
<1>6. f \in [D \cup {c.index} -> Bodies] /\ DOMAIN f = D \cup {c.index}
      /\ D \cup {c.index} \subseteq 0 .. c.count - 1
      /\ D \cup {c.index} \in SUBSET Nat
  BY <1>1, <1>4, Zenon
<1> HIDE DEF f
<1>7. IsFiniteSet(D)
  <2> DEFINE n == c.count - 1
  <2>1. n \in Int /\ 0 \in Int
    BY <1>1
  <2> HIDE DEF n
  <2>2. IsFiniteSet(0 .. n)
    BY <2>1, FS_Interval
  <2> QED BY <1>4, <2>2, FS_Subset, Zenon DEF n
<1>8. /\ Cardinality(D) \in Nat
      /\ Cardinality(D \cup {c.index}) = Cardinality(D) + 1
  BY <1>2, <1>7, FS_AddElement, FS_CardinalityType
<1>9. j \in Holders
  <2>1. h.received + 1 \in Nat
    BY <1>4, <1>8
  <2>2. f \in UNION {[E -> Bodies] : E \in SUBSET Nat}
    BY <1>6
  <2> QED BY <1>1, <1>4, <1>5, <2>1, <2>2 DEF Holders
<1>10. HolderOK(j, c.key, t)
  <2>1. t <= t
    OBVIOUS
  <2> QED BY <1>4, <1>5, <1>6, <1>8, <1>9, <2>1 DEF HolderOK
<1> QED BY <1>2, <1>3, <1>10 DEF h, j, D

(* q is p with the holder of key k replaced by j.                          *)
Puts(q, p, k, j, K) ==
  /\ DOMAIN q.holders = K \cup {k}
  /\ q.holders[k] = j
  /\ \A l \in K : l # k => q.holders[l] = p.holders[l]

(* The holder a chunk joins becomes the youngest in the list.              *)
LEMMA HoldOK ==
  ASSUME NEW p, NEW s \in Nat, NEW t \in Nat, s < t, ProcOK(p, s),
         NEW c, GoodChunk(c), isValidChunk(p, c), c.count > 1
  PROVE  /\ ProcOK(hold(p, c, t), t)
         /\ Puts(hold(p, c, t), p, c.key, Joined(p, c, t), DOMAIN p.holders)
<1> DEFINE q == hold(p, c, t)
           h == holderOf(p, c)
           j == Joined(p, c, t)
           L == p.holderListByAge
           H == p.holders
           W == Without(L, {c.key})
<1>1. /\ L \in Seq(Messages) /\ Range(L) = DOMAIN H /\ DOMAIN H \subseteq Messages
      /\ \A k \in DOMAIN H : HolderOK(H[k], k, s)
      /\ \A a, b \in DOMAIN L : a < b => H[L[a]].timestamp < H[L[b]].timestamp
      /\ p.holdersByAppID = [a \in Apps |-> {k \in DOMAIN H : H[k].app = a}]
  BY DEF ProcOK
<1>2. HolderOK(h, c.key, s) /\ HolderOK(j, c.key, t) /\ c.key \in Messages
  BY JoinedOK DEF GoodChunk
<1>3. j.timestamp = t /\ j.app = h.app
  BY Zenon DEF Joined
<1>4. /\ q.holders = [k \in DOMAIN H \cup {c.key} |-> IF k = c.key THEN j ELSE H[k]]
      /\ q.holdersByAppID = [p.holdersByAppID EXCEPT ![h.app] = @ \cup {c.key}]
      /\ q.holderListByAge = Append(W, c.key)
  <2> DEFINE f == [i \in DOMAIN h.chunks \cup {c.index} |->
                     IF i = c.index THEN c.body ELSE h.chunks[i]]
             held == [h EXCEPT !.chunks = f, !.received = @ + 1, !.timestamp = t]
  <2>1. h \in Holders
    BY <1>2 DEF HolderOK
  <2>2. held = j
    <3>1. j = [chunks |-> f, count |-> h.count, received |-> h.received + 1,
               app |-> h.app, timestamp |-> t]
      BY DEF Joined
    <3> HIDE DEF h, f, j
    <3> QED BY <2>1, <3>1, JoinedRecord, Zenon
  <2>3. q = [holders |-> [k \in DOMAIN H \cup {c.key} |->
                            IF k = c.key THEN held ELSE H[k]],
             holdersByAppID |-> [p.holdersByAppID EXCEPT ![h.app] = @ \cup {c.key}],
             holderListByAge |-> Append(W, c.key)]
    BY DEF hold
  <2> HIDE DEF held, j, q, h, W, H
  <2> QED BY <2>2, <2>3
<1> HIDE DEF q, h, j
<1>5. /\ DOMAIN q.holders = DOMAIN H \cup {c.key}
      /\ q.holders[c.key] = j
      /\ \A k \in DOMAIN H : k # c.key => q.holders[k] = H[k]
  BY <1>4, Zenon
<1>6. /\ W \in Seq(Messages) /\ Range(W) = DOMAIN H \ {c.key}
      /\ LeftOf(L, {c.key}, Len(L), W)
  <2> HIDE DEF L, H
  <2> QED BY <1>1, WithoutLeaves, WithoutRange, Zenon
<1>7. DOMAIN L = 1 .. Len(L)
  BY <1>1
<1> HIDE DEF L, W, H
<1>8. \A a, b \in DOMAIN W :
        a < b => \E x, y \in DOMAIN L : x < y /\ W[a] = L[x] /\ W[b] = L[y]
  <2>1. \A a, b \in DOMAIN W :
          a < b => \E x, y \in 1 .. Len(L) : x < y /\ W[a] = L[x] /\ W[b] = L[y]
    BY <1>6, Zenon DEF LeftOf
  <2> QED BY <1>7, <2>1
<1> DEFINE A == Append(W, c.key)
           n == Len(W)
<1>9. /\ A \in Seq(Messages) /\ n \in Nat
      /\ DOMAIN W = 1 .. n /\ DOMAIN A = 1 .. n + 1
      /\ A[n + 1] = c.key /\ \A a \in 1 .. n : A[a] = W[a]
  BY <1>2, <1>6
<1> HIDE DEF A, n
<1>10. \A a \in 1 .. n : W[a] \in DOMAIN H /\ W[a] # c.key
  BY <1>6, <1>9, Zenon DEF Range
<1>11. ASSUME NEW a \in DOMAIN A, NEW b \in DOMAIN A, a < b
       PROVE  q.holders[A[a]].timestamp < q.holders[A[b]].timestamp
  <2>1. a \in 1 .. n /\ (b \in 1 .. n \/ b = n + 1)
    BY <1>9, <1>11
  <2>2. /\ A[a] = W[a] /\ W[a] \in DOMAIN H /\ W[a] # c.key
        /\ q.holders[A[a]] = H[W[a]]
    BY <1>5, <1>9, <1>10, <2>1, Zenon
  <2>3. CASE b \in 1 .. n
    <3>1. PICK x \in DOMAIN L, y \in DOMAIN L : x < y /\ W[a] = L[x] /\ W[b] = L[y]
      BY <1>8, <1>9, <1>11, <2>1, <2>3
    <3>2. H[L[x]].timestamp < H[L[y]].timestamp
      BY <1>1, <3>1
    <3>3. q.holders[A[b]] = H[W[b]]
      BY <1>5, <1>9, <1>10, <2>3
    <3> QED BY <2>2, <3>1, <3>2, <3>3
  <2>4. CASE b = n + 1
    <3>1. q.holders[A[b]].timestamp = t
      BY <1>3, <1>5, <1>9, <2>4
    <3>2. H[W[a]].timestamp \in Nat /\ H[W[a]].timestamp <= s
      BY <1>1, <2>2 DEF HolderOK, Holders
    <3> QED BY <2>2, <3>1, <3>2
  <2> QED BY <2>1, <2>3, <2>4
<1>12. Range(A) = DOMAIN q.holders
  <2>1. \A a \in 1 .. n + 1 : a \in 1 .. n \/ a = n + 1
    BY <1>9
  <2>2. \A a \in 1 .. n : a \in 1 .. n + 1
    BY <1>9
  <2>3. n + 1 \in 1 .. n + 1
    BY <1>9
  <2>4. Range(A) = Range(W) \cup {c.key}
    BY <1>9, <2>1, <2>2, <2>3 DEF Range
  <2> QED BY <1>5, <1>6, <2>4
<1>13. q.holdersByAppID
         = [a \in Apps |-> {k \in DOMAIN q.holders : q.holders[k].app = a}]
  <2>1. h.app = AppOf[c.key] /\ h.app \in Apps
        /\ \A k \in DOMAIN H : H[k].app = AppOf[k]
    BY <1>1, <1>2, Zenon DEF HolderOK, Holders
  <2>2. ASSUME NEW a \in Apps
        PROVE  [p.holdersByAppID EXCEPT ![h.app] = @ \cup {c.key}][a]
                 = {k \in DOMAIN q.holders : q.holders[k].app = a}
    <3>1. p.holdersByAppID[a] = {k \in DOMAIN H : H[k].app = a}
      BY <1>1
    <3>2. [p.holdersByAppID EXCEPT ![h.app] = @ \cup {c.key}][a]
            = IF a = h.app THEN p.holdersByAppID[a] \cup {c.key}
              ELSE p.holdersByAppID[a]
      BY <1>1, Zenon
    <3> QED BY <1>3, <1>5, <2>1, <3>1, <3>2
  <2> QED BY <1>1, <1>4, <2>2, Zenon
<1>14. \A k \in DOMAIN q.holders : HolderOK(q.holders[k], k, t)
  <2>1. ASSUME NEW k, NEW g, HolderOK(g, k, s) PROVE HolderOK(g, k, t)
    <3>1. g.timestamp \in Nat /\ g.timestamp <= s
      BY <2>1 DEF HolderOK, Holders
    <3> QED BY <2>1, <3>1 DEF HolderOK
  <2> QED BY <1>1, <1>2, <1>5, <2>1, Zenon
<1>15. DOMAIN q.holders \subseteq Messages
  BY <1>1, <1>2, <1>5, Zenon
<1>16. ProcOK(q, t)
  <2>1. q.holderListByAge = A
    BY <1>4 DEF A
  <2> QED BY <1>9, <1>11, <1>12, <1>13, <1>14, <1>15, <2>1 DEF ProcOK
<1>17. Puts(q, p, c.key, j, DOMAIN p.holders)
  BY <1>5 DEF Puts, H
<1> QED BY <1>16, <1>17, Zenon DEF q, j

-----------------------------------------------------------------------------
(* One call of Reassemble.                                                 *)

(* A message comes out only if every chunk was cut from it and its         *)
(* signature verifies.                                                     *)
LEMMA UnwrapSound ==
  ASSUME NEW D, IsFiniteSet(D), NEW f, f \in [D -> Bodies],
         unwrap(f) \in Messages
  PROVE  Verify(unwrap(f)) /\ \A i \in D : f[i] = unwrap(f)
<1> DEFINE R == Range(f)
<1>1. f \in Surjection(D, R) /\ \A i \in D : f[i] \in R
  BY DEF Surjection, Range
<1>2. IsFiniteSet(R)
  BY <1>1, FS_Surjection
<1>3. unwrap(f) = IF Cardinality(R) = 1 /\ \A b \in R : Verify(b)
                    THEN CHOOSE b \in R : TRUE ELSE NoMessage
  BY DEF unwrap
<1>4. Cardinality(R) = 1 /\ (\A b \in R : Verify(b))
  BY <1>3, AppMsgProcessorSpecAssumption
<1> HIDE DEF R
<1>5. PICK x : R = {x}
  BY <1>2, <1>4, FS_Singleton, Zenon
<1>6. unwrap(f) = x
  BY <1>3, <1>4, <1>5
<1> QED BY <1>1, <1>4, <1>5, <1>6

(* The chunks of a message that verifies give the message.                 *)
LEMMA UnwrapComplete ==
  ASSUME NEW D, D # {}, NEW m, Verify(m), NEW f, f = [i \in D |-> m]
  PROVE  unwrap(f) = m
<1>1. Range(f) = {m}
  BY DEF Range
<1>2. Cardinality({m}) = 1
  BY FS_Singleton, Zenon
<1> QED BY <1>1, <1>2 DEF unwrap

(* What a valid chunk does: it is a message of its own, completes one, or  *)
(* is held; and the holders that are overdue then are expired.             *)
ReassembledForm(p, c, t, res) ==
  LET j == Joined(p, c, t)
  IN  \/ /\ c.count = 1
         /\ Keeps(res.processor, p, Live(p, t))
         /\ res.message = unwrap([i \in {0} |-> c.body])
      \/ /\ c.count > 1
         /\ j.received = j.count
         /\ Keeps(res.processor, p, Live(p, t) \ {c.key})
         /\ res.message = unwrap(j.chunks)
      \/ /\ c.count > 1
         /\ j.received # j.count
         /\ Puts(res.processor, p, c.key, j, Live(p, t))
         /\ res.message = NoMessage

(* Nothing that is overdue is left.                                        *)
NoneLate(p, t) == \A k \in DOMAIN p.holders : ~Late(p.holders[k], t)

(* Reassemble does that to a valid chunk.                                  *)
LEMMA Reassembled ==
  ASSUME NEW p, NEW s \in Nat, NEW t \in Nat, s < t, ProcOK(p, s),
         NEW c, GoodChunk(c), isValidChunk(p, c)
  PROVE  LET res == Reassemble(p, c, t)
         IN  /\ ProcOK(res.processor, t)
             /\ NoneLate(res.processor, t)
             /\ ReassembledForm(p, c, t, res)
<1> DEFINE res == Reassemble(p, c, t)
           j == Joined(p, c, t)
<1>0. ProcOK(p, t)
  <2>1. s <= t
    OBVIOUS
  <2> QED BY <2>1, LaterOK
<1>1. ASSUME NEW q, ProcOK(q, t)
      PROVE  /\ ProcOK(expireByTimestamp(q, t), t)
             /\ NoneLate(expireByTimestamp(q, t), t)
             /\ Keeps(expireByTimestamp(q, t), q, Live(q, t))
  <2>1. /\ ProcOK(expireByTimestamp(q, t), t)
        /\ Keeps(expireByTimestamp(q, t), q, Live(q, t))
    BY <1>1, ExpireOK
  <2> QED BY <2>1 DEF NoneLate, Keeps, Live
<1>2. CASE c.count = 1
  <2>1. /\ res.processor = expireByTimestamp(p, t)
        /\ res.message = unwrap([i \in {0} |-> c.body])
    BY <1>2, Zenon DEF Reassemble
  <2> HIDE DEF res
  <2>2. ReassembledForm(p, c, t, res)
    BY <1>0, <1>1, <1>2, <2>1, Zenon DEF ReassembledForm
  <2> QED BY <1>0, <1>1, <2>1, <2>2, Zenon DEF res
<1>3. CASE c.count # 1
  <2> DEFINE q == hold(p, c, t)
             e == removeHolders(q, {c.key})
  <2>0. c.count > 1
    BY <1>3 DEF isValidChunk, GoodChunk
  <2>1. /\ ProcOK(q, t)
        /\ Puts(q, p, c.key, j, DOMAIN p.holders)
        /\ j.timestamp = t
    BY <2>0, HoldOK, Zenon DEF Joined
  <2>2. q.holders[c.key] = j
    BY <2>1, Zenon DEF Puts
  <2>3. res = IF j.received = j.count
                THEN [processor |-> expireByTimestamp(e, t),
                      message |-> unwrap(j.chunks)]
                ELSE [processor |-> expireByTimestamp(q, t),
                      message |-> NoMessage]
    BY <1>3, <2>2, Zenon DEF Reassemble
  <2> HIDE DEF res, q, j
  <2>4. CASE j.received = j.count
    <3>1. ProcOK(e, t) /\ Keeps(e, q, DOMAIN q.holders \ {c.key})
      BY <2>1, RemoveOK, Zenon
    <3> HIDE DEF e
    <3>2. res.processor = expireByTimestamp(e, t) /\ res.message = unwrap(j.chunks)
      BY <2>3, <2>4, Zenon
    <3>3. /\ ProcOK(res.processor, t) /\ NoneLate(res.processor, t)
          /\ Keeps(res.processor, e, Live(e, t))
      BY <1>1, <3>1, <3>2, Zenon
    <3>4. Keeps(e, p, DOMAIN p.holders \ {c.key})
      BY <2>1, <3>1 DEF Keeps, Puts
    <3>5. Live(e, t) = Live(p, t) \ {c.key}
      BY <3>4 DEF Keeps, Live
    <3>6. Keeps(res.processor, p, Live(p, t) \ {c.key})
      BY <3>3, <3>4, <3>5, Zenon DEF Keeps, Live
    <3>7. ReassembledForm(p, c, t, res)
      BY <2>0, <2>4, <3>2, <3>6, Zenon DEF ReassembledForm, j
    <3> QED BY <3>3, <3>7, Zenon DEF res
  <2>5. CASE j.received # j.count
    <3>1. res.processor = expireByTimestamp(q, t) /\ res.message = NoMessage
      BY <2>3, <2>5, Zenon
    <3>2. /\ ProcOK(res.processor, t) /\ NoneLate(res.processor, t)
          /\ Keeps(res.processor, q, Live(q, t))
      BY <1>1, <2>1, <3>1
    <3>3. ~Late(j, t)
      BY <2>1, AppMsgProcessorAssumption DEF Late
    <3>4. Live(q, t) = Live(p, t) \cup {c.key}
      BY <2>1, <3>3, Zenon DEF Puts, Live
    <3>5. Puts(res.processor, p, c.key, j, Live(p, t))
      BY <2>1, <3>2, <3>4, Zenon DEF Puts, Keeps, Live
    <3>6. ReassembledForm(p, c, t, res)
      BY <2>0, <2>5, <3>1, <3>5, Zenon DEF ReassembledForm, j
    <3> QED BY <3>2, <3>6 DEF res
  <2> QED BY <2>4, <2>5
<1> QED BY <1>2, <1>3

-----------------------------------------------------------------------------
(* The processor under any sequence of calls.                              *)

ProcInv == /\ now \in Nat /\ checked \in Nat
           /\ ProcOK(processor, now)
           /\ NoneLate(processor, checked)

(* The chunks of a message are good ones.                                  *)
LEMMA SplitChunks ==
  ASSUME NEW m \in Messages, NEW c \in Split(m)
  PROVE  /\ GoodChunk(c)
         /\ c.key = m /\ c.count = CountOf[m] /\ c.index \in Indexes(m) /\ c.body = m
<1>1. CountOf[m] \in Nat \ {0}
  BY AppMsgProcessorSpecAssumption, Zenon
<1>2. PICK i \in Indexes(m) :
        c = [key |-> m, app |-> AppOf[m], count |-> CountOf[m], index |-> i, body |-> m]
  BY DEF Split
<1>3. i \in Int
  BY <1>1 DEF Indexes
<1> QED BY <1>1, <1>2, <1>3 DEF GoodChunk, Bodies

(* So are the malformed ones, except for their content.                    *)
LEMMA MalformedChunks ==
  ASSUME NEW c \in Malformed
  PROVE  GoodChunk(c) /\ c.body \notin Messages
BY AppMsgProcessorSpecAssumption DEF GoodChunk, Bodies

(* The calls of Reassemble and ExpireByAppID.                              *)
Calls(c, gap) == GoodChunk(c) /\ gap \in Gaps /\ Call(c, gap)

(* Every step is one of these calls, or none.                             *)
LEMMA StepForms ==
  ASSUME [Next]_vars
  PROVE  \/ \E m \in Messages, gap \in Gaps : \E c \in Split(m) :
              Calls(c, gap) /\ ReceiveChunk(m, c, gap)
         \/ \E c \in Malformed, gap \in Gaps :
              Calls(c, gap) /\ ReceiveMalformed(c, gap)
         \/ \E app \in Apps : OrdererStarted(app)
         \/ UNCHANGED vars
<1>1. ASSUME NEW m \in Messages, NEW gap \in Gaps, NEW c \in Split(m),
             ReceiveChunk(m, c, gap)
      PROVE  Calls(c, gap)
  BY <1>1, SplitChunks DEF ReceiveChunk, Calls
<1>2. ASSUME NEW c \in Malformed, NEW gap \in Gaps, ReceiveMalformed(c, gap)
      PROVE  Calls(c, gap)
  BY <1>2, MalformedChunks, Zenon DEF ReceiveMalformed, Calls
<1> QED BY <1>1, <1>2 DEF Next

(* What a call does to the processor.                                      *)
LEMMA CallForm ==
  ASSUME ProcInv, NEW c, NEW gap, Calls(c, gap)
  PROVE  /\ now' \in Nat /\ now < now' /\ now' = now + gap
         /\ ProcInv'
         /\ \/ /\ ~isValidChunk(processor, c)
               /\ processor' = processor
               /\ delivered' = [m \in Messages |->
                                  delivered[m] + IF NoMessage = m THEN 1 ELSE 0]
            \/ /\ isValidChunk(processor, c)
               /\ \E res : /\ ReassembledForm(processor, c, now', res)
                           /\ processor' = res.processor
                           /\ delivered' = [m \in Messages |->
                                delivered[m] + IF res.message = m THEN 1 ELSE 0]
<1> DEFINE res == Reassemble(processor, c, now + gap)
<1>0. /\ now \in Nat /\ checked \in Nat /\ gap \in Nat \ {0} /\ GoodChunk(c)
      /\ ProcOK(processor, now) /\ NoneLate(processor, checked)
  BY AppMsgProcessorSpecAssumption DEF ProcInv, Calls
<1>1. /\ now' = now + gap /\ processor' = res.processor
      /\ checked' = IF isValidChunk(processor, c) THEN now' ELSE checked
      /\ delivered' = [m \in Messages |->
                         delivered[m] + IF res.message = m THEN 1 ELSE 0]
  BY Zenon DEF Calls, Call
<1>2. now' \in Nat /\ now < now' /\ now <= now'
  BY <1>0, <1>1
<1>3. CASE ~isValidChunk(processor, c)
  <2>1. res.processor = processor /\ res.message = NoMessage
    BY <1>3, Zenon DEF Reassemble
  <2>2. processor' = processor /\ checked' = checked
    BY <1>1, <1>3, <2>1
  <2>3. ProcOK(processor', now')
    BY <1>0, <1>2, <2>2, LaterOK, Zenon
  <2>4. ProcInv'
    BY <1>0, <1>2, <2>2, <2>3, Zenon DEF ProcInv
  <2> QED BY <1>1, <1>2, <1>3, <2>1, <2>2, <2>4, Zenon
<1>4. CASE isValidChunk(processor, c)
  <2>1. res = Reassemble(processor, c, now')
    BY <1>1, Zenon
  <2> HIDE DEF res
  <2>2. /\ ProcOK(res.processor, now') /\ NoneLate(res.processor, now')
        /\ ReassembledForm(processor, c, now', res)
    BY <1>0, <1>2, <1>4, <2>1, Reassembled, Zenon
  <2>3. ProcInv'
    BY <1>1, <1>2, <1>4, <2>2, Zenon DEF ProcInv
  <2> QED BY <1>1, <1>2, <1>4, <2>2, <2>3, Zenon
<1> QED BY <1>3, <1>4

(* ExpireByAppID drops the holders of an application and no others.        *)
LEMMA ExpireAppForm ==
  ASSUME ProcInv, NEW app \in Apps, OrdererStarted(app)
  PROVE  /\ ProcInv'
         /\ Keeps(processor', processor,
                  {k \in DOMAIN processor.holders : AppOf[k] # app})
<1> DEFINE H == processor.holders
           keys == processor.holdersByAppID[app]
<1>1. /\ ProcOK(processor, now) /\ processor' = removeHolders(processor, keys)
      /\ UNCHANGED <<now, checked>>
  BY Zenon DEF ProcInv, OrdererStarted, ExpireByAppID
<1>2. keys = {k \in DOMAIN H : H[k].app = app}
  BY <1>1, Zenon DEF ProcOK
<1>3. \A k \in DOMAIN H : H[k].app = AppOf[k]
  BY <1>1 DEF ProcOK, HolderOK
<1>4. DOMAIN H \ keys = {k \in DOMAIN H : AppOf[k] # app}
  BY <1>2, <1>3
<1> HIDE DEF keys
<1>5. ProcOK(processor', now) /\ Keeps(processor', processor, DOMAIN H \ keys)
  BY <1>1, RemoveOK
<1>6. NoneLate(processor', checked)
  BY <1>5 DEF NoneLate, Keeps, ProcInv
<1>7. ProcInv'
  BY <1>1, <1>5, <1>6 DEF ProcInv
<1> QED BY <1>4, <1>5, <1>7, Zenon

(* Each call keeps the indexes in agreement.                               *)
LEMMA ProcInvariant == Spec => []ProcInv
<1>1. Init => ProcInv
  <2> SUFFICES ASSUME Init PROVE ProcInv
    OBVIOUS
  <2>1. /\ processor.holders = [k \in {} |-> {}] /\ processor.holderListByAge = <<>>
        /\ processor.holdersByAppID = [a \in Apps |-> {}]
        /\ now = 0 /\ checked = 0
    BY DEF Init, newAppMsgProcessor
  <2>2. DOMAIN processor.holders = {}
    BY <2>1
  <2>3. /\ <<>> \in Seq(Messages) /\ DOMAIN <<>> = {} /\ Range(<<>>) = {}
    BY DEF Range
  <2>4. [a \in Apps |-> {}]
          = [a \in Apps |-> {k \in DOMAIN processor.holders :
                               processor.holders[k].app = a}]
    BY <2>2
  <2>5. ProcOK(processor, now)
    BY <2>1, <2>2, <2>3, <2>4 DEF ProcOK
  <2> QED BY <2>1, <2>2, <2>5 DEF ProcInv, NoneLate
<1>2. ProcInv /\ [Next]_vars => ProcInv'
  <2> SUFFICES ASSUME ProcInv, [Next]_vars PROVE ProcInv'
    OBVIOUS
  <2>1. ASSUME NEW c, NEW gap, Calls(c, gap) PROVE ProcInv'
    BY <2>1, CallForm
  <2>2. ASSUME NEW app \in Apps, OrdererStarted(app) PROVE ProcInv'
    BY <2>2, ExpireAppForm, Zenon
  <2>3. CASE UNCHANGED vars
    BY <2>3 DEF vars, ProcInv
  <2> QED BY <2>1, <2>2, <2>3, StepForms
<1> QED BY <1>1, <1>2, PTL DEF Spec

(* The map of holders, the age list and the index by application always    *)
(* name the same holders, each once; the list is ordered by age; and after *)
(* a valid chunk none of them is overdue.                                  *)
THEOREM AppMsgIndexesAgree == Spec => []IndexesAgree
<1>1. ProcInv => IndexesAgree
  <2> SUFFICES ASSUME ProcInv PROVE IndexesAgree
    BY Zenon
  <2> DEFINE L == processor.holderListByAge
             H == processor.holders
             n == Len(L)
  <2>1. /\ L \in Seq(Messages) /\ Range(L) = DOMAIN H
        /\ \A k \in DOMAIN H : HolderOK(H[k], k, now)
        /\ \A i, j \in DOMAIN L : i < j => H[L[i]].timestamp < H[L[j]].timestamp
        /\ processor.holdersByAppID
             = [a \in Apps |-> {k \in DOMAIN H : H[k].app = a}]
        /\ \A k \in DOMAIN H : ~Late(H[k], checked)
        /\ checked \in Nat
    BY DEF ProcInv, ProcOK, NoneLate
  <2> HIDE DEF L, H
  <2>2. /\ n \in Nat /\ DOMAIN L = 1 .. n
        /\ L \in [1 .. n -> DOMAIN H]
        /\ \A i \in 1 .. n : L[i] \in DOMAIN H
        /\ \A k \in DOMAIN H : \E i \in 1 .. n : L[i] = k
    <3>1. n \in Nat /\ DOMAIN L = 1 .. n /\ L = [i \in 1 .. n |-> L[i]]
      BY <2>1
    <3>2. /\ \A i \in 1 .. n : L[i] \in DOMAIN H
          /\ \A k \in DOMAIN H : \E i \in 1 .. n : L[i] = k
      BY <2>1, <3>1, Zenon DEF Range
    <3> QED BY <3>1, <3>2
  <2>3. \A k \in DOMAIN H : H[k].timestamp \in Nat
    BY <2>1, Zenon DEF HolderOK, Holders
  <2> HIDE DEF n
  <2>4. ASSUME NEW i \in 1 .. n, NEW j \in 1 .. n, L[i] = L[j] PROVE i = j
    <3>1. i = j \/ i < j \/ j < i
      BY <2>2
    <3>2. H[L[i]].timestamp \in Nat
      BY <2>2, <2>3
    <3>3. ~(H[L[i]].timestamp < H[L[i]].timestamp)
      BY <3>2
    <3> QED BY <2>1, <2>2, <2>4, <3>1, <3>3, Zenon
  <2>5. ExistsBijection(1 .. n, DOMAIN H)
    <3>1. L \in Bijection(1 .. n, DOMAIN H)
      BY <2>2, <2>4 DEF Bijection, Injection, Surjection, IsInjective
    <3> QED BY <3>1 DEF ExistsBijection
  <2>6. n = Cardinality(DOMAIN H)
    <3>1. IsFiniteSet(1 .. n) /\ Cardinality(1 .. n) = n
      <4>1. 1 \in Int /\ n \in Int /\ (n = 0 <=> 1 > n) /\ n - 1 + 1 = n
        BY <2>2
      <4> QED BY <4>1, FS_Interval
    <3> QED BY <2>5, <3>1, FS_Bijection
  <2>7. \A a \in Apps : processor.holdersByAppID[a] = {k \in DOMAIN H : H[k].app = a}
    BY <2>1
  <2>8. \A k \in DOMAIN H : H[k].received = Cardinality(DOMAIN H[k].chunks)
    BY <2>1 DEF HolderOK
  <2>9. \A i \in DOMAIN L : checked - H[L[i]].timestamp < ReassembleTimeout
    <3>1. ASSUME NEW k \in DOMAIN H PROVE checked - H[k].timestamp < ReassembleTimeout
      BY <2>1, <2>3, AppMsgProcessorAssumption DEF Late
    <3> QED BY <2>2, <3>1, Zenon
  <2> QED BY <2>1, <2>6, <2>7, <2>8, <2>9 DEF IndexesAgree, L, H, n
<1> QED BY <1>1, ProcInvariant, PTL

=============================================================================
