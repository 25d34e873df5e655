--------------------------- MODULE DataInduction ---------------------------
(***************************************************************************)
(* Induction over data in a form the provers can use: the statements below *)
(* speak of sets and functions, never of an operator to be instantiated.   *)
(* Everything follows from the well-foundedness of < on the naturals.      *)
(***************************************************************************)
EXTENDS Integers, Sequences, FiniteSetsExt, WellFoundedInduction, TLAPS

(* A non-empty set of natural numbers has a least element.                 *)
LEMMA LeastNatural ==
  ASSUME NEW T, T \subseteq Nat, T # {}
  PROVE  \E x \in T : \A y \in T : x <= y
<1> DEFINE R == OpToRel(<, Nat)
<1>1. \E x \in T : \A y \in T : ~ (<<y, x>> \in R)
  <2>1. IsWellFoundedOn(R, Nat)
    BY NatLessThanWellFounded, Zenon
  <2> HIDE DEF R
  <2> QED BY <2>1, WFMin, Zenon
<1>2. \A x, y \in Nat : y < x => <<y, x>> \in R
  BY DEF OpToRel
<1> HIDE DEF R
<1>3. PICK x \in T : \A y \in T : ~ (<<y, x>> \in R)
  BY <1>1
<1>4. \A y \in T : ~ (y < x)
  BY <1>2, <1>3, Zenon
<1> QED BY <1>4

(* Induction: a set that holds 0 and is closed under successor holds every *)
(* natural number.                                                         *)
LEMMA NatSetInduction ==
  ASSUME NEW S, 0 \in S, \A n \in Nat : n \in S => n + 1 \in S
  PROVE  Nat \subseteq S
<1> DEFINE T == Nat \ S
<1> SUFFICES ASSUME T # {} PROVE FALSE
  OBVIOUS
<1>1. PICK x \in T : \A y \in T : x <= y
  <2>1. T \subseteq Nat
    OBVIOUS
  <2> HIDE DEF T
  <2> QED BY <2>1, LeastNatural, Zenon
<1>2. x # 0 /\ x \in Nat
  OBVIOUS
<1>3. x - 1 \in Nat /\ ~ (x <= x - 1)
  BY <1>2
<1>4. x - 1 \in S
  BY <1>1, <1>3
<1>5. (x - 1) + 1 = x
  BY <1>2
<1> QED BY <1>3, <1>4, <1>5

(* The same up to a bound: what holds at 0 and is handed on by every step  *)
(* below n holds on all of 0 .. n.                                         *)
LEMMA IntervalInduction ==
  ASSUME NEW n \in Nat, NEW S, 0 \in S,
         \A i \in 0 .. n : i + 1 \in 0 .. n /\ i \in S => i + 1 \in S
  PROVE  0 .. n \subseteq S
<1> DEFINE T == S \cup {i \in Nat : i > n}
<1>1. \A i \in Nat : i \in T => i + 1 \in T
  OBVIOUS
<1>2. 0 \in T
  OBVIOUS
<1>3. Nat \subseteq T
  <2> HIDE DEF T
  <2> QED BY <1>1, <1>2, NatSetInduction
<1> QED BY <1>3

(* Max is the greatest element of a bounded, non-empty set of naturals.    *)
LEMMA MaxOfNaturals ==
  ASSUME NEW n \in Nat, NEW S, S \subseteq 0 .. n, S # {}
  PROVE  /\ Max(S) \in S
         /\ \A y \in S : y <= Max(S)
<1> DEFINE T == {n - s : s \in S}
<1>0. \A y \in S : y \in Nat /\ y <= n
  <2> SUFFICES ASSUME NEW y \in S PROVE y \in Nat /\ y <= n
    OBVIOUS
  <2>1. y \in 0 .. n
    OBVIOUS
  <2> QED BY <2>1
<1>1. T \subseteq Nat /\ T # {}
  <2>1. \A y \in S : n - y \in Nat
    BY <1>0
  <2>2. T \subseteq Nat
    BY <2>1
  <2>3. PICK y : y \in S
    OBVIOUS
  <2>4. n - y \in T
    BY <2>3
  <2> QED BY <2>2, <2>4
<1>2. PICK x \in T : \A y \in T : x <= y
  <2> HIDE DEF T
  <2> QED BY <1>1, LeastNatural, Zenon
<1>3. PICK m \in S : x = n - m
  OBVIOUS
<1>4. \A y \in S : m >= y
  <2> SUFFICES ASSUME NEW y \in S PROVE m >= y
    OBVIOUS
  <2>1. n - m <= n - y
    BY <1>2, <1>3, Zenon
  <2>2. m \in Nat /\ y \in Nat
    BY <1>0
  <2> QED BY <2>1, <2>2
<1>5. Max(S) \in S /\ \A y \in S : Max(S) >= y
  <2> DEFINE greatest(z) == z \in S /\ \A y \in S : z >= y
  <2>1. greatest(m)
    BY <1>4
  <2>2. Max(S) = CHOOSE z : greatest(z)
    BY DEF Max
  <2>3. greatest(CHOOSE z : greatest(z))
    <3> HIDE DEF greatest
    <3> QED BY <2>1, Zenon
  <2> QED BY <2>2, <2>3
<1>6. Max(S) \in Nat /\ \A y \in S : y \in Nat
  BY <1>0, <1>5, Zenon
<1> QED BY <1>5, <1>6

(* The functions on 0 .. n defined by their value at 0 and by a step.      *)
PrefixRecursions(n, V, base, step) ==
  {f \in [0 .. n -> V] :
     /\ f[0] = base
     /\ \A i \in 1 .. n : f[i] = step[<<i, f[i - 1]>>]}

(* There is one for every base and every step.                             *)
LEMMA PrefixRecursionExists ==
  ASSUME NEW n \in Nat, NEW V, NEW base \in V,
         NEW step \in [(1 .. n) \X V -> V]
  PROVE  PrefixRecursions(n, V, base, step) # {}
<1> DEFINE Good(m, f) == /\ f \in [0 .. m -> V]
                         /\ f[0] = base
                         /\ \A i \in 1 .. m : f[i] = step[<<i, f[i - 1]>>]
           S == {m \in 0 .. n : \E f \in [0 .. m -> V] : Good(m, f)}
<1>1. 0 \in S
  <2> DEFINE f == [i \in 0 .. 0 |-> base]
  <2>1. f \in [0 .. 0 -> V] /\ Good(0, f)
    OBVIOUS
  <2>2. 0 \in 0 .. n
    OBVIOUS
  <2> HIDE DEF Good, f
  <2> QED BY <2>1, <2>2
<1>2. ASSUME NEW m \in 0 .. n, m + 1 \in 0 .. n, m \in S
      PROVE  m + 1 \in S
  <2>1. PICK f \in [0 .. m -> V] : Good(m, f)
    BY <1>2
  <2> DEFINE v == step[<<m + 1, f[m]>>]
             g == [i \in 0 .. m + 1 |-> IF i = m + 1 THEN v ELSE f[i]]
  <2>2. v \in V
    <3>1. m + 1 \in 1 .. n /\ f[m] \in V
      BY <1>2
    <3>2. <<m + 1, f[m]>> \in (1 .. n) \X V
      BY <3>1
    <3> QED BY <3>2
  <2>3. g \in [0 .. m + 1 -> V]
    <3> HIDE DEF v
    <3> QED BY <2>2
  <2>4. g[0] = base
    BY <2>1
  <2>5. ASSUME NEW i \in 1 .. m + 1
        PROVE  g[i] = step[<<i, g[i - 1]>>]
    <3>1. CASE i = m + 1
      <4>1. g[i] = v /\ i - 1 = m /\ g[m] = f[m]
        BY <3>1
      <4> QED BY <4>1, <3>1, Zenon
    <3>2. CASE i # m + 1
      <4>1. i \in 1 .. m /\ i - 1 \in 0 .. m
        BY <3>2
      <4>2. g[i] = f[i] /\ g[i - 1] = f[i - 1]
        BY <4>1
      <4> QED BY <4>1, <4>2, <2>1
    <3> QED BY <3>1, <3>2
  <2>6. Good(m + 1, g)
    <3> HIDE DEF g
    <3> QED BY <2>3, <2>4, <2>5
  <2> HIDE DEF g, Good
  <2> QED BY <2>3, <2>6, <1>2
<1>3. n \in 0 .. n
  OBVIOUS
<1>4. 0 .. n \subseteq S
  <2> HIDE DEF S
  <2> QED BY <1>1, <1>2, IntervalInduction
<1>5. \E f \in [0 .. n -> V] : Good(n, f)
  <2> HIDE DEF Good
  <2> QED BY <1>3, <1>4
<1> QED BY <1>5 DEF PrefixRecursions

-----------------------------------------------------------------------------
(* Taking elements out of a list.                                          *)

(* w holds what is left of the first i elements of list, in their order.   *)
LeftOf(list, keys, i, w) ==
  /\ \A a \in DOMAIN w : \E c \in 1 .. i : w[a] = list[c] /\ list[c] \notin keys
  /\ \A c \in 1 .. i : list[c] \notin keys => \E a \in DOMAIN w : w[a] = list[c]
  /\ \A a, b \in DOMAIN w :
       a < b => \E c, d \in 1 .. i : c < d /\ w[a] = list[c] /\ w[b] = list[d]

(* The next element is left out.                                           *)
LEMMA LeftOut ==
  ASSUME NEW list, NEW keys, NEW i \in Nat, NEW w, LeftOf(list, keys, i, w),
         list[i + 1] \in keys
  PROVE  LeftOf(list, keys, i + 1, w)
<1>1. /\ \A c \in 1 .. i : c \in 1 .. i + 1
      /\ \A c \in 1 .. i + 1 : c \in 1 .. i \/ c = i + 1
  OBVIOUS
<1> QED BY <1>1 DEF LeftOf

(* The next element is kept.                                               *)
LEMMA LeftIn ==
  ASSUME NEW S, NEW list, NEW keys, NEW i \in Nat, NEW w \in Seq(S),
         LeftOf(list, keys, i, w), list[i + 1] \in S, list[i + 1] \notin keys
  PROVE  LeftOf(list, keys, i + 1, Append(w, list[i + 1]))
<1> DEFINE v == Append(w, list[i + 1])
           n == Len(w)
<1>1. /\ \A c \in 1 .. i : c \in 1 .. i + 1 /\ c < i + 1
      /\ \A c \in 1 .. i + 1 : c \in 1 .. i \/ c = i + 1
      /\ i + 1 \in 1 .. i + 1
  OBVIOUS
<1>2. /\ n \in Nat /\ DOMAIN w = 1 .. n /\ DOMAIN v = 1 .. n + 1
      /\ v[n + 1] = list[i + 1] /\ \A a \in 1 .. n : v[a] = w[a]
  OBVIOUS
<1>3. /\ \A a \in 1 .. n : a \in 1 .. n + 1 /\ ~(n + 1 < a)
      /\ \A a \in 1 .. n + 1 : a \in 1 .. n \/ a = n + 1
      /\ n + 1 \in 1 .. n + 1 /\ ~(n + 1 < n + 1)
  BY <1>2
<1> HIDE DEF v, n
<1>4. \A a \in DOMAIN v : \E c \in 1 .. i + 1 : v[a] = list[c] /\ list[c] \notin keys
  BY <1>1, <1>2, <1>3 DEF LeftOf
<1>5. \A c \in 1 .. i + 1 : list[c] \notin keys => \E a \in DOMAIN v : v[a] = list[c]
  <2>1. ASSUME NEW c \in 1 .. i, list[c] \notin keys
        PROVE  \E a \in DOMAIN v : v[a] = list[c]
    <3>1. PICK a \in 1 .. n : w[a] = list[c]
      BY <1>2, <2>1, Zenon DEF LeftOf
    <3> QED BY <1>2, <1>3, <3>1, Zenon
  <2>2. n + 1 \in DOMAIN v /\ v[n + 1] = list[i + 1]
    BY <1>2, <1>3, Zenon
  <2> QED BY <1>1, <2>1, <2>2, Zenon
<1>6. ASSUME NEW a \in DOMAIN v, NEW b \in DOMAIN v, a < b
      PROVE  \E c, d \in 1 .. i + 1 : c < d /\ v[a] = list[c] /\ v[b] = list[d]
  <2>1. a \in 1 .. n
    BY <1>2, <1>3, <1>6
  <2>2. CASE b \in 1 .. n
    <3>1. PICK c \in 1 .. i, d \in 1 .. i : c < d /\ w[a] = list[c] /\ w[b] = list[d]
      BY <1>2, <1>6, <2>1, <2>2 DEF LeftOf
    <3> QED BY <1>1, <1>2, <2>1, <2>2, <3>1, Zenon
  <2>3. CASE b = n + 1
    <3>1. PICK c \in 1 .. i : w[a] = list[c]
      BY <1>2, <2>1 DEF LeftOf
    <3> QED BY <1>1, <1>2, <2>1, <2>3, <3>1, Zenon
  <2> QED BY <1>2, <1>3, <2>2, <2>3
<1>7. LeftOf(list, keys, i + 1, v)
  BY <1>4, <1>5, <1>6 DEF LeftOf
<1> QED BY <1>7 DEF v

(* The function on 0 .. n, for a list of n elements, whose value at i is   *)
(* what is left of the first i elements when those in keys are taken out.  *)
LEMMA KeptElements ==
  ASSUME NEW S, NEW list \in Seq(S), NEW keys, NEW kept,
         kept = CHOOSE f : f = [i \in 0 .. Len(list) |->
                                  IF i = 0 THEN <<>>
                                  ELSE IF list[i] \in keys THEN f[i - 1]
                                  ELSE Append(f[i - 1], list[i])]
  PROVE  /\ kept[Len(list)] \in Seq(S)
         /\ LeftOf(list, keys, Len(list), kept[Len(list)])
<1> DEFINE n == Len(list)
           V == Seq(S)
           More(v, i) == IF list[i] \in keys THEN v ELSE Append(v, list[i])
           Kept(s) == [i \in 0 .. n |-> IF i = 0 THEN <<>> ELSE More(s[i - 1], i)]
           step == [iv \in (1 .. n) \X V |->
                      IF list[iv[1]] \in keys THEN iv[2]
                      ELSE Append(iv[2], list[iv[1]])]
<1>0. n \in Nat /\ \A i \in 1 .. n : list[i] \in S
  OBVIOUS
<1>1. step \in [(1 .. n) \X V -> V] /\ <<>> \in V
  <2>1. \A i \in 1 .. n : \A v \in V : Append(v, list[i]) \in V
    BY <1>0
  <2> HIDE DEF n, V
  <2>2. ASSUME NEW iv \in (1 .. n) \X V
        PROVE  (IF list[iv[1]] \in keys THEN iv[2]
                ELSE Append(iv[2], list[iv[1]])) \in V
    <3>1. iv[1] \in 1 .. n /\ iv[2] \in V
      OBVIOUS
    <3> QED BY <2>1, <3>1
  <2>3. <<>> \in V
    BY DEF V
  <2> QED BY <2>2, <2>3
<1>2. PICK f \in [0 .. n -> V] :
             /\ f[0] = <<>>
             /\ \A i \in 1 .. n : f[i] = step[<<i, f[i - 1]>>]
  <2> HIDE DEF n, V, step
  <2>1. PrefixRecursions(n, V, <<>>, step) # {}
    BY <1>0, <1>1, PrefixRecursionExists, Zenon
  <2> QED BY <2>1 DEF PrefixRecursions
<1>3. \A i \in 1 .. n : f[i] = IF list[i] \in keys THEN f[i - 1]
                               ELSE Append(f[i - 1], list[i])
  <2> SUFFICES ASSUME NEW i \in 1 .. n
               PROVE  f[i] = IF list[i] \in keys THEN f[i - 1]
                             ELSE Append(f[i - 1], list[i])
    OBVIOUS
  <2>1. <<i, f[i - 1]>> \in (1 .. n) \X V
    <3> HIDE DEF n, V
    <3> QED BY <1>0
  <2> HIDE DEF n, V
  <2> QED BY <1>2, <2>1, Zenon
<1>4. f = Kept(f)
  <2>1. \A i \in 1 .. n : f[i] = More(f[i - 1], i)
    BY <1>3
  <2> HIDE DEF n, V, step, More
  <2>2. \A i \in 0 .. n : f[i] = IF i = 0 THEN <<>> ELSE More(f[i - 1], i)
    <3>1. \A i \in 0 .. n : i = 0 \/ i \in 1 .. n
      BY <1>0
    <3>2. \A i \in 1 .. n : i # 0
      BY <1>0
    <3> QED BY <1>2, <2>1, <3>1, <3>2
  <2> QED BY <2>2
<1>5. kept = CHOOSE s : s = Kept(s)
  OBVIOUS
<1> DEFINE g == CHOOSE s : s = Kept(s)
<1>6. g = Kept(g)
  <2> HIDE DEF Kept
  <2> QED BY <1>4, Zenon
<1> HIDE DEF g
<1>7. /\ g[0] = <<>>
      /\ \A i \in 1 .. n : g[i] = IF list[i] \in keys THEN g[i - 1]
                                  ELSE Append(g[i - 1], list[i])
  <2>1. /\ g[0] = <<>>
        /\ \A i \in 1 .. n : g[i] = More(g[i - 1], i)
    <3> HIDE DEF n, V, step, More
    <3>1. 0 \in 0 .. n /\ \A i \in 1 .. n : i \in 0 .. n /\ i # 0
      BY <1>0
    <3>2. \A i \in 0 .. n : g[i] = IF i = 0 THEN <<>> ELSE More(g[i - 1], i)
      BY <1>6, Zenon
    <3> QED BY <3>1, <3>2
  <2> QED BY <2>1
<1> HIDE DEF Kept, step, V, More
<1> DEFINE T == {i \in 0 .. n : g[i] \in V /\ LeftOf(list, keys, i, g[i])}
<1>8. 0 \in T
  <2>1. <<>> \in V /\ DOMAIN <<>> = {} /\ 1 .. 0 = {}
    BY <1>1
  <2>2. LeftOf(list, keys, 0, <<>>)
    BY <2>1 DEF LeftOf
  <2> QED BY <1>0, <1>7, <2>1, <2>2
<1>9. ASSUME NEW i \in 0 .. n, i + 1 \in 0 .. n, i \in T
      PROVE  i + 1 \in T
  <2>1. i + 1 \in 1 .. n /\ (i + 1) - 1 = i /\ i \in Nat
    BY <1>0, <1>9
  <2>2. g[i] \in Seq(S) /\ LeftOf(list, keys, i, g[i]) /\ list[i + 1] \in S
    BY <1>0, <1>9, <2>1 DEF V
  <2>3. CASE list[i + 1] \in keys
    <3>1. g[i + 1] = g[i]
      BY <1>7, <2>1, <2>3
    <3> QED BY <1>9, <2>1, <2>2, <2>3, <3>1, LeftOut DEF V
  <2>4. CASE list[i + 1] \notin keys
    <3>1. g[i + 1] = Append(g[i], list[i + 1])
      BY <1>7, <2>1, <2>4, Zenon
    <3>2. LeftOf(list, keys, i + 1, Append(g[i], list[i + 1]))
      BY <2>1, <2>2, <2>4, LeftIn
    <3>3. Append(g[i], list[i + 1]) \in Seq(S)
      BY <2>2
    <3> QED BY <1>9, <3>1, <3>2, <3>3, Zenon DEF V
  <2> QED BY <2>3, <2>4
<1>10. n \in T
  <2>1. 0 .. n \subseteq T
    <3> HIDE DEF T
    <3> QED BY <1>0, <1>8, <1>9, IntervalInduction, Zenon
  <2> QED BY <1>0, <2>1
<1> QED BY <1>5, <1>10, Zenon DEF g, V
=============================================================================
