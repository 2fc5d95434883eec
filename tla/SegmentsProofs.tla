--------------------------- MODULE SegmentsProofs ---------------------------
(***************************************************************************)
(* Proofs about Segments for any number of threads and records, segments of *)
(* any size, any pool and both policies.                                    *)
(***************************************************************************)
EXTENDS Segments, Lemmas, SequenceTheorems, TLAPS

-----------------------------------------------------------------------------
(* Sequences without repetition.                                            *)

Distinct(s) == \A i, j \in 1 .. Len(s) : s[i] = s[j] => i = j

\* The elements of a sequence.
LEMMA ToSetElements ==
  ASSUME NEW S, NEW s \in Seq(S)
  PROVE  /\ ToSet(s) \subseteq S /\ Len(s) \in Nat
         /\ \A x : x \in ToSet(s) <=> \E i \in 1 .. Len(s) : s[i] = x
         /\ \A i \in 1 .. Len(s) : s[i] \in ToSet(s)
         /\ \A x : Contains(s, x) <=> x \in ToSet(s)
         /\ ToSet(s) = {} <=> s = <<>>
<1>1. DOMAIN s = 1 .. Len(s) /\ Len(s) \in Nat /\ \A i \in 1 .. Len(s) : s[i] \in S
  OBVIOUS
<1>2. \A x : x \in ToSet(s) <=> \E i \in 1 .. Len(s) : s[i] = x
  BY <1>1 DEF ToSet
<1>3. ToSet(s) = {} <=> s = <<>>
  <2>1. s = <<>> <=> Len(s) = 0
    OBVIOUS
  <2>2. Len(s) = 0 => ToSet(s) = {}
    BY <1>2
  <2>3. Len(s) # 0 => 1 \in 1 .. Len(s)
    BY <1>1
  <2> QED BY <1>2, <2>1, <2>2, <2>3
<1> QED BY <1>1, <1>2, <1>3 DEF Contains

\* One more element.
LEMMA AppendDistinct ==
  ASSUME NEW S, NEW s \in Seq(S), NEW x \in S
  PROVE  /\ Append(s, x) \in Seq(S)
         /\ ToSet(Append(s, x)) = ToSet(s) \cup {x}
         /\ Distinct(s) /\ x \notin ToSet(s) => Distinct(Append(s, x))
<1> DEFINE t == Append(s, x)
<1>1. /\ t \in Seq(S) /\ Len(t) = Len(s) + 1 /\ Len(s) \in Nat
      /\ \A i \in 1 .. Len(s) : t[i] = s[i]
      /\ t[Len(s) + 1] = x
  BY AppendProperties
<1> HIDE DEF t
<1>2. /\ \A y : y \in ToSet(s) <=> \E i \in 1 .. Len(s) : s[i] = y
      /\ \A y : y \in ToSet(t) <=> \E i \in 1 .. Len(t) : t[i] = y
  BY <1>1, ToSetElements
<1>3. \A i \in 1 .. Len(t) : i \in 1 .. Len(s) \/ i = Len(s) + 1
  BY <1>1
<1>4. Len(s) + 1 \in 1 .. Len(t) /\ \A i \in 1 .. Len(s) : i \in 1 .. Len(t)
  BY <1>1
<1>5. ToSet(t) = ToSet(s) \cup {x}
  BY <1>1, <1>2, <1>3, <1>4
<1>6. ASSUME Distinct(s), x \notin ToSet(s), NEW i \in 1 .. Len(t), NEW j \in 1 .. Len(t),
             t[i] = t[j]
      PROVE  i = j
  BY <1>1, <1>2, <1>3, <1>6 DEF Distinct
<1> QED BY <1>1, <1>5, <1>6 DEF Distinct, t

\* A sequence without its last element.
LEMMA FrontShape ==
  ASSUME NEW S, NEW s \in Seq(S), s # <<>>
  PROVE  /\ Front(s) \in Seq(S) /\ Len(Front(s)) = Len(s) - 1
         /\ \A i \in 1 .. Len(s) - 1 : Front(s)[i] = s[i]
<1> DEFINE t == Front(s)
           n == Len(s)
<1>1. n \in Nat /\ n >= 1
  OBVIOUS
<1>2. \A i \in 1 .. n - 1 : s[i] \in S
  BY <1>1
<1> HIDE DEF n, t
<1>3. n - 1 \in Int /\ (n - 1) - 1 + 1 = n - 1 /\ (1 <= n - 1 \/ n - 1 = 0)
  BY <1>1
<1>4. \A i \in 1 .. n - 1 : 1 + i - 1 = i
  BY <1>1
<1>5. /\ t \in Seq(S) /\ Len(t) = IF 1 <= n - 1 THEN (n - 1) - 1 + 1 ELSE 0
      /\ \A i \in 1 .. (n - 1) - 1 + 1 : t[i] = s[1 + i - 1]
  BY <1>2, <1>3, SubSeqProperties DEF Front, n, t
<1>6. t \in Seq(S) /\ Len(t) = n - 1 /\ \A i \in 1 .. n - 1 : t[i] = s[i]
  BY <1>3, <1>4, <1>5
<1> QED BY <1>6 DEF t, n

\* The last element, and the others.
LEMMA FrontDistinct ==
  ASSUME NEW S, NEW s \in Seq(S), s # <<>>, Distinct(s)
  PROVE  /\ Last(s) \in ToSet(s) /\ Last(s) \in S
         /\ Front(s) \in Seq(S) /\ Distinct(Front(s))
         /\ ToSet(Front(s)) = ToSet(s) \ {Last(s)}
<1> DEFINE t == Front(s)
           n == Len(s)
<1>1. n \in Nat /\ n >= 1
  OBVIOUS
<1>2. t \in Seq(S) /\ Len(t) = n - 1 /\ \A i \in 1 .. n - 1 : t[i] = s[i]
  BY FrontShape
<1>3. Last(s) = s[n] /\ n \in 1 .. n
  BY <1>1 DEF Last
<1> HIDE DEF t, n
<1>4. /\ \A y : y \in ToSet(s) <=> \E i \in 1 .. n : s[i] = y
      /\ \A y : y \in ToSet(t) <=> \E i \in 1 .. n - 1 : t[i] = y
      /\ ToSet(s) \subseteq S
  BY <1>2, ToSetElements DEF n
<1>5. \A i \in 1 .. n : i \in 1 .. n - 1 \/ i = n
  BY <1>1
<1>6. \A i \in 1 .. n - 1 : i \in 1 .. n /\ i # n
  BY <1>1
<1>7. \A i, j \in 1 .. n : s[i] = s[j] => i = j
  BY DEF Distinct, n
<1>8. ToSet(t) = ToSet(s) \ {Last(s)}
  BY <1>2, <1>3, <1>4, <1>5, <1>6, <1>7
<1>9. Distinct(t)
  BY <1>2, <1>6, <1>7 DEF Distinct
<1> QED BY <1>2, <1>3, <1>4, <1>8, <1>9 DEF t

\* The first element, and the others.
LEMMA TailDistinct ==
  ASSUME NEW S, NEW s \in Seq(S), s # <<>>, Distinct(s)
  PROVE  /\ Head(s) \in ToSet(s) /\ Head(s) \in S
         /\ Tail(s) \in Seq(S) /\ Distinct(Tail(s))
         /\ ToSet(Tail(s)) = ToSet(s) \ {Head(s)}
<1> DEFINE t == Tail(s)
           n == Len(s)
<1>1. n \in Nat /\ n >= 1
  OBVIOUS
<1>2. t \in Seq(S) /\ Len(t) = n - 1 /\ \A i \in 1 .. n - 1 : t[i] = s[i + 1]
  BY <1>1, HeadTailProperties
<1>3. Head(s) = s[1] /\ 1 \in 1 .. n
  BY <1>1
<1> HIDE DEF t, n
<1>4. /\ \A y : y \in ToSet(s) <=> \E i \in 1 .. n : s[i] = y
      /\ \A y : y \in ToSet(t) <=> \E i \in 1 .. n - 1 : t[i] = y
      /\ ToSet(s) \subseteq S
  BY <1>2, ToSetElements DEF n
<1>5. \A i \in 1 .. n : i = 1 \/ (i - 1 \in 1 .. n - 1 /\ (i - 1) + 1 = i)
  BY <1>1
<1>6. \A i \in 1 .. n - 1 : i + 1 \in 1 .. n /\ i + 1 # 1
  BY <1>1
<1>7. \A i, j \in 1 .. n : s[i] = s[j] => i = j
  BY DEF Distinct, n
<1>8. ToSet(t) = ToSet(s) \ {Head(s)}
  <2>1. ASSUME NEW y \in ToSet(t) PROVE y \in ToSet(s) \ {Head(s)}
    <3>1. PICK i \in 1 .. n - 1 : y = s[i + 1]
      BY <1>2, <1>4
    <3> QED BY <1>3, <1>4, <1>6, <1>7, <3>1
  <2>2. ASSUME NEW y \in ToSet(s), y # Head(s) PROVE y \in ToSet(t)
    <3>1. PICK i \in 1 .. n : y = s[i]
      BY <1>4
    <3>2. i - 1 \in 1 .. n - 1 /\ t[i - 1] = y
      BY <1>2, <1>3, <1>5, <2>2, <3>1
    <3> QED BY <1>4, <3>2
  <2> QED BY <2>1, <2>2
<1>9. ASSUME NEW i \in 1 .. n - 1, NEW j \in 1 .. n - 1, t[i] = t[j] PROVE i = j
  <2>1. s[i + 1] = s[j + 1] /\ i + 1 \in 1 .. n /\ j + 1 \in 1 .. n
    BY <1>2, <1>6, <1>9
  <2>2. i + 1 = j + 1
    BY <1>7, <2>1
  <2> QED BY <2>2
<1>10. Distinct(t)
  BY <1>2, <1>9 DEF Distinct
<1> QED BY <1>2, <1>3, <1>4, <1>8, <1>10 DEF t

\* One sequence after another.
LEMMA ConcatDistinct ==
  ASSUME NEW S, NEW s \in Seq(S), NEW t \in Seq(S)
  PROVE  /\ s \o t \in Seq(S)
         /\ ToSet(s \o t) = ToSet(s) \cup ToSet(t)
         /\ Distinct(s) /\ Distinct(t) /\ ToSet(s) \cap ToSet(t) = {} => Distinct(s \o t)
<1> DEFINE u == s \o t
           m == Len(s)
           n == Len(t)
<1>1. m \in Nat /\ n \in Nat
  OBVIOUS
<1>2. /\ u \in Seq(S) /\ Len(u) = m + n
      /\ \A i \in 1 .. m + n : u[i] = IF i <= m THEN s[i] ELSE t[i - m]
  BY ConcatProperties
<1>3. /\ \A y : y \in ToSet(s) <=> \E i \in 1 .. m : s[i] = y
      /\ \A y : y \in ToSet(t) <=> \E i \in 1 .. n : t[i] = y
      /\ \A y : y \in ToSet(u) <=> \E i \in 1 .. m + n : u[i] = y
  BY <1>2, ToSetElements
<1> HIDE DEF u, m, n
<1>4. \A i \in 1 .. m + n : \/ i \in 1 .. m /\ u[i] = s[i]
                            \/ i - m \in 1 .. n /\ u[i] = t[i - m] /\ i > m
  BY <1>1, <1>2
<1>5. \A i \in 1 .. m : i \in 1 .. m + n /\ u[i] = s[i]
  BY <1>1, <1>2
<1>6. \A i \in 1 .. n : m + i \in 1 .. m + n /\ u[m + i] = t[i]
  <2> TAKE i \in 1 .. n
  <2>1. m + i \in 1 .. m + n /\ ~(m + i <= m) /\ (m + i) - m = i
    BY <1>1
  <2> QED BY <1>2, <2>1
<1>7. ToSet(u) = ToSet(s) \cup ToSet(t)
  <2>1. ToSet(u) \subseteq ToSet(s) \cup ToSet(t)
    BY <1>3, <1>4
  <2>2. ToSet(s) \subseteq ToSet(u) /\ ToSet(t) \subseteq ToSet(u)
    BY <1>3, <1>5, <1>6
  <2> QED BY <2>1, <2>2
<1>8. ASSUME Distinct(s), Distinct(t), ToSet(s) \cap ToSet(t) = {},
             NEW i \in 1 .. m + n, NEW j \in 1 .. m + n, u[i] = u[j]
      PROVE  i = j
  <2>1. /\ \A a, b \in 1 .. m : s[a] = s[b] => a = b
        /\ \A a, b \in 1 .. n : t[a] = t[b] => a = b
    BY <1>8 DEF Distinct, m, n
  <2>2. \A a \in 1 .. m, b \in 1 .. n : s[a] # t[b]
    BY <1>3, <1>8
  <2>3. CASE i \in 1 .. m /\ u[i] = s[i]
    BY <1>4, <1>8, <2>1, <2>2, <2>3
  <2>4. CASE i - m \in 1 .. n /\ u[i] = t[i - m] /\ i > m
    <3>1. j - m \in 1 .. n /\ u[j] = t[j - m]
      BY <1>4, <1>8, <2>2, <2>4
    <3>2. i - m = j - m
      BY <1>8, <2>1, <2>4, <3>1
    <3> QED BY <1>1, <3>2
  <2> QED BY <1>4, <2>3, <2>4
<1> QED BY <1>2, <1>7, <1>8 DEF Distinct, u

\* Filtering keeps the elements of K, once each if they occur once.
LEMMA FilterDistinct ==
  ASSUME NEW S, NEW s \in Seq(S), NEW K
  PROVE  /\ Filter(s, K) \in Seq(S)
         /\ ToSet(Filter(s, K)) = ToSet(s) \cap K
         /\ Distinct(s) => Distinct(Filter(s, K))
<1> DEFINE n == Len(s)
           Next1(i, v) == IF s[i] \in K THEN Append(v, s[i]) ELSE v
           step == [p \in (1 .. n) \X Seq(S) |-> Next1(p[1], p[2])]
<1>1. n \in Nat /\ \A i \in 1 .. n : s[i] \in S
  OBVIOUS
<1>2. <<>> \in Seq(S) /\ \A i \in 1 .. n, v \in Seq(S) : step[<<i, v>>] \in Seq(S)
  BY <1>1
<1>3. \A i \in 1 .. n, v \in Seq(S) : step[<<i, v>>] = Next1(i, v)
  OBVIOUS
<1> HIDE DEF step, n
<1>4. PICK f \in [0 .. n -> Seq(S)] :
        f[0] = <<>> /\ \A i \in 1 .. n : f[i] = step[<<i, f[i - 1]>>]
  <2> DEFINE V == Seq(S)
             base == <<>>
  <2>1. base \in V /\ \A i \in 1 .. n, v \in V : step[<<i, v>>] \in V
    BY <1>2
  <2> HIDE DEF V, base
  <2>2. \E g : Recursive(g, n, V, base, step)
    BY <1>1, <2>1, Recursion
  <2> QED BY <2>2 DEF V, base, Recursive
<1>5. \A i \in 1 .. n : i - 1 \in 0 .. n /\ f[i] = Next1(i, f[i - 1])
  <2> TAKE i \in 1 .. n
  <2>1. i - 1 \in 0 .. n
    BY <1>1
  <2>2. f[i - 1] \in Seq(S)
    BY <2>1
  <2>3. f[i] = step[<<i, f[i - 1]>>]
    BY <1>4
  <2> QED BY <1>3, <2>1, <2>2, <2>3
<1>6. f = [i \in 0 .. n |-> IF i = 0 THEN <<>>
                           ELSE IF s[i] \in K THEN Append(f[i - 1], s[i]) ELSE f[i - 1]]
  <2>1. \A i \in 0 .. n : i = 0 \/ i \in 1 .. n
    BY <1>1
  <2> QED BY <1>4, <1>5, <2>1
<1>7. PICK h : /\ h = [i \in 0 .. n |-> IF i = 0 THEN <<>>
                         ELSE IF s[i] \in K THEN Append(h[i - 1], s[i]) ELSE h[i - 1]]
               /\ Filter(s, K) = h[n]
  BY <1>6 DEF Filter, n
<1>8. h[0] = <<>> /\ \A i \in 1 .. n : i - 1 \in 0 .. n /\ h[i] = Next1(i, h[i - 1])
  <2>1. 0 \in 0 .. n /\ \A i \in 1 .. n : i \in 0 .. n /\ i - 1 \in 0 .. n /\ i # 0
    BY <1>1
  <2> QED BY <1>7, <2>1
<1> DEFINE Good(i) == /\ h[i] \in Seq(S)
                      /\ ToSet(h[i]) = {s[j] : j \in 1 .. i} \cap K
                      /\ Distinct(s) => Distinct(h[i])
           T == {i \in 0 .. n : Good(i)}
<1>9. 0 \in T
  <2>1. ToSet(<<>>) = {} /\ Distinct(<<>>)
    BY DEF ToSet, Distinct
  <2>2. {s[j] : j \in 1 .. 0} = {}
    OBVIOUS
  <2>3. Good(0)
    BY <1>2, <1>8, <2>1, <2>2
  <2> QED BY <1>1, <2>3
<1>10. ASSUME NEW m \in T, m < n PROVE m + 1 \in T
  <2>0. m + 1 \in 1 .. n /\ m + 1 \in 0 .. n /\ (m + 1) - 1 = m /\ m \in Nat
    BY <1>1, <1>10
  <2>1. h[m + 1] = Next1(m + 1, h[m]) /\ Good(m)
    BY <1>8, <2>0
  <2>2. {s[j] : j \in 1 .. m + 1} = {s[j] : j \in 1 .. m} \cup {s[m + 1]}
    <3>1. 1 .. m + 1 = (1 .. m) \cup {m + 1}
      BY <2>0
    <3> QED BY <3>1
  <2>3. CASE s[m + 1] \in K
    <3>1. h[m + 1] = Append(h[m], s[m + 1]) /\ s[m + 1] \in S
      BY <1>1, <2>0, <2>1, <2>3
    <3>2. /\ h[m + 1] \in Seq(S) /\ ToSet(h[m + 1]) = ToSet(h[m]) \cup {s[m + 1]}
          /\ Distinct(h[m]) /\ s[m + 1] \notin ToSet(h[m]) => Distinct(h[m + 1])
      <4> DEFINE v == h[m]
                 x == s[m + 1]
      <4>1. v \in Seq(S) /\ x \in S /\ h[m + 1] = Append(v, x)
        BY <2>1, <3>1
      <4> HIDE DEF v, x
      <4>2. /\ h[m + 1] \in Seq(S) /\ ToSet(h[m + 1]) = ToSet(v) \cup {x}
            /\ Distinct(v) /\ x \notin ToSet(v) => Distinct(h[m + 1])
        BY <4>1, AppendDistinct
      <4> QED BY <4>2 DEF v, x
    <3>3. Distinct(s) => s[m + 1] \notin {s[j] : j \in 1 .. m}
      BY <1>1, <2>0 DEF Distinct, n
    <3> QED BY <2>0, <2>1, <2>2, <2>3, <3>2, <3>3
  <2>4. CASE s[m + 1] \notin K
    BY <2>0, <2>1, <2>2, <2>4
  <2> QED BY <2>3, <2>4
<1>11. T = 0 .. n
  <2> HIDE DEF T
  <2>1. T \in SUBSET (0 .. n)
    BY DEF T
  <2> QED BY <1>1, <1>9, <1>10, <2>1, Induction
<1>12. Good(n)
  <2>1. n \in 0 .. n
    BY <1>1
  <2>2. n \in T
    BY <1>11, <2>1, Zenon
  <2> QED BY <2>2
<1>13. {s[j] : j \in 1 .. n} = ToSet(s)
  BY <1>1, ToSetElements DEF n
<1> QED BY <1>7, <1>12, <1>13
-----------------------------------------------------------------------------
(* The drain's list: its rings without repetition.                          *)

Entries == [ring : Rings, serial : Nat]

\* The rings of a list of entries.
LEMMA RingsOfEntries ==
  ASSUME NEW s \in Seq(Entries)
  PROVE  /\ LocalRings(s) \in Seq(Rings) /\ Len(LocalRings(s)) = Len(s) /\ Len(s) \in Nat
         /\ \A i \in 1 .. Len(s) : s[i].ring \in Rings /\ LocalRings(s)[i] = s[i].ring
         /\ \A r : r \in ToSet(LocalRings(s)) <=> \E i \in 1 .. Len(s) : s[i].ring = r
<1> DEFINE n == Len(s)
           q == LocalRings(s)
<1>1. n \in Nat /\ DOMAIN s = 1 .. n /\ \A i \in 1 .. n : s[i] \in Entries
  OBVIOUS
<1>2. \A i \in 1 .. n : s[i].ring \in Rings
  BY <1>1 DEF Entries
<1>3. q = [i \in 1 .. n |-> s[i].ring]
  BY <1>1 DEF LocalRings
<1> HIDE DEF n, q
<1>4. q \in Seq(Rings) /\ Len(q) = n /\ \A i \in 1 .. n : q[i] = s[i].ring
  <2>1. q \in [1 .. n -> Rings]
    BY <1>2, <1>3
  <2>2. q \in Seq(Rings) /\ DOMAIN q = 1 .. n
    BY <1>1, <2>1, IsASeq
  <2>3. Len(q) = n
    BY <1>1, <2>2, LenProperties
  <2> QED BY <1>3, <2>2, <2>3
<1>5. \A r : r \in ToSet(q) <=> \E i \in 1 .. n : q[i] = r
  BY <1>4, ToSetElements
<1> QED BY <1>1, <1>2, <1>4, <1>5 DEF n, q

\* Vec::swap_remove(k).
LEMMA SwapRemoveDistinct ==
  ASSUME NEW s \in Seq(Entries), NEW k \in 1 .. Len(s), Distinct(LocalRings(s))
  PROVE  /\ SwapRemove(s, k) \in Seq(Entries)
         /\ Len(SwapRemove(s, k)) = Len(s) - 1
         /\ Distinct(LocalRings(SwapRemove(s, k)))
         /\ ToSet(LocalRings(SwapRemove(s, k))) = ToSet(LocalRings(s)) \ {s[k].ring}
<1> DEFINE n == Len(s)
           v == IF k = n THEN s ELSE [s EXCEPT ![k] = s[n]]
           u == SwapRemove(s, k)
<1>1. n \in Nat /\ n >= 1 /\ k \in 1 .. n /\ n \in 1 .. n /\ DOMAIN s = 1 .. n
  OBVIOUS
<1>2. \A i \in 1 .. n : s[i] \in Entries
  OBVIOUS
<1>3. /\ v \in Seq(Entries) /\ Len(v) = n
      /\ \A i \in 1 .. n - 1 : v[i] = IF i = k THEN s[n] ELSE s[i]
  <2>1. CASE k = n
    BY <1>1, <2>1
  <2>2. CASE k # n
    <3>1. [s EXCEPT ![k] = s[n]] \in Seq(Entries) /\ Len([s EXCEPT ![k] = s[n]]) = n
      BY <1>1, <1>2, ExceptSeq
    <3>2. \A i \in 1 .. n - 1 : [s EXCEPT ![k] = s[n]][i] = IF i = k THEN s[n] ELSE s[i]
      BY <1>1
    <3> QED BY <2>2, <3>1, <3>2
  <2> QED BY <2>1, <2>2
<1>4. u = Front(v)
  BY DEF SwapRemove, Last
<1> HIDE DEF v, u
<1>5. /\ u \in Seq(Entries) /\ Len(u) = n - 1
      /\ \A i \in 1 .. n - 1 : u[i] = IF i = k THEN s[n] ELSE s[i]
  <2>1. v # <<>>
    BY <1>1, <1>3
  <2> QED BY <1>3, <1>4, <2>1, FrontShape
<1>6. /\ Len(LocalRings(s)) = n /\ \A i \in 1 .. n : LocalRings(s)[i] = s[i].ring
      /\ \A r : r \in ToSet(LocalRings(s)) <=> \E i \in 1 .. n : s[i].ring = r
  BY RingsOfEntries
<1>7. /\ Len(LocalRings(u)) = n - 1 /\ \A i \in 1 .. n - 1 : LocalRings(u)[i] = u[i].ring
      /\ \A r : r \in ToSet(LocalRings(u)) <=> \E i \in 1 .. n - 1 : u[i].ring = r
  BY <1>5, RingsOfEntries
<1> HIDE DEF n
<1>8. \A i, j \in 1 .. n : s[i].ring = s[j].ring => i = j
  BY <1>6 DEF Distinct
<1>9. \A i \in 1 .. n - 1 : /\ i \in 1 .. n /\ i # n
                            /\ u[i] = IF i = k THEN s[n] ELSE s[i]
  BY <1>1, <1>5
<1>10. ASSUME NEW i \in 1 .. n - 1, NEW j \in 1 .. n - 1, u[i].ring = u[j].ring
       PROVE  i = j
  BY <1>1, <1>8, <1>9, <1>10
<1>11. Distinct(LocalRings(u))
  BY <1>7, <1>10 DEF Distinct
<1>12. ToSet(LocalRings(u)) = ToSet(LocalRings(s)) \ {s[k].ring}
  <2>1. ASSUME NEW r \in ToSet(LocalRings(u))
        PROVE  r \in ToSet(LocalRings(s)) \ {s[k].ring}
    <3>1. PICK i \in 1 .. n - 1 : u[i].ring = r
      BY <1>7
    <3> QED BY <1>1, <1>6, <1>8, <1>9, <3>1
  <2>2. ASSUME NEW r \in ToSet(LocalRings(s)), r # s[k].ring
        PROVE  r \in ToSet(LocalRings(u))
    <3>1. PICK i \in 1 .. n : s[i].ring = r
      BY <1>6
    <3>2. CASE i = n
      <4>1. k \in 1 .. n - 1 /\ u[k].ring = r
        BY <1>1, <1>9, <2>2, <3>1, <3>2
      <4> QED BY <1>7, <4>1
    <3>3. CASE i # n
      <4>1. i \in 1 .. n - 1 /\ u[i].ring = r
        BY <1>1, <1>9, <2>2, <3>1, <3>3
      <4> QED BY <1>7, <4>1
    <3> QED BY <3>2, <3>3
  <2> QED BY <2>1, <2>2
<1> QED BY <1>5, <1>11, <1>12 DEF u, n

\* One more entry, and one entry less.
LEMMA AppendEntry ==
  ASSUME NEW s \in Seq(Entries), NEW e \in Entries
  PROVE  /\ Append(s, e) \in Seq(Entries)
         /\ ToSet(LocalRings(Append(s, e))) = ToSet(LocalRings(s)) \cup {e.ring}
         /\ Distinct(LocalRings(s)) /\ e.ring \notin ToSet(LocalRings(s))
              => Distinct(LocalRings(Append(s, e)))
<1> DEFINE u == Append(s, e)
           q == Append(LocalRings(s), e.ring)
<1>1. e.ring \in Rings
  BY DEF Entries
<1>2. /\ u \in Seq(Entries) /\ Len(u) = Len(s) + 1 /\ Len(s) \in Nat
      /\ \A i \in 1 .. Len(s) : u[i] = s[i]
      /\ u[Len(s) + 1] = e
  BY AppendProperties
<1>3. /\ LocalRings(s) \in Seq(Rings) /\ Len(LocalRings(s)) = Len(s)
      /\ \A i \in 1 .. Len(s) : LocalRings(s)[i] = s[i].ring
  BY RingsOfEntries
<1>4. /\ q \in Seq(Rings) /\ Len(q) = Len(s) + 1
      /\ \A i \in 1 .. Len(s) : q[i] = LocalRings(s)[i]
      /\ q[Len(s) + 1] = e.ring
  BY <1>1, <1>3, AppendProperties
<1> HIDE DEF u, q
<1>5. /\ LocalRings(u) \in Seq(Rings) /\ Len(LocalRings(u)) = Len(s) + 1
      /\ \A i \in 1 .. Len(s) + 1 : LocalRings(u)[i] = u[i].ring
  BY <1>2, RingsOfEntries
<1>6. \A i \in 1 .. Len(s) + 1 : LocalRings(u)[i] = q[i]
  <2> TAKE i \in 1 .. Len(s) + 1
  <2>1. i \in 1 .. Len(s) \/ i = Len(s) + 1
    BY <1>2
  <2> QED BY <1>2, <1>3, <1>4, <1>5, <2>1
<1>7. LocalRings(u) = q
  BY <1>4, <1>5, <1>6, SeqEqual
<1>8. /\ ToSet(q) = ToSet(LocalRings(s)) \cup {e.ring}
      /\ Distinct(LocalRings(s)) /\ e.ring \notin ToSet(LocalRings(s)) => Distinct(q)
  BY <1>1, <1>3, AppendDistinct DEF q
<1> QED BY <1>2, <1>7, <1>8 DEF u

\* Dropping the first entry of a local list drops exactly its ring.
LEMMA TailEntry ==
  ASSUME NEW s \in Seq(Entries), s # <<>>, Distinct(LocalRings(s))
  PROVE  /\ Head(s) \in Entries /\ Head(s) = s[1] /\ 1 \in 1 .. Len(s)
         /\ Head(s).ring \in ToSet(LocalRings(s))
         /\ Tail(s) \in Seq(Entries) /\ Len(Tail(s)) = Len(s) - 1
         /\ ToSet(LocalRings(Tail(s))) = ToSet(LocalRings(s)) \ {Head(s).ring}
         /\ Distinct(LocalRings(Tail(s)))
<1> DEFINE u == Tail(s)
           q == Tail(LocalRings(s))
           n == Len(s)
<1>1. n \in Nat /\ n >= 1 /\ 1 \in 1 .. n /\ Head(s) = s[1] /\ Head(s) \in Entries
  OBVIOUS
<1>2. u \in Seq(Entries) /\ Len(u) = n - 1 /\ \A i \in 1 .. n - 1 : u[i] = s[i + 1]
  BY <1>1, HeadTailProperties
<1>3. /\ LocalRings(s) \in Seq(Rings) /\ Len(LocalRings(s)) = n
      /\ \A i \in 1 .. n : LocalRings(s)[i] = s[i].ring
  BY RingsOfEntries
<1>4. LocalRings(s) # <<>> /\ Head(LocalRings(s)) = Head(s).ring
  BY <1>1, <1>3
<1>5. q \in Seq(Rings) /\ Len(q) = n - 1 /\ \A i \in 1 .. n - 1 : q[i] = LocalRings(s)[i + 1]
  BY <1>3, <1>4, HeadTailProperties
<1> HIDE DEF u, q, n
<1>6. /\ LocalRings(u) \in Seq(Rings) /\ Len(LocalRings(u)) = n - 1
      /\ \A i \in 1 .. n - 1 : LocalRings(u)[i] = u[i].ring
  BY <1>2, RingsOfEntries
<1>7. \A i \in 1 .. n - 1 : LocalRings(u)[i] = q[i]
  <2> TAKE i \in 1 .. n - 1
  <2>1. i + 1 \in 1 .. n
    BY <1>1
  <2> QED BY <1>2, <1>3, <1>5, <1>6, <2>1
<1>8. LocalRings(u) = q
  BY <1>5, <1>6, <1>7, SeqEqual
<1>9. /\ ToSet(q) = ToSet(LocalRings(s)) \ {Head(s).ring} /\ Distinct(q)
      /\ Head(s).ring \in ToSet(LocalRings(s))
  BY <1>3, <1>4, TailDistinct DEF q
<1> QED BY <1>1, <1>2, <1>8, <1>9 DEF u, n

\* What the reconcile loop keeps: the rings still registered and kept.
LEMMA ReconcileKeeps ==
  ASSUME local \in Seq(Entries), Distinct(LocalRings(local)),
         \A r \in Rings : Entry(r) \in Entries
  PROVE  /\ Reconcile \in Seq(Entries) /\ Distinct(LocalRings(Reconcile))
         /\ ToSet(LocalRings(Reconcile)) =
              {r \in ToSet(LocalRings(local)) : Contains(registry, r) /\ Keep(r)}
<1> DEFINE n == Len(local)
           V == [kept : Seq(Entries), rest : Seq(Entries)]
           All == ToSet(LocalRings(local))
           Stay == {r \in All : Contains(registry, r) /\ Keep(r)}
           Stays(e) == Contains(registry, e.ring) /\ Keep(e.ring)
           Step(a)  == IF Stays(Head(a.rest))
                       THEN [kept |-> Append(a.kept, Entry(Head(a.rest).ring)),
                             rest |-> Tail(a.rest)]
                       ELSE [a EXCEPT !.rest = SwapRemove(@, 1)]
           init == [kept |-> <<>>, rest |-> local]
           Good(i, a) == /\ a \in V /\ Len(a.rest) = n - i
                         /\ Distinct(LocalRings(a.kept)) /\ Distinct(LocalRings(a.rest))
                         /\ ToSet(LocalRings(a.rest)) \subseteq All
                         /\ ToSet(LocalRings(a.kept)) = Stay \ ToSet(LocalRings(a.rest))
<1>1. n \in Nat
  OBVIOUS
<1>2. Good(0, init)
  <2>1. init \in V /\ init.kept = <<>> /\ init.rest = local
    OBVIOUS
  <2>2. <<>> \in Seq(Entries) /\ Len(<<>>) = 0
    OBVIOUS
  <2>3. LocalRings(<<>>) \in Seq(Rings) /\ Len(LocalRings(<<>>)) = 0
    BY <2>2, RingsOfEntries
  <2>4. ToSet(LocalRings(<<>>)) = {} /\ Distinct(LocalRings(<<>>))
    BY <2>3, ToSetElements DEF Distinct
  <2> QED BY <1>1, <2>1, <2>4
<1>3. ASSUME NEW i \in 1 .. n, NEW a, Good(i - 1, a)
      PROVE  a.rest # <<>> /\ Good(i, Step(a))
  <2> DEFINE k == a.kept
             s == a.rest
             e == Head(s)
  <2>1. /\ k \in Seq(Entries) /\ s \in Seq(Entries) /\ Len(s) = n - (i - 1)
        /\ Distinct(LocalRings(k)) /\ Distinct(LocalRings(s))
        /\ ToSet(LocalRings(s)) \subseteq All
        /\ ToSet(LocalRings(k)) = Stay \ ToSet(LocalRings(s))
    BY <1>3
  <2>2. s # <<>> /\ (n - (i - 1)) - 1 = n - i
    <3> HIDE DEF s, n, k, e
    <3>1. (n - (i - 1)) - 1 = n - i /\ n - (i - 1) > 0
      BY <1>1
    <3> QED BY <2>1, <3>1
  <2>3. /\ e \in Entries /\ e = s[1] /\ 1 \in 1 .. Len(s)
        /\ e.ring \in ToSet(LocalRings(s))
        /\ Tail(s) \in Seq(Entries) /\ Len(Tail(s)) = n - i
        /\ ToSet(LocalRings(Tail(s))) = ToSet(LocalRings(s)) \ {e.ring}
        /\ Distinct(LocalRings(Tail(s)))
    <3> HIDE DEF s, All, Stay, n
    <3> QED BY <2>1, <2>2, TailEntry
  <2>4. e.ring \in Rings /\ Entry(e.ring) \in Entries /\ Entry(e.ring).ring = e.ring
    BY <2>3 DEF Entries, Entry
  <2>5. CASE Stays(e)
    <3>1. /\ Append(k, Entry(e.ring)) \in Seq(Entries)
          /\ ToSet(LocalRings(Append(k, Entry(e.ring)))) = ToSet(LocalRings(k)) \cup {e.ring}
          /\ Distinct(LocalRings(Append(k, Entry(e.ring))))
      <4> HIDE DEF k, s, e, All, Stay, n
      <4>1. e.ring \notin ToSet(LocalRings(k))
        BY <2>1, <2>3
      <4> QED BY <2>1, <2>4, <4>1, AppendEntry
    <3>2. Step(a) = [kept |-> Append(k, Entry(e.ring)), rest |-> Tail(s)]
      BY <2>5
    <3>3. e.ring \in Stay
      BY <2>1, <2>3, <2>5
    <3> HIDE DEF k, s, e, All, Stay, n, Step, Stays
    <3>4. /\ Step(a) \in V /\ Step(a).rest = Tail(s)
          /\ Step(a).kept = Append(k, Entry(e.ring))
      BY <2>3, <3>1, <3>2
    <3>5. /\ ToSet(LocalRings(Tail(s))) \subseteq All
          /\ ToSet(LocalRings(k)) \cup {e.ring} = Stay \ (ToSet(LocalRings(s)) \ {e.ring})
      BY <2>1, <2>3, <3>3
    <3>6. Good(i, Step(a))
      BY <2>3, <3>1, <3>4, <3>5
    <3> QED BY <2>2, <3>6 DEF s
  <2>6. CASE ~Stays(e)
    <3>1. /\ SwapRemove(s, 1) \in Seq(Entries) /\ Len(SwapRemove(s, 1)) = n - i
          /\ Distinct(LocalRings(SwapRemove(s, 1)))
          /\ ToSet(LocalRings(SwapRemove(s, 1))) = ToSet(LocalRings(s)) \ {e.ring}
      <4> HIDE DEF k, s, e, All, Stay, n
      <4> QED BY <2>1, <2>2, <2>3, SwapRemoveDistinct
    <3>2. Step(a) = [kept |-> k, rest |-> SwapRemove(s, 1)]
      BY <1>3, <2>6
    <3>3. e.ring \notin Stay
      BY <2>6
    <3> HIDE DEF k, s, e, All, Stay, n, Step, Stays
    <3>4. Step(a) \in V /\ Step(a).rest = SwapRemove(s, 1) /\ Step(a).kept = k
      BY <2>1, <3>1, <3>2
    <3>5. /\ ToSet(LocalRings(SwapRemove(s, 1))) \subseteq All
          /\ ToSet(LocalRings(k)) = Stay \ (ToSet(LocalRings(s)) \ {e.ring})
      BY <2>1, <3>1, <3>3
    <3>6. Good(i, Step(a))
      BY <2>1, <3>1, <3>4, <3>5
    <3> QED BY <2>2, <3>6 DEF s
  <2> QED BY <2>5, <2>6
<1>4. ASSUME NEW f, f[0] = init,
             \A i \in 1 .. n : f[i - 1].rest # <<>> /\ Step(f[i - 1]) \in V
                                 => f[i] = Step(f[i - 1])
      PROVE  \A i \in 0 .. n : Good(i, f[i])
  <2> DEFINE T == {i \in 0 .. n : Good(i, f[i])}
  <2> HIDE DEF Step, Good, init, n, V
  <2>1. 0 \in T
    BY <1>1, <1>2, <1>4
  <2>2. ASSUME NEW m \in T, m < n PROVE m + 1 \in T
    <3>1. m + 1 \in 1 .. n /\ m + 1 \in 0 .. n /\ (m + 1) - 1 = m
      BY <1>1, <2>2
    <3>2. f[m].rest # <<>> /\ Good(m + 1, Step(f[m]))
      BY <1>3, <3>1
    <3>3. Step(f[m]) \in V
      BY <3>2 DEF Good
    <3>4. f[m + 1] = Step(f[m])
      BY <1>4, <3>1, <3>2, <3>3
    <3> QED BY <3>1, <3>2, <3>4
  <2>3. T = 0 .. n
    <3> HIDE DEF T
    <3>1. T \in SUBSET (0 .. n)
      BY DEF T
    <3> QED BY <1>1, <2>1, <2>2, <3>1, Induction
  <2> QED BY <2>3
<1>5. \E f : f = [i \in 0 .. n |-> IF i = 0 THEN init ELSE Step(f[i - 1])]
  <2> DEFINE Total(v) == IF v.rest # <<>> /\ Step(v) \in V THEN Step(v) ELSE v
             step == [p \in (1 .. n) \X V |-> Total(p[2])]
  <2>1. \A i \in 1 .. n, v \in V : step[<<i, v>>] = Total(v)
    <3> HIDE DEF Total, V, n
    <3> QED OBVIOUS
  <2>2. \A i \in 1 .. n, v \in V : step[<<i, v>>] \in V
    <3> HIDE DEF step, Step, V, n
    <3> QED BY <2>1
  <2>3. init \in V
    BY <1>2
  <2>4. PICK f : Recursive(f, n, V, init, step)
    <3> HIDE DEF step, init, V, n
    <3> QED BY <1>1, <2>2, <2>3, Recursion
  <2> HIDE DEF step, Step, init, Good, V, n
  <2>5. /\ f \in [0 .. n -> V] /\ f[0] = init
        /\ \A i \in 1 .. n : f[i] = step[<<i, f[i - 1]>>]
    BY <2>4 DEF Recursive
  <2>6. \A i \in 1 .. n : i - 1 \in 0 .. n /\ f[i - 1] \in V /\ f[i] = Total(f[i - 1])
    <3> TAKE i \in 1 .. n
    <3>1. i - 1 \in 0 .. n
      BY <1>1
    <3>2. f[i - 1] \in V
      BY <2>5, <3>1
    <3> HIDE DEF Total
    <3> QED BY <2>1, <2>5, <3>1, <3>2
  <2>7. \A i \in 0 .. n : Good(i, f[i])
    BY <1>4, <2>5, <2>6
  <2>8. \A i \in 1 .. n : f[i] = Step(f[i - 1])
    <3> TAKE i \in 1 .. n
    <3>1. Good(i - 1, f[i - 1])
      BY <2>6, <2>7
    <3>2. f[i - 1].rest # <<>> /\ Good(i, Step(f[i - 1]))
      BY <1>3, <3>1
    <3>3. Step(f[i - 1]) \in V
      BY <3>2 DEF Good
    <3> QED BY <2>6, <3>2, <3>3
  <2>9. \A i \in 0 .. n : i = 0 \/ (i \in 1 .. n /\ i # 0)
    BY <1>1
  <2>10. f = [i \in 0 .. n |-> IF i = 0 THEN init ELSE Step(f[i - 1])]
    <3> HIDE DEF Total
    <3> QED BY <2>5, <2>8, <2>9
  <2> QED BY <2>10
<1>6. PICK h : /\ h = [i \in 0 .. n |-> IF i = 0 THEN init ELSE Step(h[i - 1])]
               /\ Reconcile = h[n].kept
  BY <1>5 DEF Reconcile
<1> HIDE DEF Step, Good, init, n, V
<1>7. h[0] = init /\ \A i \in 1 .. n : h[i] = Step(h[i - 1])
  <2>1. 0 \in 0 .. n /\ \A i \in 1 .. n : i \in 0 .. n /\ i # 0
    BY <1>1
  <2> QED BY <1>6, <2>1
<1>8. Good(n, h[n])
  <2>1. n \in 0 .. n
    BY <1>1
  <2>2. \A i \in 0 .. n : Good(i, h[i])
    BY <1>4, <1>7
  <2> QED BY <2>1, <2>2
<1>9. /\ h[n].kept \in Seq(Entries) /\ h[n].rest \in Seq(Entries) /\ Len(h[n].rest) = 0
      /\ Distinct(LocalRings(h[n].kept))
      /\ ToSet(LocalRings(h[n].kept)) = Stay \ ToSet(LocalRings(h[n].rest))
  BY <1>1, <1>8 DEF Good, V
<1>10. ToSet(LocalRings(h[n].rest)) = {}
  <2>1. /\ LocalRings(h[n].rest) \in Seq(Rings) /\ Len(LocalRings(h[n].rest)) = 0
    BY <1>9, RingsOfEntries
  <2>2. LocalRings(h[n].rest) = <<>>
    BY <2>1
  <2> QED BY <2>1, <2>2, ToSetElements
<1> QED BY <1>6, <1>9, <1>10

\* SyncReconcile leaves the drain with one entry for each registration kept.
LEMMA SyncedList ==
  ASSUME local \in Seq(Entries), Distinct(LocalRings(local)),
         registry \in Seq(Rings), Distinct(registry),
         \A r \in Rings : Entry(r) \in Entries, SyncReconcile
  PROVE  /\ local' \in Seq(Entries) /\ Distinct(LocalRings(local'))
         /\ ToSet(LocalRings(local')) = {r \in ToSet(registry) : Keep(r)}
<1> DEFINE known == ToSet(LocalRings(Reconcile))
           added == Filter(registry, {r \in Rings : Keep(r)} \ known)
           m == Len(added)
           more == [i \in 1 .. m |-> Entry(added[i])]
<1>1. /\ Reconcile \in Seq(Entries) /\ Distinct(LocalRings(Reconcile))
      /\ known = {r \in ToSet(LocalRings(local)) : Contains(registry, r) /\ Keep(r)}
  BY ReconcileKeeps
<1>2. /\ added \in Seq(Rings) /\ Distinct(added)
      /\ ToSet(added) = ToSet(registry) \cap ({r \in Rings : Keep(r)} \ known)
  BY FilterDistinct
<1>3. ToSet(registry) \subseteq Rings /\ \A r : Contains(registry, r) <=> r \in ToSet(registry)
  BY ToSetElements
<1>4. local' = Reconcile \o [i \in DOMAIN added |-> Entry(added[i])]
  BY DEF SyncReconcile
<1> HIDE DEF known, added
<1>5. m \in Nat /\ DOMAIN added = 1 .. m /\ \A i \in 1 .. m : added[i] \in Rings
  BY <1>2
<1> HIDE DEF m
<1>6. /\ more \in Seq(Entries) /\ Len(more) = m
      /\ \A i \in 1 .. m : more[i].ring = added[i]
  <2>1. more \in [1 .. m -> Entries]
    BY <1>5
  <2>2. more \in Seq(Entries) /\ DOMAIN more = 1 .. m
    BY <1>5, <2>1, IsASeq
  <2>3. Len(more) = m
    BY <1>5, <2>2, LenProperties
  <2>4. \A i \in 1 .. m : more[i].ring = added[i]
    BY DEF Entry
  <2> QED BY <2>2, <2>3, <2>4
<1>7. LocalRings(more) = added
  <2> HIDE DEF more
  <2>1. /\ LocalRings(more) \in Seq(Rings) /\ Len(LocalRings(more)) = m
        /\ \A i \in 1 .. m : LocalRings(more)[i] = more[i].ring
    BY <1>6, RingsOfEntries
  <2> QED BY <1>2, <1>6, <2>1, SeqEqual DEF m
<1>8. local' = Reconcile \o more
  BY <1>4, <1>5
<1> HIDE DEF more
<1>9. /\ local' \in Seq(Entries)
      /\ LocalRings(local') = LocalRings(Reconcile) \o LocalRings(more)
  <2> DEFINE s == Reconcile
             u == s \o more
             q == LocalRings(s) \o LocalRings(more)
             n == Len(s)
  <2>0. s \in Seq(Entries) /\ n \in Nat
    BY <1>1
  <2> HIDE DEF s
  <2>1. /\ u \in Seq(Entries) /\ Len(u) = n + m
        /\ \A i \in 1 .. n + m : u[i] = IF i <= n THEN s[i] ELSE more[i - n]
    BY <1>6, <2>0, ConcatProperties
  <2>2. /\ LocalRings(s) \in Seq(Rings) /\ Len(LocalRings(s)) = n
        /\ \A i \in 1 .. n : LocalRings(s)[i] = s[i].ring
    BY <2>0, RingsOfEntries
  <2>3. /\ LocalRings(more) \in Seq(Rings) /\ Len(LocalRings(more)) = m
        /\ \A i \in 1 .. m : LocalRings(more)[i] = more[i].ring
    BY <1>6, RingsOfEntries
  <2>4. /\ q \in Seq(Rings) /\ Len(q) = n + m
        /\ \A i \in 1 .. n + m :
             q[i] = IF i <= n THEN LocalRings(s)[i] ELSE LocalRings(more)[i - n]
    <3> DEFINE a == LocalRings(s)
               b == LocalRings(more)
    <3>1. a \in Seq(Rings) /\ b \in Seq(Rings) /\ Len(a) = n /\ Len(b) = m
      BY <2>2, <2>3
    <3> HIDE DEF a, b, n
    <3>2. /\ a \o b \in Seq(Rings) /\ Len(a \o b) = n + m
          /\ \A i \in 1 .. n + m : (a \o b)[i] = IF i <= n THEN a[i] ELSE b[i - n]
      BY <3>1, ConcatProperties
    <3> QED BY <3>2 DEF a, b
  <2> HIDE DEF u, q, n
  <2>5. /\ LocalRings(u) \in Seq(Rings) /\ Len(LocalRings(u)) = n + m
        /\ \A i \in 1 .. n + m : LocalRings(u)[i] = u[i].ring
    BY <2>1, RingsOfEntries
  <2>6. \A i \in 1 .. n + m : LocalRings(u)[i] = q[i]
    <3> TAKE i \in 1 .. n + m
    <3>1. i \in 1 .. n \/ (~(i <= n) /\ i - n \in 1 .. m)
      BY <1>5, <2>0
    <3>2. CASE i \in 1 .. n
      <4>1. i <= n
        BY <2>0, <3>2
      <4> QED BY <2>1, <2>2, <2>4, <2>5, <3>2, <4>1
    <3>3. CASE ~(i <= n) /\ i - n \in 1 .. m
      BY <2>1, <2>3, <2>4, <2>5, <3>3
    <3> QED BY <3>1, <3>2, <3>3
  <2>7. LocalRings(u) = q
    BY <2>4, <2>5, <2>6, SeqEqual
  <2> QED BY <1>8, <2>1, <2>7 DEF u, q, s
<1>10. known \cap ToSet(added) = {}
  BY <1>2
<1>11. LocalRings(Reconcile) \in Seq(Rings)
  BY <1>1, RingsOfEntries
<1>12. /\ ToSet(LocalRings(local')) = known \cup ToSet(added)
       /\ Distinct(LocalRings(local'))
  BY <1>1, <1>2, <1>7, <1>9, <1>10, <1>11, ConcatDistinct DEF known
<1>13. known \cup ToSet(added) = {r \in ToSet(registry) : Keep(r)}
  BY <1>1, <1>2, <1>3
<1> QED BY <1>9, <1>12, <1>13
-----------------------------------------------------------------------------
(* The types, as long as no thread acts as helper.                          *)

TPcs == {"new", "register", "idle", "reserve", "publish", "full", "alloc",
         "spare", "help", "exited"}
DPcs == {"top", "sync", "reconcile", "retain", "finalize", "poll", "drain",
         "walk", "clear", "check", "retire", "recycle", "done"}
GPcs == {"held", "walked", "joining", "dropped"}

Record == Threads \X Nat

Segment ==
  [head : Nat, tail : Nat, tail_cache : Nat, head_cache : Nat,
   helper_reserved : {FALSE}, draining : BOOLEAN, recycled : BOOLEAN,
   handed_off : BOOLEAN, live : BOOLEAN, serial : Nat,
   data : [0 .. Slots - 1 -> Record \cup {<<>>}]]

RingTypes == ring \in [Rings -> Segment]

ListTypes ==
  /\ registry \in Seq(Rings) /\ finalize \in Seq(Rings)
  /\ spares \in Seq(1 .. PoolSize) /\ local \in Seq(Entries)
  /\ serials \in Nat /\ fresh \in 0 .. FreshRings /\ lines = <<>>

\* A thread has claimed a segment when it is about to register it, and has a
\* current one from then on.
ThreadTypes ==
  /\ tpc \in [Threads -> TPcs]
  /\ cur \in [Threads -> Rings \cup {None}]
  /\ held \in [Threads -> Rings \cup {None}]
  /\ at \in [Threads -> Nat] /\ logged \in [Threads -> Nat]
  /\ \A t \in Threads : /\ held[t] # None <=> tpc[t] = "register"
                        /\ tpc[t] \notin {"new", "register"} => cur[t] # None

DrainTypes ==
  /\ gpc \in GPcs /\ dpc \in DPcs /\ idx \in Nat \ {0}
  /\ cursor \in [ring : Rings \cup {None}, tail : Nat, head : Nat]
  /\ sink \in [Threads -> Seq(Nat)] /\ owed \in [Threads -> Nat]
  /\ shared \subseteq Rings
  /\ dpc \in {"drain", "walk", "clear", "check", "retire", "recycle"}
       => cursor.ring # None

Types == RingTypes /\ ListTypes /\ ThreadTypes /\ DrainTypes

\* A step of a thread that never reserves a segment as helper.
PlainThread(t) ==
  \/ FirstRing(t) \/ RegisterRing(t) \/ BeginLog(t) \/ Reserve(t)
  \/ Publish(t) \/ HandOff(t) \/ Grow(t) \/ (tpc[t] = "spare" /\ ClaimSpare(t))
  \/ (tpc[t] = "spare" /\ PoolEmpty(t)) \/ ThreadExit(t)

\* The rings and the constants.
LEMMA RingFacts ==
  /\ PoolSize \in Nat /\ FreshRings \in Nat /\ Slots \in Nat /\ Slots >= 2
  /\ None \notin Rings /\ 1 .. PoolSize \subseteq Rings /\ Rings \subseteq Nat
  /\ \A k \in 0 .. FreshRings : k < FreshRings => PoolSize + k + 1 \in Rings
  /\ \A n \in Nat : n % Slots \in 0 .. Slots - 1
<1>1. /\ PoolSize \in Nat /\ FreshRings \in Nat /\ Slots \in Nat /\ Slots >= 2
      /\ Rings = 1 .. PoolSize + FreshRings
  BY SegmentsAssumption DEF Rings
<1>2. \A n \in Nat : n % Slots \in 0 .. Slots - 1
  BY <1>1
<1>3. \A k \in 0 .. FreshRings : k < FreshRings => PoolSize + k + 1 \in Rings
  BY <1>1
<1>4. None \notin Rings /\ 1 .. PoolSize \subseteq Rings /\ Rings \subseteq Nat
  BY <1>1 DEF None
<1> QED BY <1>1, <1>2, <1>3, <1>4

\* Without a helper only the plain steps are possible.
LEMMA PlainSteps ==
  ASSUME ThreadTypes, ~helped, [Next]_vars, ~helped'
  PROVE  \/ \E t \in Threads : PlainThread(t)
         \/ Guard \/ Drain \/ UNCHANGED vars
<1>1. \A t \in Threads : tpc[t] \in TPcs
  BY DEF ThreadTypes
<1>2. ASSUME NEW t \in Threads, Thread(t) PROVE PlainThread(t)
  <2>1. ~ReserveForHelper(t)
    BY DEF ReserveForHelper
  <2>2. /\ ~HelperSpin(t) /\ ~HelperFormat(t) /\ ~HelperQueue(t) /\ ~HelperRecycle(t)
        /\ ~CheckLive(t) /\ ~Woken(t)
    BY <1>1 DEF HelperSpin, HelperFormat, HelperQueue, HelperRecycle, CheckLive, Woken, TPcs
  <2>3. (ClaimSpare(t) \/ PoolEmpty(t)) => tpc[t] = "spare"
    BY <1>1 DEF ClaimSpare, PoolEmpty, TPcs
  <2> QED BY <1>2, <2>1, <2>2, <2>3 DEF Thread, InCall, PlainThread
<1> QED BY <1>2 DEF Next

\* The first state is well typed: the pool's spares and no registered ring.
LEMMA InitTypes ==
  ASSUME Init
  PROVE  Types
<1>1. NewSegment \in Segment
  BY RingFacts DEF NewSegment, Segment
<1>2. RingTypes
  BY <1>1 DEF Init, RingTypes
<1>3. ListTypes
  <2>1. spares \in Seq(1 .. PoolSize)
    <3>1. [i \in 1 .. PoolSize |-> i] \in Seq(1 .. PoolSize)
      BY RingFacts
    <3>2. <<>> \in Seq(1 .. PoolSize)
      OBVIOUS
    <3> QED BY <3>1, <3>2 DEF Init
  <2> QED BY <2>1, RingFacts DEF Init, ListTypes
<1>4. ThreadTypes
  BY DEF Init, ThreadTypes, TPcs
<1>5. DrainTypes
  <2>1. sink \in [Threads -> Seq(Nat)] /\ owed \in [Threads -> Nat]
    BY DEF Init
  <2> QED BY <2>1 DEF Init, DrainTypes, DPcs, GPcs
<1> QED BY <1>2, <1>3, <1>4, <1>5 DEF Types

\* A thread's current segment, while it is not new or at its first one.
LEMMA CurrentRing ==
  ASSUME ThreadTypes, NEW t \in Threads
  PROVE  /\ tpc[t] \notin {"new", "register"} => cur[t] \in Rings
         /\ tpc[t] = "register" => held[t] \in Rings
  BY DEF ThreadTypes

\* What claiming a segment does to the types.
LEMMA TakeSpareTypes ==
  ASSUME RingTypes, ListTypes, ThreadTypes, NEW t \in Threads, TakeSpare(t)
  PROVE  /\ ring' \in [Rings -> Segment] /\ spares' \in Seq(1 .. PoolSize)
         /\ held' = [held EXCEPT ![t] = Last(spares)]
         /\ Last(spares) \in Rings /\ fresh' = fresh
<1>1. spares \in Seq(1 .. PoolSize) /\ spares # <<>>
  BY DEF ListTypes, TakeSpare
<1>2. Len(spares) \in 1 .. Len(spares)
  BY <1>1
<1>3. Last(spares) \in 1 .. PoolSize
  <2>1. spares[Len(spares)] \in 1 .. PoolSize
    BY <1>1, <1>2, ElementOfSeq
  <2> QED BY <2>1 DEF Last
<1>4. Last(spares) \in Rings
  BY <1>3, RingFacts
<1>5. Front(spares) \in Seq(1 .. PoolSize)
  BY <1>1, FrontShape
<1>6. \A seg \in Segment : Reset(seg) \in Segment
  BY DEF Segment, Reset
<1>7. ring' \in [Rings -> Segment]
  BY <1>4, <1>6 DEF RingTypes, TakeSpare
<1> QED BY <1>4, <1>5, <1>7 DEF TakeSpare

\* A segment allocated past the pool is the next unused one.
LEMMA AllocFreshTypes ==
  ASSUME RingTypes, ListTypes, ThreadTypes, NEW t \in Threads, AllocFresh(t)
  PROVE  /\ ring' = ring /\ spares' = spares /\ fresh' \in 0 .. FreshRings
         /\ held' = [held EXCEPT ![t] = PoolSize + fresh + 1]
         /\ PoolSize + fresh + 1 \in Rings
<1>1. PoolSize + fresh + 1 \in Rings
  BY RingFacts DEF ListTypes, AllocFresh
<1>2. fresh' \in 0 .. FreshRings
  BY RingFacts DEF ListTypes, AllocFresh
<1> QED BY <1>1, <1>2 DEF AllocFresh

\* The steps of the threads keep the types.
LEMMA ThreadStepTypes ==
  ASSUME Types, NEW t \in Threads, PlainThread(t)
  PROVE  Types'
<1> USE DEF Types
\* A segment has been claimed.
<1>1. ASSUME NEW r \in Rings, tpc[t] \in {"new", "alloc", "spare"},
             ring' \in [Rings -> Segment], spares' \in Seq(1 .. PoolSize),
             fresh' \in 0 .. FreshRings, shared' \subseteq Rings,
             held' = [held EXCEPT ![t] = r], Goto(t, "register"),
             UNCHANGED <<config, registry, serials, lines, cur, at, copied, logged,
                         guardVars, drainVars, owed, helped, slipped>>
      PROVE  Types'
  <2>2. RingTypes'
    BY <1>1 DEF RingTypes
  <2>3. ListTypes'
    BY <1>1 DEF ListTypes, drainVars
  <2>4. ThreadTypes'
    BY <1>1, RingFacts DEF ThreadTypes, Goto, TPcs
  <2>5. DrainTypes'
    BY <1>1 DEF DrainTypes, drainVars, guardVars
  <2> QED BY <2>2, <2>3, <2>4, <2>5
<1>2. ASSUME TakeSpare(t) \/ AllocFresh(t)
      PROVE  shared' \subseteq Rings
  BY <1>2, TakeSpareTypes DEF TakeSpare, AllocFresh, DrainTypes
<1>3. CASE FirstRing(t)
  <2>1. CASE TakeSpare(t)
    BY <1>1, <1>2, <1>3, <2>1, TakeSpareTypes DEF FirstRing, ListTypes
  <2>2. CASE AllocFresh(t)
    BY <1>1, <1>2, <1>3, <2>2, AllocFreshTypes DEF FirstRing, ListTypes, RingTypes
  <2> QED BY <1>3, <2>1, <2>2 DEF FirstRing
<1>4. CASE Grow(t)
  BY <1>1, <1>2, <1>4, AllocFreshTypes DEF Grow, ListTypes, RingTypes
<1>5. CASE tpc[t] = "spare" /\ ClaimSpare(t)
  BY <1>1, <1>2, <1>5, TakeSpareTypes DEF ClaimSpare, ListTypes
<1>6. CASE RegisterRing(t)
  <2>1. held[t] \in Rings /\ serials \in Nat /\ \A seg \in Segment, n \in Nat :
          [seg EXCEPT !.serial = n] \in Segment
    BY <1>6, CurrentRing DEF RegisterRing, ListTypes, Segment
  <2>2. RingTypes'
    BY <1>6, <2>1 DEF RingTypes, RegisterRing
  <2>3. Append(registry, held[t]) \in Seq(Rings) /\ serials + 1 \in Nat
    BY <2>1 DEF ListTypes
  <2>4. ListTypes'
    BY <1>6, <2>3 DEF ListTypes, RegisterRing, drainVars
  <2>5. ThreadTypes'
    BY <1>6, <2>1, RingFacts DEF ThreadTypes, RegisterRing, Goto, TPcs
  <2>6. DrainTypes'
    BY <1>6 DEF RegisterRing, DrainTypes, drainVars, guardVars, history
  <2> QED BY <2>2, <2>4, <2>5, <2>6
\* A step on the thread's current segment.
<1>7. ASSUME tpc[t] \notin {"new", "register"}, NEW pc \in TPcs \ {"new", "register"},
             Goto(t, pc), ring' \in [Rings -> Segment],
             at' \in [Threads -> Nat], logged' \in [Threads -> Nat],
             UNCHANGED <<registry, poolVars, cur, held, guardVars, drainVars, owed, shared>>
      PROVE  Types'
  <2>1. RingTypes'
    BY <1>7 DEF RingTypes
  <2>2. ListTypes'
    BY <1>7 DEF ListTypes, drainVars, poolVars
  <2>3. ThreadTypes'
    BY <1>7, RingFacts DEF ThreadTypes, Goto, TPcs
  <2>4. DrainTypes'
    BY <1>7 DEF DrainTypes, drainVars, guardVars
  <2> QED BY <2>1, <2>2, <2>3, <2>4
<1>8. CASE BeginLog(t)
  <2>1. Goto(t, "reserve") /\ "reserve" \in TPcs
    BY <1>8 DEF BeginLog, TPcs
  <2> QED BY <1>7, <1>8, <2>1 DEF BeginLog, history, ThreadTypes, RingTypes
<1>9. CASE Reserve(t)
  <2>1. \A seg \in Segment, n \in Nat : [seg EXCEPT !.tail_cache = n] \in Segment
    BY DEF Segment
  <2>2. cur[t] \in Rings /\ ring[cur[t]] \in Segment
    BY <1>9, CurrentRing DEF Reserve, RingTypes
  <2>3. ring[cur[t]].tail \in Nat /\ ring[cur[t]].head \in Nat
    BY <2>2 DEF Segment
  <2>4. ring' \in [Rings -> Segment] /\ at' \in [Threads -> Nat]
    BY <1>9, <2>1, <2>2, <2>3 DEF Reserve, RingTypes, ThreadTypes
  <2>5. (Goto(t, "publish") \/ Goto(t, "full")) /\ "publish" \in TPcs /\ "full" \in TPcs
    BY <1>9 DEF Reserve, TPcs
  <2> QED BY <1>7, <1>9, <2>4, <2>5 DEF Reserve, history, ThreadTypes
<1>10. CASE Publish(t)
  <2>1. cur[t] \in Rings /\ ring[cur[t]] \in Segment
    BY <1>10, CurrentRing DEF Publish, RingTypes
  <2>2. /\ at[t] \in Nat /\ at[t] % Slots \in 0 .. Slots - 1
        /\ <<t, logged[t] + 1>> \in Record
    <3>1. at[t] \in Nat /\ logged[t] \in Nat
      BY DEF Types, ThreadTypes
    <3>2. logged[t] + 1 \in Nat
      BY <3>1
    <3>3. at[t] % Slots \in 0 .. Slots - 1
      BY <3>1, RingFacts
    <3> QED BY <3>1, <3>2, <3>3 DEF Record
  <2>3. [ring[cur[t]] EXCEPT !.data[at[t] % Slots] = <<t, logged[t] + 1>>,
                             !.head = at[t] + 1] \in Segment
    <3> DEFINE seg == ring[cur[t]]
               k == at[t] % Slots
               rec == <<t, logged[t] + 1>>
               d == [seg.data EXCEPT ![k] = rec]
               h == at[t] + 1
    <3>1. seg.data \in [0 .. Slots - 1 -> Record \cup {<<>>}]
      BY <2>1 DEF Segment
    <3>2. d \in [0 .. Slots - 1 -> Record \cup {<<>>}]
      BY <2>2, <3>1
    <3>3. h \in Nat /\ seg \in Segment
      BY <2>1, <2>2
    <3> HIDE DEF d, h, seg
    <3>4. [seg EXCEPT !.data = d, !.head = h] \in Segment
      BY <3>2, <3>3 DEF Segment
    <3> QED BY <3>4 DEF d, h, seg
  <2>4. /\ ring' \in [Rings -> Segment] /\ at' \in [Threads -> Nat]
        /\ logged' \in [Threads -> Nat]
    BY <1>10, <2>1, <2>3 DEF Publish, RingTypes, ThreadTypes
  <2>5. Goto(t, "idle") /\ "idle" \in TPcs
    BY <1>10 DEF Publish, TPcs
  <2> QED BY <1>7, <1>10, <2>4, <2>5 DEF Publish, history
<1>11. CASE HandOff(t)
  <2>1. \A seg \in Segment : [seg EXCEPT !.handed_off = TRUE] \in Segment
    BY DEF Segment
  <2>2. cur[t] \in Rings
    BY <1>11, CurrentRing DEF HandOff
  <2>3. ring' \in [Rings -> Segment] /\ at' \in [Threads -> Nat]
    BY <1>11, <2>1, <2>2 DEF HandOff, RingTypes, ThreadTypes
  <2>4. (Goto(t, "alloc") \/ Goto(t, "spare")) /\ "alloc" \in TPcs /\ "spare" \in TPcs
    BY <1>11 DEF HandOff, TPcs
  <2> QED BY <1>7, <1>11, <2>3, <2>4 DEF HandOff, history, ThreadTypes
<1>12. CASE tpc[t] = "spare" /\ PoolEmpty(t)
  <2>1. Goto(t, "help") /\ "help" \in TPcs
    BY <1>12 DEF PoolEmpty, TPcs
  <2> QED BY <1>7, <1>12, <2>1 DEF PoolEmpty, history, ThreadTypes, RingTypes
<1>13. CASE ThreadExit(t)
  <2>1. \A seg \in Segment : [seg EXCEPT !.live = FALSE] \in Segment
    BY DEF Segment
  <2>2. cur[t] \in Rings
    BY <1>13, CurrentRing DEF ThreadExit
  <2>3. ring' \in [Rings -> Segment]
    BY <1>13, <2>1, <2>2 DEF ThreadExit, RingTypes
  <2>4. Goto(t, "exited") /\ "exited" \in TPcs
    BY <1>13 DEF ThreadExit, TPcs
  <2> QED BY <1>7, <1>13, <2>3, <2>4 DEF ThreadExit, ThreadTypes
<1> QED BY <1>3, <1>4, <1>5, <1>6, <1>8, <1>9, <1>10, <1>11, <1>12, <1>13 DEF PlainThread
-----------------------------------------------------------------------------
(* Where a segment is: parked, claimed, listed, or never used.              *)

LocalSet   == ToSet(LocalRings(local))
Registered == ToSet(registry)
Closing    == ToSet(finalize)
Parked     == ToSet(spares)
Claimed    == {held[t] : t \in Threads} \ {None}
Unused     == {r \in Rings : r > PoolSize + fresh}

\* The segment drain_recycle is about to park.
Parting == IF dpc = "recycle" THEN {cursor.ring} ELSE {}

Listed == Registered \cup LocalSet \cup Closing \cup Parting

Lists ==
  /\ Distinct(spares) /\ Distinct(registry) /\ Distinct(finalize)
  /\ Distinct(LocalRings(local))

Apart ==
  /\ Listed \cap Parked = {}
  /\ (Listed \cup Parked) \cap Claimed = {}
  /\ (Listed \cup Claimed) \cap Unused = {}
  /\ \A t \in Threads : cur[t] \notin Unused
  /\ \A t, u \in Threads : held[t] = held[u] /\ held[t] # None => t = u

\* sync_rings closes dead segments only, and has taken them off both lists
\* before it drains them; the pass in progress is over the first of them, or
\* over the entry poll_once is at.
Phase ==
  /\ finalize # <<>> => dpc \in {"reconcile", "retain", "finalize", "drain",
                                 "walk", "clear", "recycle"}
  /\ \A r \in Closing : ~ring[r].live
  /\ dpc = "retain" => Closing \cap LocalSet = {}
  /\ dpc \in {"finalize", "drain", "walk", "clear", "recycle"} =>
       Closing \cap (Registered \cup LocalSet) = {}
  /\ dpc \in {"drain", "walk", "clear", "check", "retire"} /\ finalize = <<>> =>
       idx <= Len(local) /\ cursor.ring = local[idx].ring
  /\ dpc \in {"drain", "walk", "clear", "recycle"} /\ finalize # <<>> =>
       cursor.ring = Head(finalize)
  /\ dpc = "recycle" /\ finalize = <<>> => cursor.ring \notin Registered \cup LocalSet

Structure == Lists /\ Apart /\ Phase

listVars == <<registry, local, finalize, spares, fresh, dpc, idx, cursor>>

\* At first the ring lists are empty and the spares distinct, so Structure holds.
LEMMA InitStructure ==
  ASSUME Init
  PROVE  Structure
<1>1. spares \in Seq(1 .. PoolSize) /\ local \in Seq(Entries)
  BY InitTypes DEF Types, ListTypes
<1>2. LocalRings(local) = <<>>
  BY DEF Init, LocalRings
<1>3. LocalSet = {} /\ Registered = {} /\ Closing = {} /\ Parting = {} /\ Claimed = {}
  BY <1>2 DEF Init, LocalSet, Registered, Closing, Parting, Claimed, ToSet
<1>4. Distinct(spares)
  BY RingFacts DEF Init, Distinct
<1>5. Lists
  <2>1. Distinct(<<>>)
    BY DEF Distinct
  <2> QED BY <1>2, <1>4, <2>1 DEF Init, Lists
<1>6. Apart
  BY <1>3, RingFacts DEF Init, Apart, Listed, Unused
<1>7. Phase
  BY <1>3 DEF Init, Phase
<1> QED BY <1>5, <1>6, <1>7 DEF Structure

\* Steps that leave the lists and the claims alone and revive no segment.
LEMMA QuietStructure ==
  ASSUME Types, Structure, UNCHANGED <<listVars, held, cur>>,
         \A r \in Rings : ring'[r].live => ring[r].live
  PROVE  Structure'
<1>1. /\ LocalSet' = LocalSet /\ Registered' = Registered /\ Closing' = Closing
      /\ Parked' = Parked /\ Claimed' = Claimed /\ Unused' = Unused
      /\ Parting' = Parting /\ Listed' = Listed
  BY DEF LocalSet, Registered, Closing, Parked, Claimed, Unused, Parting, Listed,
         listVars, LocalRings
<1>2. Lists'
  BY DEF Structure, Lists, listVars, LocalRings
<1>3. Apart'
  BY <1>1 DEF Structure, Apart
<1>4. Closing \subseteq Rings
  BY ToSetElements DEF Types, ListTypes, Closing
<1>5. Phase'
  BY <1>1, <1>4 DEF Structure, Phase, listVars
<1> QED BY <1>2, <1>3, <1>5 DEF Structure

\* Claiming a spare segment.
LEMMA TakeSpareStructure ==
  ASSUME Types, Structure, NEW t \in Threads, held[t] = None, TakeSpare(t),
         UNCHANGED <<registry, local, finalize, dpc, idx, cursor, cur>>
  PROVE  Structure' /\ Last(spares) \in Parked \cap Rings
<1> DEFINE L == Last(spares)
<1>1. /\ L \in Parked /\ spares' \in Seq(1 .. PoolSize) /\ Distinct(spares')
      /\ Parked' = Parked \ {L}
  BY FrontDistinct DEF Types, ListTypes, Structure, Lists, TakeSpare, Parked
<1>2. L \in Rings /\ L # None /\ held' = [held EXCEPT ![t] = L] /\ fresh' = fresh
  BY TakeSpareTypes, RingFacts DEF Types
<1>3. /\ LocalSet' = LocalSet /\ Registered' = Registered /\ Closing' = Closing
      /\ Unused' = Unused /\ Parting' = Parting /\ Listed' = Listed
  BY <1>2 DEF LocalSet, Registered, Closing, Unused, Parting, Listed, LocalRings
<1>4. Claimed' = Claimed \cup {L}
  BY <1>2 DEF Claimed, Types, ThreadTypes
<1>5. L <= PoolSize /\ L \notin Unused
  <2>1. L \in 1 .. PoolSize
    BY <1>1, ToSetElements DEF Types, ListTypes, Parked
  <2> QED BY <2>1, RingFacts DEF Unused, Types, ListTypes
<1>6. Lists'
  BY <1>1 DEF Structure, Lists, LocalRings
<1>7. Apart'
  <2>1. /\ Listed' \cap Parked' = {} /\ (Listed' \cup Parked') \cap Claimed' = {}
        /\ (Listed' \cup Claimed') \cap Unused' = {}
    BY <1>1, <1>3, <1>4, <1>5 DEF Structure, Apart
  <2>2. \A u \in Threads : cur'[u] \notin Unused'
    BY <1>3 DEF Structure, Apart
  <2>3. \A u, w \in Threads : held'[u] = held'[w] /\ held'[u] # None => u = w
    <3>1. \A u \in Threads : held[u] # L
      BY <1>1, <1>2 DEF Structure, Apart, Claimed
    <3> QED BY <1>2, <3>1 DEF Structure, Apart, Types, ThreadTypes
  <2> QED BY <2>1, <2>2, <2>3 DEF Apart
<1>8. \A r \in Rings : r # L => ring'[r] = ring[r]
  BY <1>2 DEF TakeSpare, Types, RingTypes
<1>9. L \notin Closing /\ Closing \subseteq Rings
  BY <1>1, ToSetElements DEF Structure, Apart, Listed, Closing, Types, ListTypes
<1>10. Phase'
  BY <1>3, <1>8, <1>9 DEF Structure, Phase
<1> QED BY <1>1, <1>2, <1>6, <1>7, <1>10 DEF Structure

\* Carving a new one.
LEMMA AllocFreshStructure ==
  ASSUME Types, Structure, NEW t \in Threads, held[t] = None, AllocFresh(t),
         UNCHANGED <<registry, local, finalize, dpc, idx, cursor, cur>>
  PROVE  Structure' /\ PoolSize + fresh + 1 \in Unused
<1> DEFINE L == PoolSize + fresh + 1
<1>1. /\ L \in Rings /\ held' = [held EXCEPT ![t] = L] /\ fresh' = fresh + 1
      /\ ring' = ring /\ spares' = spares
  BY AllocFreshTypes DEF Types, AllocFresh
<1>2. fresh \in Nat /\ Rings \subseteq Nat /\ PoolSize \in Nat /\ L # None
  <2>1. fresh \in 0 .. FreshRings
    BY DEF Types, ListTypes
  <2> QED BY <1>1, <2>1, RingFacts
<1>3. L \in Unused /\ Unused' = Unused \ {L}
  <2>1. \A r \in Rings : r > PoolSize + (fresh + 1) <=> r > PoolSize + fresh /\ r # L
    BY <1>2
  <2>2. L > PoolSize + fresh
    BY <1>2
  <2> HIDE DEF L
  <2> QED BY <1>1, <2>1, <2>2 DEF Unused
<1>4. /\ LocalSet' = LocalSet /\ Registered' = Registered /\ Closing' = Closing
      /\ Parked' = Parked /\ Parting' = Parting /\ Listed' = Listed
  BY <1>1 DEF LocalSet, Registered, Closing, Parked, Parting, Listed, LocalRings
<1>5. Claimed' = Claimed \cup {L}
  BY <1>1, <1>2 DEF Claimed, Types, ThreadTypes
<1>6. L \notin Parked
  <2>1. Parked \subseteq 1 .. PoolSize
    BY ToSetElements DEF Types, ListTypes, Parked
  <2> QED BY <1>2, <2>1
<1>7. Apart'
  <2>1. /\ Listed' \cap Parked' = {} /\ (Listed' \cup Parked') \cap Claimed' = {}
        /\ (Listed' \cup Claimed') \cap Unused' = {}
    BY <1>3, <1>4, <1>5, <1>6 DEF Structure, Apart
  <2>2. \A u \in Threads : cur'[u] \notin Unused'
    BY <1>3 DEF Structure, Apart
  <2>3. \A u, w \in Threads : held'[u] = held'[w] /\ held'[u] # None => u = w
    <3>1. \A u \in Threads : held[u] # L
      BY <1>2, <1>3 DEF Structure, Apart, Claimed
    <3> QED BY <1>1, <3>1 DEF Structure, Apart, Types, ThreadTypes
  <2> QED BY <2>1, <2>2, <2>3 DEF Apart
<1>8. Lists'
  BY <1>1 DEF Structure, Lists, LocalRings
<1>9. Phase'
  BY <1>1, <1>4 DEF Structure, Phase
<1> QED BY <1>3, <1>7, <1>8, <1>9 DEF Structure

\* Registering the claimed segment.
LEMMA RegisterStructure ==
  ASSUME Types, Structure, NEW t \in Threads, RegisterRing(t)
  PROVE  Structure' /\ held[t] \in Claimed /\ Claimed' = Claimed \ {held[t]}
<1> DEFINE r == held[t]
<1>1. r \in Rings /\ r # None /\ r \in Claimed
  BY CurrentRing, RingFacts DEF Types, RegisterRing, Claimed
<1>2. r \notin Registered /\ ~Contains(registry, r)
  <2>1. r \notin Registered
    BY <1>1 DEF Structure, Apart, Listed
  <2> QED BY <2>1, ToSetElements DEF Registered, Types, ListTypes
<1>3. Registered' = Registered \cup {r} /\ Distinct(registry')
  <2>1. registry' = Append(registry, r)
    BY <1>2 DEF RegisterRing
  <2> QED BY <1>1, <1>2, <2>1, AppendDistinct
           DEF Registered, Types, ListTypes, Structure, Lists
<1>4. /\ LocalSet' = LocalSet /\ Closing' = Closing /\ Parked' = Parked
      /\ Parting' = Parting /\ Unused' = Unused /\ Listed' = Listed \cup {r}
  BY <1>3 DEF RegisterRing, drainVars, LocalSet, Closing, Parked, Parting, Listed,
              Unused, LocalRings
<1>5. held' = [held EXCEPT ![t] = None] /\ cur' = [cur EXCEPT ![t] = r]
  BY DEF RegisterRing
<1>6. Claimed' = Claimed \ {r}
  <2>1. \A u \in Threads : u # t => held[u] # r
    BY <1>1 DEF Structure, Apart
  <2> QED BY <1>1, <1>5, <2>1 DEF Claimed, Types, ThreadTypes
<1>7. Apart'
  <2>1. /\ Listed' \cap Parked' = {} /\ (Listed' \cup Parked') \cap Claimed' = {}
        /\ (Listed' \cup Claimed') \cap Unused' = {}
    BY <1>1, <1>4, <1>6 DEF Structure, Apart
  <2>2. \A u \in Threads : cur'[u] \notin Unused'
    BY <1>1, <1>4, <1>5 DEF Structure, Apart, Types, ThreadTypes
  <2>3. \A u, w \in Threads : held'[u] = held'[w] /\ held'[u] # None => u = w
    BY <1>5 DEF Structure, Apart, Types, ThreadTypes
  <2> QED BY <2>1, <2>2, <2>3 DEF Apart
<1>8. Lists'
  BY <1>3 DEF Structure, Lists, RegisterRing, drainVars, LocalRings
<1>9. \A q \in Rings : ring'[q].live = ring[q].live
  BY <1>1 DEF RegisterRing, Types, RingTypes, Segment
<1>10. Closing \subseteq Rings
  BY ToSetElements DEF Types, ListTypes, Closing
<1>11. Phase'
  <2>1. r \notin Closing /\ dpc' = dpc /\ finalize' = finalize /\ cursor' = cursor
        /\ idx' = idx /\ local' = local
    BY <1>1 DEF Structure, Apart, Listed, RegisterRing, drainVars
  <2>2. dpc = "recycle" => cursor.ring # r
    BY <1>1 DEF Structure, Apart, Listed, Parting
  <2> QED BY <1>3, <1>4, <1>9, <1>10, <2>1, <2>2 DEF Structure, Phase
<1> QED BY <1>1, <1>6, <1>7, <1>8, <1>11 DEF Structure

\* The steps of the threads keep the structure.
LEMMA ThreadStepStructure ==
  ASSUME Types, Structure, NEW t \in Threads, PlainThread(t)
  PROVE  Structure'
<1>1. tpc[t] # "register" => held[t] = None
  BY DEF Types, ThreadTypes
<1>2. tpc[t] \notin {"new", "register"} => cur[t] \in Rings /\ ring[cur[t]] \in Segment
  BY CurrentRing DEF Types, RingTypes
<1>3. CASE FirstRing(t)
  BY <1>1, <1>3, TakeSpareStructure, AllocFreshStructure DEF FirstRing, drainVars
<1>4. CASE Grow(t)
  BY <1>1, <1>4, AllocFreshStructure DEF Grow, drainVars
<1>5. CASE tpc[t] = "spare" /\ ClaimSpare(t)
  BY <1>1, <1>5, TakeSpareStructure DEF ClaimSpare, drainVars
<1>6. CASE RegisterRing(t)
  BY <1>6, RegisterStructure
<1>7. CASE BeginLog(t)
  BY <1>7, QuietStructure DEF BeginLog, drainVars, poolVars, listVars
<1>8. CASE Reserve(t)
  <2>1. \A r \in Rings : ring'[r].live = ring[r].live
    BY <1>2, <1>8 DEF Reserve, Types, RingTypes, Segment
  <2> QED BY <1>8, <2>1, QuietStructure DEF Reserve, drainVars, poolVars, listVars
<1>9. CASE Publish(t)
  <2>1. \A r \in Rings : ring'[r].live = ring[r].live
    BY <1>2, <1>9 DEF Publish, Types, RingTypes, Segment
  <2> QED BY <1>9, <2>1, QuietStructure DEF Publish, drainVars, poolVars, listVars
<1>10. CASE HandOff(t)
  <2>1. \A r \in Rings : ring'[r].live = ring[r].live
    BY <1>2, <1>10 DEF HandOff, Types, RingTypes, Segment
  <2> QED BY <1>10, <2>1, QuietStructure DEF HandOff, drainVars, poolVars, listVars
<1>11. CASE tpc[t] = "spare" /\ PoolEmpty(t)
  BY <1>11, QuietStructure DEF PoolEmpty, drainVars, poolVars, listVars
<1>12. CASE ThreadExit(t)
  <2>1. \A r \in Rings : ring'[r].live => ring[r].live
    BY <1>2, <1>12 DEF ThreadExit, Types, RingTypes, Segment
  <2> QED BY <1>12, <2>1, QuietStructure DEF ThreadExit, drainVars, poolVars, listVars
<1> QED BY <1>3, <1>4, <1>5, <1>6, <1>7, <1>8, <1>9, <1>10, <1>11, <1>12 DEF PlainThread

\* The drain and the guard: what is enough for the types, and for Apart.
LEMMA DrainTypesStep ==
  ASSUME Types, RingTypes', registry' \in Seq(Rings), finalize' \in Seq(Rings),
         local' \in Seq(Entries), spares' \in Seq(1 .. PoolSize),
         gpc' \in GPcs, dpc' \in DPcs, idx' \in Nat \ {0}, owed' \in [Threads -> Nat],
         cursor' \in [ring : Rings \cup {None}, tail : Nat, head : Nat],
         sink' \in [Threads -> Seq(Nat)],
         dpc' \in {"drain", "walk", "clear", "check", "retire", "recycle"}
           => cursor'.ring # None,
         UNCHANGED <<serials, fresh, lines, threadVars, shared>>
  PROVE  Types'
<1>1. ListTypes'
  BY DEF Types, ListTypes
<1>2. ThreadTypes'
  BY DEF Types, ThreadTypes, threadVars
<1>3. DrainTypes'
  BY DEF Types, DrainTypes
<1> QED BY <1>1, <1>2, <1>3 DEF Types

\* Shrinking the set of listed rings keeps the four sets apart.
LEMMA SmallerApart ==
  ASSUME Apart, Listed' \subseteq Listed, UNCHANGED <<spares, held, fresh, cur>>
  PROVE  Apart'
<1>1. Parked' = Parked /\ Claimed' = Claimed /\ Unused' = Unused
  BY DEF Parked, Claimed, Unused
<1> QED BY <1>1 DEF Apart

\* The sets of rings and their sequences.
LEMMA ListFacts ==
  ASSUME Types
  PROVE  /\ Registered \subseteq Rings /\ Closing \subseteq Rings /\ LocalSet \subseteq Rings
         /\ Parked \subseteq 1 .. PoolSize
         /\ finalize = <<>> <=> Closing = {}
         /\ finalize # <<>> => Head(finalize) \in Closing
         /\ Len(local) \in Nat
         /\ \A i \in 1 .. Len(local) : local[i] \in Entries /\ local[i].ring \in LocalSet
         /\ \A r : Contains(registry, r) <=> r \in Registered
         /\ \A r \in Rings : Keep(r) <=> ring[r].live
         /\ \A r \in Rings : Entry(r) \in Entries
<1>1. /\ Registered \subseteq Rings /\ Closing \subseteq Rings
      /\ finalize = <<>> <=> Closing = {}
      /\ \A r : Contains(registry, r) <=> r \in Registered
      /\ Parked \subseteq 1 .. PoolSize
  <2>1. /\ registry \in Seq(Rings) /\ finalize \in Seq(Rings)
        /\ spares \in Seq(1 .. PoolSize)
    BY DEF Types, ListTypes
  <2>2. Registered \subseteq Rings /\ \A r : Contains(registry, r) <=> r \in Registered
    BY <2>1, ToSetElements DEF Registered
  <2>3. Closing \subseteq Rings /\ (finalize = <<>> <=> Closing = {})
    BY <2>1, ToSetElements DEF Closing
  <2>4. Parked \subseteq 1 .. PoolSize
    BY <2>1, ToSetElements DEF Parked
  <2> QED BY <2>2, <2>3, <2>4
<1>2. /\ Len(local) \in Nat /\ \A i \in 1 .. Len(local) : local[i] \in Entries
      /\ LocalSet \subseteq Rings
      /\ \A i \in 1 .. Len(local) : local[i].ring \in LocalSet
  BY RingsOfEntries, ToSetElements DEF Types, ListTypes, LocalSet
<1>3. finalize # <<>> => Head(finalize) \in Closing
  <2>1. finalize \in Seq(Rings)
    BY DEF Types, ListTypes
  <2>2. finalize # <<>> => 1 \in 1 .. Len(finalize) /\ Head(finalize) = finalize[1]
    BY <2>1
  <2> QED BY <2>1, <2>2, ToSetElements DEF Closing
<1>4. /\ \A r \in Rings : Keep(r) <=> ring[r].live
      /\ \A r \in Rings : Entry(r) \in Entries
  BY DEF Types, RingTypes, Segment, Keep, Entry, Entries
<1> QED BY <1>1, <1>2, <1>3, <1>4

\* The guard's walk, its stop request and its return keep the lists in order:
\* the walk only clears live flags.
LEMMA GuardStep ==
  ASSUME Types, Structure, Guard
  PROVE  Types' /\ Structure'
<1>1. CASE GuardWalk
  <2>1. \A seg \in Segment, b \in BOOLEAN : [seg EXCEPT !.live = b] \in Segment
    BY DEF Segment
  <2>2. \A r \in Rings : ring[r] \in Segment /\ (ring[r].live /\ ~Contains(registry, r)) \in BOOLEAN
    BY DEF Types, RingTypes
  <2>3. RingTypes'
    BY <1>1, <2>1, <2>2 DEF GuardWalk, RingTypes
  <2>4. \A r \in Rings : ring'[r].live => ring[r].live
    BY <1>1, <2>2 DEF GuardWalk, Segment
  <2>5. UNCHANGED <<listVars, held, cur>>
    BY <1>1 DEF GuardWalk, listVars, threadVars, drainVars, poolVars
  <2>6. Types'
    BY <1>1, <2>3, DrainTypesStep
    DEF GuardWalk, Types, ListTypes, DrainTypes, ThreadTypes, GPcs, drainVars, poolVars
  <2> QED BY <2>4, <2>5, <2>6, QuietStructure
<1>2. CASE GuardSignal \/ GuardJoin
  <2>1. UNCHANGED <<listVars, held, cur, ring>>
    BY <1>2 DEF GuardSignal, GuardJoin, listVars, threadVars, drainVars, poolVars
  <2>2. Types'
    BY <1>2, DrainTypesStep
    DEF GuardSignal, GuardJoin, Types, RingTypes, ListTypes, DrainTypes, GPcs, drainVars,
        poolVars, history
  <2> QED BY <2>1, <2>2, QuietStructure
<1> QED BY <1>1, <1>2 DEF Guard

\* sync_rings.
LEMMA SyncStep ==
  ASSUME Types, Structure, SyncFilter \/ SyncReconcile \/ SyncRetain
  PROVE  Types' /\ Structure'
<1>1. CASE SyncFilter
  <2> DEFINE gone == {r \in Rings : ~Keep(r)}
             a == Filter(registry, gone)
             b == Filter(LocalRings(local), gone \ Registered)
  <2>1. registry \in Seq(Rings) /\ LocalRings(local) \in Seq(Rings)
    BY RingsOfEntries DEF Types, ListTypes
  <2>2. a \in Seq(Rings) /\ ToSet(a) = Registered \cap gone /\ Distinct(a)
    BY <2>1, FilterDistinct DEF Registered, Structure, Lists
  <2>3. b \in Seq(Rings) /\ ToSet(b) = LocalSet \cap (gone \ Registered) /\ Distinct(b)
    BY <2>1, FilterDistinct DEF LocalSet, Structure, Lists
  <2>4. finalize' = a \o b
    BY <1>1 DEF SyncFilter, Registered
  <2> HIDE DEF a, b
  <2>5. /\ finalize' \in Seq(Rings) /\ Distinct(finalize')
        /\ Closing' = (Registered \cup LocalSet) \cap gone
    BY <2>2, <2>3, <2>4, ConcatDistinct DEF Closing
  <2>6. Types'
    BY <1>1, <2>5, DrainTypesStep
    DEF SyncFilter, Types, RingTypes, ListTypes, DrainTypes, DPcs, others, poolVars, guardVars, history
  <2>7. Registered' = Registered /\ LocalSet' = LocalSet /\ Parting' = {} /\ Parting = {}
    BY <1>1 DEF SyncFilter, Registered, LocalSet, LocalRings, Parting
  <2>8. Lists'
    BY <1>1, <2>5 DEF SyncFilter, Structure, Lists, LocalRings, others, poolVars
  <2>9. Apart'
    BY <1>1, <2>5, <2>7, SmallerApart
    DEF SyncFilter, Structure, Listed, others, poolVars, threadVars
  <2>10. \A r \in Closing' : ~ring'[r].live
    BY <1>1, <2>5, ListFacts DEF SyncFilter
  <2>11. Phase'
    BY <1>1, <2>10 DEF SyncFilter, Phase
  <2> QED BY <2>6, <2>8, <2>9, <2>11 DEF Structure
<1>2. CASE SyncReconcile
  <2>1. /\ local' \in Seq(Entries) /\ Distinct(LocalRings(local'))
        /\ LocalSet' = {r \in Registered : Keep(r)}
    BY <1>2, ListFacts, SyncedList DEF Types, ListTypes, Structure, Lists, Registered, LocalSet
  <2>2. Types'
    BY <1>2, <2>1, DrainTypesStep
    DEF SyncReconcile, Types, RingTypes, ListTypes, DrainTypes, DPcs, others, poolVars, guardVars, history
  <2>3. /\ Registered' = Registered /\ Closing' = Closing /\ Parting' = {} /\ Parting = {}
        /\ ring' = ring /\ dpc' = "retain"
    BY <1>2 DEF SyncReconcile, Registered, Closing, Parting
  <2>4. Lists'
    BY <1>2, <2>1 DEF SyncReconcile, Structure, Lists, others, poolVars
  <2>5. Apart'
    BY <1>2, <2>1, <2>3, SmallerApart
    DEF SyncReconcile, Structure, Listed, others, poolVars, threadVars
  <2>6. Closing' \cap LocalSet' = {}
    BY <2>1, <2>3, ListFacts DEF Structure, Phase
  <2>7. Phase'
    BY <2>3, <2>6 DEF Structure, Phase
  <2> QED BY <2>2, <2>4, <2>5, <2>7 DEF Structure
<1>3. CASE SyncRetain
  <2>1. /\ registry' \in Seq(Rings) /\ Distinct(registry')
        /\ Registered' = Registered \cap {r \in Rings : Keep(r)}
    BY <1>3, FilterDistinct DEF SyncRetain, Registered, Types, ListTypes, Structure, Lists
  <2>2. Types'
    BY <1>3, <2>1, DrainTypesStep
    DEF SyncRetain, Types, RingTypes, ListTypes, DrainTypes, DPcs, others, poolVars, guardVars, history
  <2>3. /\ LocalSet' = LocalSet /\ Closing' = Closing /\ Parting' = {} /\ Parting = {}
        /\ ring' = ring /\ dpc = "retain" /\ dpc' = "finalize"
    BY <1>3 DEF SyncRetain, LocalSet, LocalRings, Closing, Parting
  <2>4. Lists'
    BY <1>3, <2>1 DEF SyncRetain, Structure, Lists, others, poolVars, LocalRings
  <2>5. Apart'
    BY <1>3, <2>1, <2>3, SmallerApart
    DEF SyncRetain, Structure, Listed, others, poolVars, threadVars
  <2>6. Closing' \cap (Registered' \cup LocalSet') = {}
    BY <2>1, <2>3, ListFacts DEF Structure, Phase
  <2>7. Phase'
    BY <2>3, <2>6 DEF Structure, Phase
  <2> QED BY <2>2, <2>4, <2>5, <2>7 DEF Structure
<1> QED BY <1>1, <1>2, <1>3

\* The steps of the drain that leave every list alone.
QuietDrain ==
  \/ Top \/ Finalize \/ PollEntry \/ DrainRing \/ Deliver \/ StoreTail
  \/ ClearDraining \/ RetireCheck \/ TakeLines

\* The ring of the pass in progress, and the values it works on.
LEMMA CursorFacts ==
  ASSUME Types
  PROVE  /\ dpc \in {"drain", "walk", "clear", "check", "retire", "recycle"} =>
              cursor.ring \in Rings /\ ring[cursor.ring] \in Segment
         /\ cursor = [ring |-> cursor.ring, tail |-> cursor.tail, head |-> cursor.head]
         /\ cursor.tail \in Nat /\ cursor.head \in Nat /\ cursor.ring \in Rings \cup {None}
         /\ \A r \in Rings : PassHead(ring[r]) \in Nat /\ ring[r].tail \in Nat
  BY DEF Types, RingTypes, DrainTypes, Segment, PassHead

\* What they do to the rings: no field sync_rings or the pool looks at.
LEMMA QuietDrainRings ==
  ASSUME Types, QuietDrain
  PROVE  /\ RingTypes'
         /\ \A r \in Rings : /\ ring'[r].live = ring[r].live
                             /\ ring'[r].handed_off = ring[r].handed_off
<1>1. \A seg \in Segment, b \in BOOLEAN, m, n \in Nat :
        /\ [seg EXCEPT !.draining = b] \in Segment
        /\ [seg EXCEPT !.tail = m, !.head_cache = n] \in Segment
  BY DEF Segment
<1>2. CASE ring' = ring
  BY <1>2 DEF Types, RingTypes
<1>3. ASSUME NEW r \in Rings, NEW seg \in Segment, ring' = [ring EXCEPT ![r] = seg],
             seg.live = ring[r].live, seg.handed_off = ring[r].handed_off
      PROVE  /\ RingTypes'
             /\ \A q \in Rings : /\ ring'[q].live = ring[q].live
                                 /\ ring'[q].handed_off = ring[q].handed_off
  BY <1>3 DEF Types, RingTypes
<1>4. CASE DrainRing \/ ClearDraining
  <2> DEFINE r == cursor.ring
  <2>1. r \in Rings /\ ring[r] \in Segment
    BY <1>4, CursorFacts DEF DrainRing, ClearDraining
  <2>2. PICK b \in BOOLEAN : ring' = [ring EXCEPT ![r] = [ring[r] EXCEPT !.draining = b]]
    BY <1>4 DEF DrainRing, ClearDraining
  <2>3. /\ [ring[r] EXCEPT !.draining = b].live = ring[r].live
        /\ [ring[r] EXCEPT !.draining = b].handed_off = ring[r].handed_off
    BY <2>1 DEF Segment
  <2> QED BY <1>1, <1>3, <2>1, <2>2, <2>3
<1>5. CASE StoreTail
  <2> DEFINE r == cursor.ring
             seg == [ring[r] EXCEPT !.tail = cursor.tail, !.head_cache = cursor.head]
  <2>1. r \in Rings /\ ring[r] \in Segment /\ cursor.tail \in Nat /\ cursor.head \in Nat
    BY <1>5, CursorFacts DEF StoreTail
  <2>2. ring' = [ring EXCEPT ![r] = seg]
    BY <1>5, <2>1 DEF StoreTail, Types, RingTypes
  <2>3. seg \in Segment
    BY <1>1, <2>1
  <2>4. seg.live = ring[r].live /\ seg.handed_off = ring[r].handed_off
    BY <2>1 DEF Segment
  <2> QED BY <1>3, <2>1, <2>2, <2>3, <2>4
<1> QED BY <1>2, <1>4, <1>5
     DEF QuietDrain, Top, Finalize, PollEntry, Deliver, RetireCheck, TakeLines

\* Without a helper there are no lines to take.
LEMMA NoLines ==
  ASSUME Types, TakeLines
  PROVE  sink' = sink /\ lines' = lines
<1>1. lines = <<>> /\ lines' = <<>>
  BY DEF Types, ListTypes, TakeLines
<1>2. ASSUME NEW t \in Threads PROVE Filter(lines, {t} \X Nat) = <<>>
  <2>1. <<>> \in Seq(Record)
    OBVIOUS
  <2>2. /\ Filter(<<>>, {t} \X Nat) \in Seq(Record)
        /\ ToSet(Filter(<<>>, {t} \X Nat)) = ToSet(<<>>) \cap ({t} \X Nat)
    BY <2>1, FilterDistinct
  <2>3. ToSet(<<>>) = {}
    BY <2>1, ToSetElements
  <2> QED BY <1>1, <2>2, <2>3, ToSetElements
<1>3. \A t \in Threads : sink[t] \in Seq(Nat)
  BY DEF Types, DrainTypes
<1>4. \A t \in Threads : sink'[t] = sink[t]
  <2> TAKE t \in Threads
  <2> DEFINE mine == Filter(lines, {t} \X Nat)
  <2>1. sink'[t] = sink[t] \o [i \in DOMAIN mine |-> mine[i][2]]
    BY DEF TakeLines
  <2>2. [i \in DOMAIN mine |-> mine[i][2]] = <<>>
    BY <1>2
  <2> HIDE DEF mine
  <2> QED BY <1>3, <2>1, <2>2
<1>5. DOMAIN sink' = Threads /\ DOMAIN sink = Threads
  BY DEF TakeLines, Types, DrainTypes
<1>6. sink' = [t \in Threads |-> sink'[t]] /\ sink = [t \in Threads |-> sink[t]]
  BY DEF TakeLines, Types, DrainTypes
<1> QED BY <1>1, <1>4, <1>6

\* A record of the ring being walked reaches the sink.
LEMMA DeliverTypes ==
  ASSUME Types, Deliver
  PROVE  sink' \in [Threads -> Seq(Nat)]
<1> DEFINE rec == SlotAt(ring[cursor.ring], cursor.tail)
<1>1. cursor.ring \in Rings /\ ring[cursor.ring] \in Segment /\ cursor.tail \in Nat
  BY CursorFacts DEF Deliver
<1>2. cursor.tail % Slots \in 0 .. Slots - 1
  BY <1>1, RingFacts
<1>3. rec \in Record
  BY <1>1, <1>2 DEF Segment, SlotAt, Deliver
<1> HIDE DEF rec
<1>4. rec[1] \in Threads /\ rec[2] \in Nat
  BY <1>3 DEF Record
<1>5. sink' = [sink EXCEPT ![rec[1]] = Append(sink[rec[1]], rec[2])]
  BY DEF Deliver, rec
<1>6. sink \in [Threads -> Seq(Nat)]
  BY DEF Types, DrainTypes
<1>7. Append(sink[rec[1]], rec[2]) \in Seq(Nat)
  BY <1>4, <1>6
<1> QED BY <1>4, <1>5, <1>6, <1>7

\* A step of the drain that moves no list keeps the types.
LEMMA QuietDrainTypes ==
  ASSUME Types, Structure, QuietDrain
  PROVE  Types'
<1>1. /\ registry' = registry /\ finalize' = finalize /\ local' = local /\ spares' = spares
      /\ gpc' = gpc /\ owed' = owed /\ lines' = lines
      /\ UNCHANGED <<serials, fresh, threadVars, shared>>
  BY NoLines
  DEF QuietDrain, Top, Finalize, PollEntry, DrainRing, Deliver, StoreTail, ClearDraining,
      RetireCheck, TakeLines, others, poolVars, guardVars, history
<1>2. sink' \in [Threads -> Seq(Nat)]
  <2>1. CASE sink' = sink
    BY <2>1 DEF Types, DrainTypes
  <2> QED BY <2>1, NoLines, DeliverTypes
      DEF QuietDrain, Top, Finalize, PollEntry, DrainRing, Deliver, StoreTail,
          ClearDraining, RetireCheck, TakeLines
<1>3. dpc' \in DPcs
  BY DEF QuietDrain, Top, Finalize, PollEntry, DrainRing, Deliver, StoreTail, ClearDraining,
         RetireCheck, TakeLines, DPcs, Types, DrainTypes
<1>4. idx' \in Nat \ {0}
  <2>1. idx' \in {idx, idx + 1, 1}
    BY DEF QuietDrain, Top, Finalize, PollEntry, DrainRing, Deliver, StoreTail, ClearDraining,
           RetireCheck, TakeLines
  <2>2. idx \in Nat \ {0}
    BY DEF Types, DrainTypes
  <2> QED BY <2>1, <2>2
<1> DEFINE Pass == [ring : Rings \cup {None}, tail : Nat, head : Nat]
           Busy == {"drain", "walk", "clear", "check", "retire", "recycle"}
<1>5. cursor' \in Pass /\ (dpc' \in Busy => cursor'.ring # None)
  <2>1. cursor \in Pass /\ (dpc \in Busy => cursor.ring # None)
    BY DEF Types, DrainTypes
  <2>2. CASE Top \/ StoreTail \/ ClearDraining \/ RetireCheck
    BY <2>1, <2>2 DEF Top, StoreTail, ClearDraining, RetireCheck
  <2>3. ASSUME NEW r \in Rings, cursor' = [cursor EXCEPT !.ring = r] PROVE cursor' \in Pass /\ cursor'.ring # None
    BY <2>1, <2>3, RingFacts
  <2>4. CASE Finalize
    <3>1. finalize # <<>> => Head(finalize) \in Rings
      BY ListFacts
    <3> QED BY <2>1, <2>3, <2>4, <3>1 DEF Finalize
  <2>5. CASE PollEntry
    <3>1. idx \in 1 .. Len(local)
      BY <2>5, ListFacts DEF PollEntry, Types, DrainTypes
    <3>2. local[idx].ring \in Rings
      BY <3>1, ListFacts
    <3> QED BY <2>1, <2>3, <2>5, <3>2 DEF PollEntry
  <2>6. CASE DrainRing
    BY <2>1, <2>6, CursorFacts DEF DrainRing
  <2>7. CASE Deliver
    BY <2>1, <2>7, CursorFacts DEF Deliver
  <2>8. CASE TakeLines
    BY <2>8 DEF TakeLines
  <2> QED BY <2>2, <2>4, <2>5, <2>6, <2>7, <2>8 DEF QuietDrain
<1> QED BY <1>1, <1>2, <1>3, <1>4, <1>5, QuietDrainRings, DrainTypesStep
     DEF Types, ListTypes, DrainTypes

\* A step of the drain that moves no list keeps the structure; finding nothing
\* left to drain is what lets it finish.
LEMMA QuietDrainStructure ==
  ASSUME Types, Structure, QuietDrain
  PROVE  Structure'
<1>1. UNCHANGED <<registry, finalize, local, spares, fresh, held, cur>>
  BY DEF QuietDrain, Top, Finalize, PollEntry, DrainRing, Deliver, StoreTail, ClearDraining,
         RetireCheck, TakeLines, others, poolVars, threadVars
<1>2. /\ LocalSet' = LocalSet /\ Registered' = Registered /\ Closing' = Closing
  BY <1>1 DEF LocalSet, Registered, Closing, LocalRings
<1>3. Lists'
  BY <1>1 DEF Structure, Lists, LocalRings
<1>4. \A r \in Closing' : ~ring'[r].live
  BY <1>2, QuietDrainRings, ListFacts DEF Structure, Phase
<1>5. CASE Top \/ TakeLines
  <2>1. finalize = <<>> /\ dpc' \notin {"reconcile", "retain", "finalize", "drain", "walk",
                                        "clear", "check", "retire", "recycle"}
    BY <1>5 DEF Top, TakeLines, Structure, Phase
  <2>2. Phase'
    BY <1>1, <1>4, <2>1 DEF Phase
  <2>3. Listed' \subseteq Listed
    BY <1>2, <2>1 DEF Listed, Parting
  <2> QED BY <1>1, <1>3, <2>2, <2>3, SmallerApart DEF Structure
<1>6. CASE Finalize
  <2>1. Phase'
    BY <1>1, <1>2, <1>4, <1>6, CursorFacts DEF Finalize, Structure, Phase
  <2>2. Listed' \subseteq Listed
    BY <1>2, <1>6 DEF Finalize, Listed, Parting
  <2> QED BY <1>1, <1>3, <2>1, <2>2, SmallerApart DEF Structure
<1>7. CASE PollEntry
  <2>0. finalize = <<>>
    BY <1>7 DEF PollEntry, Structure, Phase
  <2>1. Phase'
    BY <1>1, <1>2, <1>4, <1>7, <2>0, CursorFacts, ListFacts DEF PollEntry, Phase
  <2>2. Listed' \subseteq Listed
    BY <1>2, <1>7 DEF PollEntry, Listed, Parting
  <2> QED BY <1>1, <1>3, <2>1, <2>2, SmallerApart DEF Structure
<1>8. CASE DrainRing \/ Deliver \/ StoreTail
  <2>1. /\ cursor'.ring = cursor.ring /\ idx' = idx /\ dpc' \in {"walk", "clear"}
        /\ dpc \in {"drain", "walk"}
    <3>1. CASE DrainRing
      BY <3>1 DEF DrainRing
    <3>2. CASE Deliver
      <4>1. dpc = "walk" /\ dpc' = dpc /\ idx' = idx /\ cursor' = [cursor EXCEPT !.tail = @ + 1]
        BY <3>2 DEF Deliver
      <4> QED BY <4>1, CursorFacts
    <3>3. CASE StoreTail
      BY <3>3 DEF StoreTail
    <3> QED BY <1>8, <3>1, <3>2, <3>3
  <2>2. Phase'
    BY <1>1, <1>2, <1>4, <2>1 DEF Structure, Phase
  <2>3. Listed' \subseteq Listed
    BY <1>2, <2>1 DEF Listed, Parting
  <2> QED BY <1>1, <1>3, <2>2, <2>3, SmallerApart DEF Structure
<1>9. CASE ClearDraining
  <2>1. /\ cursor' = cursor /\ idx' = idx /\ dpc = "clear"
        /\ IF finalize # <<>> THEN dpc' = "recycle" ELSE dpc' = "check"
    BY <1>9 DEF ClearDraining, InFinalize
  <2>2. Phase'
    BY <1>1, <1>2, <1>4, <2>1 DEF Structure, Phase
  <2>3. dpc' = "recycle" => cursor'.ring \in Closing
    BY <2>1, ListFacts DEF Structure, Phase
  <2>4. Listed' \subseteq Listed
    BY <1>2, <2>1, <2>3 DEF Listed, Parting
  <2> QED BY <1>1, <1>3, <2>2, <2>4, SmallerApart DEF Structure
<1>10. CASE RetireCheck
  <2>1. /\ cursor' = cursor /\ dpc = "check" /\ (dpc' = "poll" \/ (dpc' = "retire" /\ idx' = idx))
        /\ finalize = <<>>
    BY <1>10 DEF RetireCheck, Structure, Phase
  <2>2. Phase'
    BY <1>1, <1>2, <1>4, <2>1 DEF Structure, Phase
  <2>3. Listed' \subseteq Listed
    BY <1>2, <2>1 DEF Listed, Parting
  <2> QED BY <1>1, <1>3, <2>2, <2>3, SmallerApart DEF Structure
<1> QED BY <1>5, <1>6, <1>7, <1>8, <1>9, <1>10 DEF QuietDrain

\* maybe_retire under the lock.
LEMMA RetireStep ==
  ASSUME Types, Structure, Retire
  PROVE  /\ Types' /\ Structure'
         /\ dpc' = "recycle" => /\ cursor' = cursor /\ cursor.ring \in LocalSet
                                /\ finalize' = <<>>
<1> DEFINE e == local[idx]
           r == e.ring
           ok == ring[r].serial = e.serial /\ Contains(registry, r)
<1>1. /\ dpc = "retire" /\ finalize = <<>> /\ idx \in 1 .. Len(local) /\ cursor.ring = r
  BY ListFacts DEF Retire, Structure, Phase, Types, DrainTypes
<1>2. r \in LocalSet /\ r \in Rings
  BY <1>1, ListFacts
<1>3. UNCHANGED <<ring, finalize, cursor, spares, fresh, held, cur>>
  BY DEF Retire, others, poolVars, threadVars
<1>4. /\ local' \in Seq(Entries) /\ Distinct(LocalRings(local'))
      /\ LocalSet' = IF ok THEN LocalSet \ {r} ELSE LocalSet
  <2>1. CASE ok
    BY <1>1, <2>1, SwapRemoveDistinct DEF Retire, Types, ListTypes, Structure, Lists, LocalSet
  <2>2. CASE ~ok
    BY <2>2 DEF Retire, Types, ListTypes, Structure, Lists, LocalSet, LocalRings
  <2> QED BY <2>1, <2>2
<1>5. /\ registry' \in Seq(Rings) /\ Distinct(registry')
      /\ Registered' = IF ok THEN Registered \ {r} ELSE Registered
  <2>1. CASE ok
    <3>1. registry' = Filter(registry, Rings \ {r})
      BY <2>1 DEF Retire
    <3>2. /\ registry' \in Seq(Rings) /\ Distinct(registry')
          /\ Registered' = Registered \cap (Rings \ {r})
      BY <3>1, FilterDistinct DEF Types, ListTypes, Structure, Lists, Registered
    <3> QED BY <2>1, <3>2, ListFacts
  <2>2. CASE ~ok
    BY <2>2 DEF Retire, Types, ListTypes, Structure, Lists, Registered
  <2> QED BY <2>1, <2>2
<1>6. /\ dpc' = IF ok THEN "recycle" ELSE "poll"
      /\ idx' = IF ok THEN idx ELSE idx + 1
  BY DEF Retire
<1>7. idx' \in Nat \ {0} /\ dpc' \in DPcs /\ cursor.ring # None
  BY <1>1, <1>2, <1>6, RingFacts DEF DPcs, Types, DrainTypes
<1>8. Types'
  BY <1>3, <1>4, <1>5, <1>7, DrainTypesStep
  DEF Retire, Types, RingTypes, ListTypes, DrainTypes, others, poolVars, guardVars, history
<1> HIDE DEF e, r, ok
<1>9. Closing = {} /\ Closing' = {}
  BY <1>1, <1>3, ListFacts DEF Closing
<1>10. Parting' \subseteq {r} /\ Listed' \subseteq Listed
  BY <1>1, <1>2, <1>3, <1>4, <1>5, <1>6, <1>9 DEF Listed, Parting
<1>11. Phase'
  BY <1>1, <1>3, <1>4, <1>5, <1>6, <1>9 DEF Phase
<1>12. Lists'
  BY <1>3, <1>4, <1>5 DEF Structure, Lists
<1> QED BY <1>1, <1>2, <1>3, <1>6, <1>8, <1>10, <1>11, <1>12, SmallerApart DEF Structure

\* drain_recycle.
LEMMA RecycleStep ==
  ASSUME Types, Structure, DrainRecycle
  PROVE  /\ Types' /\ Structure' /\ tpc' = tpc /\ Parked' \subseteq Parked \cup {cursor.ring}
         /\ \A q \in Rings : /\ ring'[q].live = ring[q].live
                             /\ ring'[q].handed_off = ring[q].handed_off
<1> DEFINE r == cursor.ring
           ok == Recyclable(r) /\ ~ring[r].recycled
<1>1. dpc = "recycle" /\ r \in Rings /\ ring[r] \in Segment /\ r \in Parting
  BY CursorFacts DEF DrainRecycle, Parting
<1>2. tpc' = tpc
  <2>1. tpc = [t \in Threads |-> tpc[t]] /\ \A t \in Threads : tpc[t] # "wait"
    BY DEF Types, ThreadTypes, TPcs
  <2> QED BY <2>1 DEF DrainRecycle, Notified
<1>3. UNCHANGED <<registry, local, cursor, idx, fresh, held, cur>>
  BY DEF DrainRecycle
<1>4. ring' = [ring EXCEPT ![r] = [ring[r] EXCEPT !.recycled = @ \/ Recyclable(r)]]
  BY DEF DrainRecycle
<1>5. RingTypes'
  <2>1. \A seg \in Segment, b \in BOOLEAN : [seg EXCEPT !.recycled = b] \in Segment
    BY DEF Segment
  <2>2. (ring[r].recycled \/ Recyclable(r)) \in BOOLEAN
    OBVIOUS
  <2> QED BY <1>1, <1>4, <2>1, <2>2 DEF Types, RingTypes
<1>6. \A q \in Rings : /\ ring'[q].live = ring[q].live
                       /\ ring'[q].handed_off = ring[q].handed_off
  BY <1>1, <1>4 DEF Types, RingTypes, Segment
<1>7. r \notin Parked
  BY <1>1 DEF Structure, Apart, Listed
<1>8. /\ spares' \in Seq(1 .. PoolSize) /\ Distinct(spares')
      /\ Parked' = IF ok THEN Parked \cup {r} ELSE Parked
  <2>1. CASE ok
    <3>1. r \in 1 .. PoolSize /\ spares' = Append(spares, r)
      BY <1>1, <2>1, RingFacts DEF DrainRecycle, Recyclable, Rings
    <3>2. spares \in Seq(1 .. PoolSize) /\ Distinct(spares) /\ r \notin ToSet(spares)
      BY <1>7 DEF Types, ListTypes, Structure, Lists, Parked
    <3>3. /\ spares' \in Seq(1 .. PoolSize) /\ Distinct(spares')
          /\ ToSet(spares') = ToSet(spares) \cup {r}
      <4> DEFINE S == 1 .. PoolSize
      <4>1. spares \in Seq(S) /\ r \in S /\ spares' = Append(spares, r)
        BY <3>1, <3>2
      <4> HIDE DEF r, S
      <4>2. /\ spares' \in Seq(S) /\ Distinct(spares')
            /\ ToSet(spares') = ToSet(spares) \cup {r}
        BY <3>2, <4>1, AppendDistinct
      <4> QED BY <4>2 DEF S
    <3> QED BY <2>1, <3>3 DEF Parked
  <2>2. CASE ~ok
    BY <2>2 DEF DrainRecycle, Types, ListTypes, Structure, Lists, Parked
  <2> QED BY <2>1, <2>2
<1> HIDE DEF ok
<1>9. /\ finalize' \in Seq(Rings) /\ Distinct(finalize') /\ Closing' = Closing \ {r}
      /\ dpc' = IF finalize # <<>> THEN "finalize" ELSE "poll"
      /\ finalize = <<>> => finalize' = <<>>
  <2>1. finalize \in Seq(Rings) /\ Distinct(finalize)
    BY DEF Types, ListTypes, Structure, Lists
  <2>2. CASE finalize # <<>>
    <3>1. finalize' = Tail(finalize) /\ r = Head(finalize) /\ dpc' = "finalize"
      BY <1>1, <2>2 DEF DrainRecycle, InFinalize, Structure, Phase
    <3> QED BY <2>1, <2>2, <3>1, TailDistinct DEF Closing
  <2>3. CASE finalize = <<>>
    <3>1. finalize' = finalize /\ dpc' = "poll" /\ Closing = {}
      BY <2>3, ListFacts DEF DrainRecycle, InFinalize
    <3> QED BY <2>1, <2>3, <3>1 DEF Closing
  <2> QED BY <2>2, <2>3
<1>10. /\ LocalSet' = LocalSet /\ Registered' = Registered /\ Claimed' = Claimed
       /\ Unused' = Unused /\ Parting' = {}
  BY <1>3, <1>9 DEF LocalSet, Registered, Claimed, Unused, Parting, LocalRings
<1>11. r \notin Registered \cup LocalSet
  BY <1>1, ListFacts DEF Structure, Phase
<1>12. Listed' = Listed \ {r}
  BY <1>1, <1>9, <1>10, <1>11 DEF Listed, Parting
<1>13. Apart'
  BY <1>1, <1>3, <1>8, <1>10, <1>12 DEF Structure, Apart, Listed
<1>14. Lists'
  BY <1>3, <1>8, <1>9 DEF Structure, Lists, LocalRings
<1>15. Phase'
  <2>1. \A q \in Closing' : ~ring'[q].live
    BY <1>6, <1>9, ListFacts DEF Structure, Phase
  <2>2. finalize # <<>> => Closing' \cap (Registered' \cup LocalSet') = {}
    BY <1>1, <1>9, <1>10 DEF Structure, Phase
  <2> QED BY <1>9, <2>1, <2>2 DEF Phase
<1>16. Types'
  <2>1. UNCHANGED threadVars
    BY <1>2 DEF DrainRecycle, threadVars
  <2> QED BY <1>3, <1>5, <1>8, <1>9, <2>1, DrainTypesStep
      DEF DrainRecycle, Types, ListTypes, DrainTypes, DPcs, guardVars, history
<1> QED BY <1>2, <1>6, <1>8, <1>13, <1>14, <1>15, <1>16 DEF Structure

\* The steps of the drain.
LEMMA DrainStep ==
  ASSUME Types, Structure, Drain
  PROVE  Types' /\ Structure'
<1>1. CASE QuietDrain
  BY <1>1, QuietDrainTypes, QuietDrainStructure
<1>2. CASE ~QuietDrain
  BY <1>2, SyncStep, RetireStep, RecycleStep DEF Drain, QuietDrain
<1> QED BY <1>1, <1>2

\* Every step that is not a helper's keeps the types and the structure.
LEMMA StructureStep ==
  ASSUME Types, Structure, ~helped, [Next]_vars, ~helped'
  PROVE  Types' /\ Structure'
<1>1. CASE UNCHANGED vars
  <2>1. UNCHANGED <<listVars, held, cur, ring>>
    BY <1>1 DEF vars, listVars, poolVars, threadVars, drainVars
  <2>2. Types'
    BY <1>1 DEF vars, poolVars, threadVars, drainVars, guardVars, history, Types, RingTypes,
                ListTypes, ThreadTypes, DrainTypes
  <2> QED BY <2>1, <2>2, QuietStructure
<1> QED BY <1>1, PlainSteps, ThreadStepTypes, ThreadStepStructure, GuardStep, DrainStep DEF Types
-----------------------------------------------------------------------------
(* The pool while the guard is held.                                        *)

\* The segment a thread writes to is live and not handed off, and is nobody
\* else's.
Writers ==
  /\ \A t \in Threads : Writing(t) =>
       /\ ring[cur[t]].live /\ ~ring[cur[t]].handed_off
       /\ cur[t] \notin Claimed \cup Parked
  /\ \A t, u \in Threads : Writing(t) /\ Writing(u) /\ cur[t] = cur[u] => t = u

\* What retire is about to take off the lists, and drain_recycle to park, has
\* been handed off, or is dead (Phase).
Pool ==
  /\ Writers
  /\ \A r \in Claimed \cup Unused : ring[r].live /\ ~ring[r].handed_off
  /\ dpc = "retire" \/ (dpc = "recycle" /\ finalize = <<>>) => ring[cursor.ring].handed_off
  /\ shared = {}

PoolInv == ~helped => Types /\ Structure /\ (gpc = "held" => Pool)

\* Before the first log call no thread owns a segment.
LEMMA InitPool ==
  ASSUME Init
  PROVE  PoolInv
<1>1. Writers
  BY DEF Init, Writers, Writing
<1>2. \A r \in Rings : ring[r].live /\ ~ring[r].handed_off
  BY DEF Init, NewSegment
<1>3. Claimed = {} /\ Unused \subseteq Rings
  BY DEF Init, Claimed, Unused
<1>4. Pool
  BY <1>1, <1>2, <1>3 DEF Init, Pool
<1> QED BY <1>4, InitTypes, InitStructure DEF PoolInv

\* A claimed segment is nobody's.
LEMMA TakeSparePool ==
  ASSUME Types, Structure, Pool, NEW t \in Threads, held[t] = None, ~Writing(t), TakeSpare(t),
         Goto(t, "register"), UNCHANGED <<finalize, dpc, cursor, cur>>
  PROVE  Pool'
<1> DEFINE L == Last(spares)
<1>1. L \in Rings /\ L # None /\ held' = [held EXCEPT ![t] = L] /\ fresh' = fresh
  BY TakeSpareTypes, RingFacts DEF Types
<1>2. L \in Parked /\ Parked' \subseteq Parked
  BY FrontDistinct DEF Types, ListTypes, Structure, Lists, TakeSpare, Parked
<1>3. Claimed' = Claimed \cup {L} /\ Unused' = Unused /\ Unused \subseteq Rings
  BY <1>1 DEF Claimed, Unused, Types, ThreadTypes
<1>4. /\ \A r \in Rings : r # L => ring'[r] = ring[r]
      /\ ring'[L].live /\ ~ring'[L].handed_off
  BY <1>1 DEF TakeSpare, Types, RingTypes, Reset, Segment
<1>5. \A u \in Threads : Writing(u)' <=> Writing(u)
  BY DEF Writing, Goto, Types, ThreadTypes
<1>6. \A u \in Threads : Writing(u) => cur[u] \in Rings /\ cur[u] # L
  BY <1>2, CurrentRing DEF Pool, Writers, Writing, Types
<1>7. Writers'
  <2>1. ASSUME NEW u \in Threads, Writing(u)'
        PROVE  /\ ring'[cur'[u]].live /\ ~ring'[cur'[u]].handed_off
               /\ cur'[u] \notin Claimed' \cup Parked'
    BY <1>2, <1>3, <1>4, <1>5, <1>6, <2>1 DEF Pool, Writers
  <2>2. \A u, w \in Threads : Writing(u)' /\ Writing(w)' /\ cur'[u] = cur'[w] => u = w
    BY <1>5 DEF Pool, Writers
  <2> QED BY <2>1, <2>2 DEF Writers
<1>8. \A r \in Claimed' \cup Unused' : ring'[r].live /\ ~ring'[r].handed_off
  <2>1. Claimed \subseteq Rings
    BY DEF Claimed, Types, ThreadTypes
  <2> QED BY <1>3, <1>4, <2>1 DEF Pool
<1>9. dpc \in {"retire", "recycle"} => cursor.ring \in Rings /\ cursor.ring # L
  <2>1. dpc = "recycle" => cursor.ring \in Listed
    BY DEF Listed, Parting
  <2>2. dpc = "retire" => cursor.ring \in Listed
    <3>1. dpc = "retire" => finalize = <<>> /\ idx <= Len(local) /\ cursor.ring = local[idx].ring
      BY DEF Structure, Phase
    <3>2. idx \in Nat /\ idx # 0 /\ Len(local) \in Nat
      BY ListFacts DEF Types, DrainTypes
    <3>3. idx <= Len(local) => idx \in 1 .. Len(local)
      BY <3>2
    <3> QED BY <3>1, <3>3, ListFacts DEF Listed
  <2> QED BY <1>2, <2>1, <2>2, CursorFacts DEF Structure, Apart
<1>10. shared' = {}
  <2>1. \A u \in Threads : L \notin Owns(u)
    BY <1>1, <1>2, <1>6 DEF Owns, Structure, Apart, Claimed
  <2> QED BY <2>1 DEF TakeSpare, Pool
<1> QED BY <1>4, <1>7, <1>8, <1>9, <1>10 DEF Pool

\* A fresh segment is nobody's, so the thread that takes it owns it alone.
LEMMA AllocFreshPool ==
  ASSUME Types, Structure, Pool, NEW t \in Threads, held[t] = None, ~Writing(t), AllocFresh(t),
         Goto(t, "register"), UNCHANGED <<registry, local, finalize, dpc, idx, cursor, cur>>
  PROVE  Pool'
<1> DEFINE L == PoolSize + fresh + 1
<1>1. /\ L \in Rings /\ held' = [held EXCEPT ![t] = L] /\ ring' = ring /\ spares' = spares
      /\ fresh' = fresh + 1 /\ shared' = shared
  BY AllocFreshTypes DEF Types, AllocFresh
<1>2. L \in Unused
  BY AllocFreshStructure
<1>3. Unused' \subseteq Unused
  <2>1. fresh \in 0 .. FreshRings
    BY DEF Types, ListTypes
  <2>2. \A r \in Rings : r > PoolSize + (fresh + 1) => r > PoolSize + fresh
    BY <2>1, RingFacts
  <2> QED BY <1>1, <2>2 DEF Unused
<1> HIDE DEF L
<1>4. Claimed' \subseteq Claimed \cup {L} /\ Parked' = Parked
  BY <1>1 DEF Claimed, Parked, Types, ThreadTypes
<1>5. \A u \in Threads : Writing(u)' <=> Writing(u)
  BY DEF Writing, Goto, Types, ThreadTypes
<1>6. \A u \in Threads : cur[u] # L
  BY <1>2 DEF Structure, Apart
<1>7. Writers'
  BY <1>1, <1>4, <1>5, <1>6 DEF Pool, Writers
<1> QED BY <1>1, <1>2, <1>3, <1>4, <1>7 DEF Pool

\* Registering turns a claimed segment into the thread's own.
LEMMA RegisterPool ==
  ASSUME Types, Structure, Pool, NEW t \in Threads, RegisterRing(t)
  PROVE  Pool'
<1> DEFINE r == held[t]
<1>1. r \in Rings /\ r \in Claimed /\ Claimed' = Claimed \ {r}
  BY CurrentRing, RegisterStructure DEF Types, RegisterRing
<1>2. Parked' = Parked /\ Unused' = Unused /\ cur' = [cur EXCEPT ![t] = r]
      /\ finalize' = finalize /\ dpc' = dpc /\ cursor' = cursor /\ shared' = shared
  BY DEF RegisterRing, Parked, Unused, drainVars, history
<1>3. \A q \in Rings : ring'[q].live = ring[q].live /\ ring'[q].handed_off = ring[q].handed_off
  BY <1>1 DEF RegisterRing, Types, RingTypes, Segment
<1>4. ~Writing(t) /\ \A u \in Threads : u # t => (Writing(u)' <=> Writing(u))
  BY DEF RegisterRing, Writing, Goto, Types, ThreadTypes
<1>5. \A u \in Threads : Writing(u) => cur[u] \in Rings /\ cur[u] # r
  BY <1>1, CurrentRing DEF Pool, Writers, Writing, Types
<1>6. /\ \A u \in Threads : u # t => cur'[u] = cur[u]
      /\ cur'[t] = r
  BY <1>2 DEF Types, ThreadTypes
<1>7. r \notin Parked /\ ring[r].live /\ ~ring[r].handed_off
  BY <1>1 DEF Structure, Apart, Pool
<1>8. Writers'
  <2>1. ASSUME NEW u \in Threads, Writing(u)'
        PROVE  /\ ring'[cur'[u]].live /\ ~ring'[cur'[u]].handed_off
               /\ cur'[u] \notin Claimed' \cup Parked'
    <3>1. CASE u = t
      BY <1>1, <1>2, <1>3, <1>6, <1>7, <3>1
    <3>2. CASE u # t
      BY <1>1, <1>2, <1>3, <1>4, <1>5, <1>6, <2>1, <3>2 DEF Pool, Writers
    <3> QED BY <3>1, <3>2
  <2>2. \A u, w \in Threads : Writing(u)' /\ Writing(w)' /\ cur'[u] = cur'[w] => u = w
    BY <1>4, <1>5, <1>6 DEF Pool, Writers
  <2> QED BY <2>1, <2>2 DEF Writers
<1>9. Claimed \cup Unused \subseteq Rings
  BY DEF Claimed, Unused, Types, ThreadTypes
<1> QED BY <1>1, <1>2, <1>3, <1>8, <1>9, CursorFacts DEF Pool

\* Steps that change neither list nor claim, nor what they say of the segments
\* of other threads.
LEMMA QuietPool ==
  ASSUME Types, Structure, Pool, Types', UNCHANGED <<held, cur, spares, fresh, shared>>,
         dpc' = "retire" \/ (dpc' = "recycle" /\ finalize' = <<>>) =>
           ring'[cursor'.ring].handed_off,
         \A u \in Threads : Writing(u)' => Writing(u),
         \A r \in Rings :
           \/ (\A u \in Threads : Writing(u)' => cur[u] # r) /\ r \notin Claimed \cup Unused
           \/ (ring'[r].live = ring[r].live /\ ring'[r].handed_off = ring[r].handed_off)
  PROVE  Pool'
<1>1. Claimed' = Claimed /\ Unused' = Unused /\ Parked' = Parked
  BY DEF Claimed, Unused, Parked
<1>2. \A u \in Threads : Writing(u) => cur[u] \in Rings
  BY CurrentRing DEF Types, Writing
<1>3. Writers'
  BY <1>1, <1>2 DEF Pool, Writers
<1>4. Claimed \cup Unused \subseteq Rings
  BY DEF Claimed, Unused, Types, ThreadTypes
<1> QED BY <1>1, <1>3, <1>4 DEF Pool

\* No step of a thread makes two threads own one segment.
LEMMA ThreadStepPool ==
  ASSUME Types, Structure, Pool, NEW t \in Threads, PlainThread(t)
  PROVE  Pool'
<1>0. Types' /\ (tpc[t] # "register" => held[t] = None)
  BY ThreadStepTypes DEF Types, ThreadTypes
<1>1. CASE FirstRing(t)
  BY <1>0, <1>1, TakeSparePool, AllocFreshPool DEF FirstRing, drainVars, Writing
<1>2. CASE Grow(t)
  BY <1>0, <1>2, AllocFreshPool DEF Grow, drainVars, Writing
<1>3. CASE tpc[t] = "spare" /\ ClaimSpare(t)
  BY <1>0, <1>3, TakeSparePool DEF ClaimSpare, drainVars, Writing
<1>4. CASE RegisterRing(t)
  BY <1>4, RegisterPool
<1>5. cursor.ring \in Rings \/ ~(dpc = "retire" \/ (dpc = "recycle" /\ finalize = <<>>))
  BY CursorFacts
<1>6. CASE BeginLog(t) \/ (tpc[t] = "spare" /\ PoolEmpty(t))
  <2>1. \A u \in Threads : Writing(u)' => Writing(u)
    BY <1>6 DEF BeginLog, PoolEmpty, Goto, Writing, Types, ThreadTypes
  <2> QED BY <1>0, <1>6, <2>1, QuietPool
      DEF BeginLog, PoolEmpty, poolVars, drainVars, history, Pool
<1>7. CASE Reserve(t) \/ Publish(t)
  <2>1. \A u \in Threads : Writing(u)' => Writing(u)
    BY <1>7 DEF Reserve, Publish, Goto, Writing, Types, ThreadTypes
  <2>2. cur[t] \in Rings /\ ring[cur[t]] \in Segment
    BY <1>7, CurrentRing DEF Reserve, Publish, Types, RingTypes
  <2>3. \A r \in Rings : ring'[r].live = ring[r].live /\ ring'[r].handed_off = ring[r].handed_off
    <3>1. CASE Reserve(t)
      BY <2>2, <3>1 DEF Reserve, Types, RingTypes, Segment
    <3>2. CASE Publish(t)
      BY <2>2, <3>2 DEF Publish, Types, RingTypes, Segment
    <3> QED BY <1>7, <3>1, <3>2
  <2> QED BY <1>0, <1>5, <1>7, <2>1, <2>3, QuietPool
      DEF Reserve, Publish, poolVars, drainVars, history, Pool
<1>8. CASE HandOff(t) \/ ThreadExit(t)
  <2>1. Writing(t) /\ ~Writing(t)' /\ \A u \in Threads : Writing(u)' => Writing(u)
    BY <1>8 DEF HandOff, ThreadExit, Goto, Writing, Types, ThreadTypes
  <2>2. cur[t] \in Rings /\ ring[cur[t]] \in Segment
    BY <1>8, CurrentRing DEF HandOff, ThreadExit, Types, RingTypes
  <2>3. /\ \A r \in Rings \ {cur[t]} : ring'[r] = ring[r]
        /\ \A r \in Rings : ring[r].handed_off => ring'[r].handed_off
    BY <1>8, <2>2 DEF HandOff, ThreadExit, Types, RingTypes, Segment
  <2>4. cur[t] \notin Claimed \cup Unused
    BY <2>1 DEF Pool, Writers, Structure, Apart
  <2>5. \A u \in Threads : Writing(u)' => cur[u] # cur[t]
    BY <2>1 DEF Pool, Writers
  <2> QED BY <1>0, <1>5, <1>8, <2>1, <2>3, <2>4, <2>5, QuietPool
      DEF HandOff, ThreadExit, poolVars, drainVars, history, Pool
<1> QED BY <1>1, <1>2, <1>3, <1>4, <1>6, <1>7, <1>8 DEF PlainThread

\* No step of the drain does: it parks a segment only after its writer left it.
LEMMA DrainStepPool ==
  ASSUME Types, Structure, Pool, Drain
  PROVE  Pool'
<1>0. Types' /\ Structure'
  BY DrainStep
<1>1. CASE QuietDrain \/ SyncFilter \/ SyncReconcile \/ SyncRetain \/ Retire
  <2>1. UNCHANGED <<held, cur, tpc, spares, fresh, shared>>
    BY <1>1 DEF QuietDrain, Top, Finalize, PollEntry, DrainRing, Deliver, StoreTail,
       ClearDraining, RetireCheck, TakeLines, SyncFilter, SyncReconcile, SyncRetain, Retire,
       others, poolVars, threadVars, history
  <2>2. \A r \in Rings : ring'[r].live = ring[r].live /\ ring'[r].handed_off = ring[r].handed_off
    BY <1>1, QuietDrainRings DEF SyncFilter, SyncReconcile, SyncRetain, Retire
  <2>3. dpc' = "retire" \/ (dpc' = "recycle" /\ finalize' = <<>>) =>
          ring'[cursor'.ring].handed_off
    <3>1. CASE RetireCheck
      <4>1. dpc = "check" /\ finalize = <<>> /\ cursor.ring = local[idx].ring /\ cursor' = cursor
        BY <3>1 DEF RetireCheck, Structure, Phase
      <4>2. cursor.ring \in Rings
        BY <4>1, CursorFacts
      <4> QED BY <2>2, <3>1, <4>1, <4>2 DEF RetireCheck
    <3>2. CASE Retire
      <4>1. dpc = "retire" /\ cursor' = cursor /\ cursor.ring \in Rings /\ dpc' # "retire"
        BY <3>2, CursorFacts DEF Retire
      <4> QED BY <2>2, <4>1 DEF Pool
    <3>3. CASE ~RetireCheck /\ ~Retire
      <4>1. dpc' # "retire" /\ (dpc' = "recycle" => finalize' # <<>>)
        BY <1>1, <3>3 DEF QuietDrain, Top, Finalize, PollEntry, DrainRing, Deliver, StoreTail,
           ClearDraining, InFinalize, TakeLines, SyncFilter, SyncReconcile, SyncRetain
      <4> QED BY <4>1
    <3> QED BY <3>1, <3>2, <3>3
  <2>4. \A u \in Threads : Writing(u)' => Writing(u)
    BY <2>1 DEF Writing
  <2> QED BY <1>0, <2>1, <2>2, <2>3, <2>4, QuietPool
<1>2. CASE DrainRecycle
  <2> DEFINE r == cursor.ring
  <2>1. /\ tpc' = tpc /\ Parked' \subseteq Parked \cup {r}
        /\ \A q \in Rings : /\ ring'[q].live = ring[q].live
                            /\ ring'[q].handed_off = ring[q].handed_off
    BY <1>2, RecycleStep
  <2>2. UNCHANGED <<held, cur, fresh, shared>> /\ dpc' \notin {"retire", "recycle"} /\ dpc = "recycle"
    BY <1>2 DEF DrainRecycle, history
  <2>3. \A u \in Threads : Writing(u)' <=> Writing(u)
    BY <2>1 DEF Writing
  <2>4. r \in Rings /\ (~ring[r].live \/ ring[r].handed_off)
    BY <2>2, CursorFacts, ListFacts DEF Structure, Phase, Pool
  <2>5. \A u \in Threads : Writing(u) => cur[u] \in Rings /\ cur[u] # r
    BY <2>4, CurrentRing DEF Types, Writing, Pool, Writers
  <2>6. Claimed' = Claimed /\ Unused' = Unused
    BY <2>2 DEF Claimed, Unused
  <2>7. Writers'
    BY <2>1, <2>2, <2>3, <2>5, <2>6 DEF Pool, Writers
  <2>8. Claimed \cup Unused \subseteq Rings
    BY DEF Claimed, Unused, Types, ThreadTypes
  <2> QED BY <2>1, <2>2, <2>6, <2>7, <2>8 DEF Pool
<1> QED BY <1>1, <1>2 DEF Drain, QuietDrain

\* A thread that has acted as helper is remembered.
LEMMA HelpedStays ==
  ASSUME [Next]_vars, helped
  PROVE  helped'
<1>1. ASSUME NEW t \in Threads, Thread(t) PROVE helped'
  BY <1>1 DEF Thread, history, FirstRing, RegisterRing, BeginLog, InCall, Reserve,
       Publish, HandOff, Grow, ClaimSpare, PoolEmpty, ReserveForHelper, HelperSpin, HelperFormat,
       HelperQueue, HelperRecycle, CheckLive, Woken, ThreadExit
<1>2. CASE Guard \/ UNCHANGED vars
  BY <1>2 DEF Guard, GuardWalk, GuardSignal, GuardJoin, vars, history
<1>3. CASE Drain
  BY <1>3 DEF Drain, others, history, Top, SyncFilter, SyncReconcile, SyncRetain, Finalize, PollEntry,
       DrainRing, Deliver, StoreTail, ClearDraining, RetireCheck, Retire, DrainRecycle, TakeLines
<1> QED BY <1>1, <1>2, <1>3 DEF Next

\* The invariant is inductive: helped never goes back to FALSE, and the guard
\* is never held again.
LEMMA PoolStep ==
  ASSUME PoolInv, [Next]_vars
  PROVE  PoolInv'
<1>1. SUFFICES ASSUME ~helped' PROVE Types' /\ Structure' /\ (gpc' = "held" => Pool')
  BY DEF PoolInv
<1>2. ~helped
  BY <1>1, HelpedStays
<1>3. Types /\ Structure /\ (gpc = "held" => Pool)
  BY <1>2 DEF PoolInv
<1>4. Types' /\ Structure'
  BY <1>1, <1>2, <1>3, StructureStep
<1>5. ASSUME gpc' = "held" PROVE Pool'
  <2>1. CASE \E t \in Threads : PlainThread(t)
    <3>1. PICK t \in Threads : PlainThread(t)
      BY <2>1
    <3>2. gpc' = gpc
      BY <3>1 DEF PlainThread, FirstRing, RegisterRing, BeginLog, Reserve, Publish, HandOff, Grow,
         ClaimSpare, PoolEmpty, ThreadExit, guardVars
    <3> QED BY <1>3, <1>5, <3>1, <3>2, ThreadStepPool
  <2>2. CASE Drain
    <3>1. gpc' = gpc
      BY <2>2 DEF Drain, Top, SyncFilter, SyncReconcile, SyncRetain, Finalize, PollEntry, DrainRing,
         Deliver, StoreTail, ClearDraining, RetireCheck, Retire, DrainRecycle, TakeLines,
         others, guardVars
    <3> QED BY <1>3, <1>5, <2>2, <3>1, DrainStepPool
  <2>3. CASE Guard
    BY <1>5, <2>3 DEF Guard, GuardWalk, GuardSignal, GuardJoin
  <2>4. CASE UNCHANGED vars
    <3>1. /\ UNCHANGED <<held, cur, tpc, spares, fresh, shared, finalize, dpc, cursor, ring>>
          /\ gpc' = gpc
      BY <2>4 DEF vars, poolVars, threadVars, drainVars, guardVars, history
    <3> QED BY <1>3, <1>4, <1>5, <3>1, QuietPool DEF Pool, Writing
  <2> QED BY <1>1, <1>2, <1>3, <2>1, <2>2, <2>3, <2>4, PlainSteps DEF Types
<1> QED BY <1>4, <1>5

\* The ownership discipline of the pool is inductive: until a thread helps the
\* drain, every list of segments keeps its shape, and while the guard is held the
\* segments of threads, pool and drain are disjoint.
THEOREM PoolInvariant == Spec => []PoolInv
<1> QED BY InitPool, PoolStep, PTL DEF Spec

\* For any number of threads, any pool and both policies: while the guard is
\* held and no thread acts as helper, a spare is parked once, and no segment is
\* at the same time a spare, or another thread's, and a thread's own.
THEOREM PoolStaysExclusive == Spec => []PoolExclusive
<1>1. ASSUME PoolInv PROVE PoolExclusive
  <2>1. SUFFICES ASSUME ~helped, gpc = "held"
                 PROVE  /\ IsInjective(spares)
                        /\ \A t \in Threads :
                             /\ Owns(t) \cap ToSet(spares) = {}
                             /\ \A u \in Threads \ {t} : Owns(t) \cap Owns(u) = {}
    BY DEF PoolExclusive
  <2>2. Types /\ Structure /\ Pool
    BY <1>1, <2>1 DEF PoolInv
  <2>3. IsInjective(spares)
    <3>1. DOMAIN spares = 1 .. Len(spares)
      BY <2>2 DEF Types, ListTypes
    <3> QED BY <2>2, <3>1 DEF IsInjective, Structure, Lists, Distinct
  <2>4. ASSUME NEW t \in Threads, NEW r \in Owns(t)
        PROVE  r \notin Parked /\ ((r \in Claimed /\ r = held[t]) \/ (Writing(t) /\ r = cur[t]))
    BY <2>2, <2>4, RingFacts DEF Owns, Claimed, Structure, Apart, Pool, Writers
  <2>5. ASSUME NEW t \in Threads, NEW u \in Threads \ {t}, NEW r \in Owns(t), r \in Owns(u)
        PROVE  FALSE
    BY <2>2, <2>4, <2>5 DEF Structure, Apart, Pool, Writers, Claimed
  <2> QED BY <2>3, <2>4, <2>5 DEF Parked
<1> QED BY <1>1, PoolInvariant, PTL
-----------------------------------------------------------------------------
(* The positions in a segment, as long as only one thread writes to it.     *)

\* How far the drain has read.
ReadPos(r) ==
  IF dpc = "walk" /\ cursor.ring = r THEN cursor.tail ELSE ring[r].tail

\* The positions not read yet, and the record at one.
Pending(r) == ReadPos(r) .. ring[r].head - 1
RecordAt(r, p) == SlotAt(ring[r], p)

Ordered(r) ==
  /\ ring[r].tail_cache <= ring[r].tail /\ ring[r].head_cache = ring[r].tail
  /\ ring[r].tail <= ReadPos(r) /\ ReadPos(r) <= ring[r].head
  /\ ring[r].head - ring[r].tail <= Slots - 1
  /\ dpc = "walk" /\ cursor.ring = r =>
       cursor.tail <= cursor.head /\ cursor.head <= ring[r].head
  /\ \A p \in Pending(r) : RecordAt(r, p) \in Record

\* A reservation is for the next position, and there is room for it.
Reserved(r) ==
  \A t \in Threads : tpc[t] = "publish" /\ cur[t] = r =>
    at[t] = ring[r].head /\ ring[r].head + 1 - ring[r].tail <= Slots - 1

\* At most one thread writes to r, and nobody has claimed it then.
Alone(r) ==
  /\ \A t, u \in Threads :
       Writing(t) /\ Writing(u) /\ cur[t] = r /\ cur[u] = r => t = u
  /\ \A t \in Threads : Writing(t) /\ cur[t] = r => r \notin Claimed

Positions == \A r \in Rings \ shared : Ordered(r) /\ Reserved(r) /\ Alone(r)

\* What a step does to the records not read yet.
SameFields(r) ==
  /\ ring'[r].head = ring[r].head /\ ring'[r].tail = ring[r].tail
  /\ ring'[r].tail_cache = ring[r].tail_cache /\ ring'[r].head_cache = ring[r].head_cache
  /\ ring'[r].data = ring[r].data

SameRecords(r) ==
  /\ Pending(r)' = Pending(r)
  /\ \A p \in Pending(r) : RecordAt(r, p)' = RecordAt(r, p)

\* Two positions less than a segment apart are different slots.
LEMMA SlotsApart ==
  ASSUME NEW p \in Nat, NEW q \in Nat, p < q, q - p <= Slots - 1
  PROVE  p % Slots # q % Slots
<1> DEFINE C == Slots
           a == p \div C
           b == q \div C
<1>1. C \in Nat /\ C >= 2
  BY RingFacts
<1>2. SUFFICES ASSUME p % C = q % C PROVE FALSE
  OBVIOUS
<1>3. /\ a \in Int /\ b \in Int /\ p = C * a + (p % C) /\ q = C * b + (q % C)
      /\ p % C \in 0 .. C - 1
  BY <1>1
<1> HIDE DEF C, a, b
<1>4. C * (b - a) = q - p
  BY <1>1, <1>2, <1>3
<1>5. ~(b - a >= 1)
  <2> SUFFICES ASSUME b - a >= 1 PROVE FALSE
    OBVIOUS
  <2>1. C * (b - a) >= C
    BY <1>1, <1>3
  <2> QED BY <1>1, <1>4, <2>1 DEF C
<1>6. ~(b - a <= 0)
  <2> SUFFICES ASSUME b - a <= 0 PROVE FALSE
    OBVIOUS
  <2>1. C * (b - a) <= 0
    BY <1>1, <1>3
  <2> QED BY <1>4, <2>1
<1> QED BY <1>3, <1>5, <1>6

\* The fields are naturals.
LEMMA FieldTypes ==
  ASSUME Types, NEW r \in Rings
  PROVE  /\ ring[r].head \in Nat /\ ring[r].tail \in Nat /\ ring[r].tail_cache \in Nat
         /\ ring[r].head_cache \in Nat /\ ReadPos(r) \in Nat
         /\ ring[r].data \in [0 .. Slots - 1 -> Record \cup {<<>>}]
         /\ cursor.tail \in Nat /\ cursor.head \in Nat
<1>1. ring[r] \in Segment
  BY DEF Types, RingTypes
<1>2. cursor.tail \in Nat /\ cursor.head \in Nat
  BY CursorFacts
<1>3. /\ ring[r].head \in Nat /\ ring[r].tail \in Nat /\ ring[r].tail_cache \in Nat
      /\ ring[r].head_cache \in Nat /\ ring[r].data \in [0 .. Slots - 1 -> Record \cup {<<>>}]
  BY <1>1 DEF Segment
<1> QED BY <1>2, <1>3 DEF ReadPos

\* Every segment starts empty, read up to its head.
LEMMA InitPositions ==
  ASSUME Init
  PROVE  Positions
<1>1. ASSUME NEW r \in Rings PROVE Ordered(r)
  <2>1. /\ ring[r].head = 0 /\ ring[r].tail = 0 /\ ring[r].tail_cache = 0
        /\ ring[r].head_cache = 0 /\ dpc # "walk"
    BY DEF Init, NewSegment
  <2>2. ReadPos(r) = 0 /\ Pending(r) = {}
    BY <2>1 DEF ReadPos, Pending
  <2> QED BY <2>1, <2>2, RingFacts DEF Ordered
<1>2. ASSUME NEW r \in Rings PROVE Reserved(r) /\ Alone(r)
  BY DEF Init, Reserved, Alone, Writing
<1> QED BY <1>1, <1>2 DEF Positions

\* Steps that leave a segment's positions and slots alone.
LEMMA QuietPositions ==
  ASSUME NEW r \in Rings, Ordered(r), Reserved(r), SameFields(r),
         \/ dpc' = dpc /\ cursor' = cursor
         \/ dpc # "walk" /\ dpc' # "walk",
         \A t \in Threads : tpc'[t] = "publish" /\ cur'[t] = r =>
           tpc[t] = "publish" /\ at'[t] = at[t] /\ cur[t] = r
  PROVE  Ordered(r)' /\ Reserved(r)' /\ SameRecords(r)
<1>1. ReadPos(r)' = ReadPos(r) /\ Pending(r)' = Pending(r)
  BY DEF SameFields, ReadPos, Pending
<1>2. \A p : RecordAt(r, p)' = RecordAt(r, p)
  BY DEF SameFields, RecordAt, SlotAt
<1>3. Ordered(r)'
  BY <1>1, <1>2 DEF SameFields, Ordered
<1>4. Reserved(r)'
  BY DEF SameFields, Reserved
<1> QED BY <1>1, <1>2, <1>3, <1>4 DEF SameRecords

\* Who writes where, through the steps of the threads.
LEMMA AloneStep ==
  ASSUME Types, Structure, NEW t \in Threads, PlainThread(t), NEW r \in Rings \ shared',
         Alone(r)
  PROVE  Alone(r)'
<1>0. (tpc[t] # "register" => held[t] = None) /\ tpc \in [Threads -> TPcs]
      /\ held \in [Threads -> Rings \cup {None}] /\ cur \in [Threads -> Rings \cup {None}]
  BY DEF Types, ThreadTypes
<1>1. ASSUME NEW L, held' = [held EXCEPT ![t] = L], cur' = cur, Goto(t, "register"), ~Writing(t),
             \A u \in Threads : Writing(u) /\ cur[u] = r => r # L
      PROVE  Alone(r)'
  <2>1. \A u \in Threads : Writing(u)' => Writing(u)
    BY <1>0, <1>1 DEF Goto, Writing
  <2>2. r \in Claimed' => r \in Claimed \/ r = L
    BY <1>0, <1>1 DEF Claimed
  <2> QED BY <1>1, <2>1, <2>2 DEF Alone
<1>2. CASE TakeSpare(t) /\ cur' = cur /\ Goto(t, "register") /\ ~Writing(t)
  <2> DEFINE L == Last(spares)
  <2>1. held' = [held EXCEPT ![t] = L] /\ L \in Rings
    BY <1>2, TakeSpareTypes DEF Types
  <2>2. r = L => \A u \in Threads : L \notin Owns(u)
    BY <1>2 DEF TakeSpare
  <2>3. \A u \in Threads : Writing(u) /\ cur[u] = r => r # L
    BY <2>2 DEF Owns
  <2> QED BY <1>1, <1>2, <2>1, <2>3
<1>3. CASE AllocFresh(t) /\ cur' = cur /\ Goto(t, "register") /\ ~Writing(t)
          /\ UNCHANGED drainVars /\ registry' = registry /\ tpc[t] # "register"
  <2> DEFINE L == PoolSize + fresh + 1
  <2>1. held' = [held EXCEPT ![t] = L]
    BY <1>3 DEF AllocFresh
  <2>2. L \in Unused
    BY <1>0, <1>3, AllocFreshStructure DEF drainVars
  <2>3. \A u \in Threads : cur[u] # L
    BY <2>2 DEF Structure, Apart
  <2> QED BY <1>1, <1>3, <2>1, <2>3
<1>4. CASE FirstRing(t) \/ Grow(t) \/ (tpc[t] = "spare" /\ ClaimSpare(t))
  BY <1>2, <1>3, <1>4 DEF FirstRing, Grow, ClaimSpare, Writing
<1>5. CASE RegisterRing(t)
  <2> DEFINE q == held[t]
  <2>1. q \in Claimed /\ Claimed' = Claimed \ {q} /\ cur' = [cur EXCEPT ![t] = q] /\ q \in Rings
    BY <1>5, RegisterStructure, CurrentRing DEF RegisterRing, Types
  <2>2. \A u \in Threads : u # t => (Writing(u)' <=> Writing(u)) /\ cur'[u] = cur[u]
    BY <1>0, <1>5 DEF RegisterRing, Goto, Writing
  <2>3. cur'[t] = q
    BY <1>0, <2>1
  <2> QED BY <2>1, <2>2, <2>3 DEF Alone
<1>6. CASE BeginLog(t) \/ Reserve(t) \/ Publish(t) \/ HandOff(t)
           \/ (tpc[t] = "spare" /\ PoolEmpty(t)) \/ ThreadExit(t)
  <2>1. held' = held /\ cur' = cur
    BY <1>6 DEF BeginLog, Reserve, Publish, HandOff, PoolEmpty, ThreadExit
  <2>2. \A u \in Threads : Writing(u)' => Writing(u)
    BY <1>0, <1>6 DEF BeginLog, Reserve, Publish, HandOff, PoolEmpty, ThreadExit, Goto, Writing
  <2>3. Claimed' = Claimed
    BY <2>1 DEF Claimed
  <2> QED BY <2>1, <2>2, <2>3 DEF Alone
<1> QED BY <1>4, <1>5, <1>6 DEF PlainThread

\* Only a thread can change who writes a segment.
LEMMA AloneSame ==
  ASSUME NEW r, Alone(r), UNCHANGED <<tpc, cur, held>>
  PROVE  Alone(r)'
BY DEF Alone, Writing, Claimed

\* What a published record does to its segment: it is the last not read yet.
Adds(t, r) ==
  /\ Pending(r)' = Pending(r) \cup {ring[r].head} /\ ring[r].head \notin Pending(r)
  /\ \A p \in Pending(r) : RecordAt(r, p)' = RecordAt(r, p)
  /\ \A p : p = ring[r].head => RecordAt(r, p)' = <<t, logged[t] + 1>>

\* What a delivered one does: it was the first not read yet.
Takes(r) ==
  /\ cursor.tail \in Pending(r) /\ Pending(r)' = Pending(r) \ {cursor.tail}
  /\ \A p \in Pending(r) : RecordAt(r, p)' = RecordAt(r, p)

\* The thread's own steps on the segment it writes to.
LEMMA ReservePositions ==
  ASSUME Types, NEW t \in Threads, Reserve(t), NEW r \in Rings, Ordered(r), Reserved(r), Alone(r)
  PROVE  Ordered(r)' /\ Reserved(r)' /\ SameRecords(r)
<1> DEFINE c == cur[t]
<1>1. c \in Rings /\ ring[c] \in Segment /\ ring \in [Rings -> Segment] /\ tpc \in [Threads -> TPcs]
      /\ at \in [Threads -> Nat]
  BY CurrentRing DEF Reserve, Types, RingTypes, ThreadTypes
<1>2. /\ ring' = [ring EXCEPT ![c] = [ring[c] EXCEPT !.tail_cache = ring[c].tail]]
      /\ UNCHANGED <<cur, held, dpc, cursor>> /\ Writing(t) /\ at' = [at EXCEPT ![t] = ring[c].head]
      /\ \A u \in Threads : u # t => tpc'[u] = tpc[u] /\ at'[u] = at[u]
      /\ tpc'[t] = "publish" => Fits(ring[c], ring[c].tail_cache) \/ Fits(ring[c], ring[c].tail)
  BY <1>1 DEF Reserve, Goto, Writing, drainVars
<1>3. CASE r # c
  <2>1. SameFields(r)
    BY <1>1, <1>2, <1>3 DEF SameFields
  <2> QED BY <1>2, <1>3, <2>1, QuietPositions
<1>4. CASE r = c
  <2>1. /\ ring'[r].head = ring[r].head /\ ring'[r].tail = ring[r].tail
        /\ ring'[r].tail_cache = ring[r].tail /\ ring'[r].head_cache = ring[r].head_cache
        /\ ring'[r].data = ring[r].data
    BY <1>1, <1>2, <1>4 DEF Segment
  <2>2. ReadPos(r)' = ReadPos(r) /\ Pending(r)' = Pending(r) /\ \A p : RecordAt(r, p)' = RecordAt(r, p)
    BY <1>2, <2>1 DEF ReadPos, Pending, RecordAt, SlotAt
  <2>3. Ordered(r)'
    <3>1. ring'[r].tail_cache <= ring'[r].tail
      BY <2>1, FieldTypes
    <3> QED BY <1>2, <2>1, <2>2, <3>1 DEF Ordered
  <2>4. ASSUME NEW u \in Threads, tpc'[u] = "publish", cur'[u] = r
        PROVE  at'[u] = ring'[r].head /\ ring'[r].head + 1 - ring'[r].tail <= Slots - 1
    <3>1. u = t
      BY <1>2, <1>4, <2>4 DEF Alone, Writing
    <3>2. at'[t] = ring[r].head
      BY <1>1, <1>2, <1>4
    <3>3. Fits(ring[r], ring[r].tail_cache) \/ Fits(ring[r], ring[r].tail)
      BY <1>2, <1>4, <2>4, <3>1
    <3>4. ring[r].head + 1 - ring[r].tail <= Slots - 1
      <4> DEFINE h == ring[r].head
                 l == ring[r].tail
                 c0 == ring[r].tail_cache
      <4>1. h \in Nat /\ l \in Nat /\ c0 \in Nat /\ c0 <= l
        BY FieldTypes DEF Ordered
      <4>2. h + 1 - c0 \in 0 .. Slots - 1 \/ h + 1 - l \in 0 .. Slots - 1
        BY <3>3 DEF Fits
      <4> HIDE DEF h, l, c0
      <4>3. h + 1 - l <= Slots - 1
        BY <4>1, <4>2, RingFacts
      <4> QED BY <4>3 DEF h, l
    <3> QED BY <2>1, <3>1, <3>2, <3>4
  <2> QED BY <2>2, <2>3, <2>4 DEF Reserved, SameRecords
<1> QED BY <1>3, <1>4

\* Publish writes the slot it reserved and moves the head past it; the records
\* not yet read keep their slots.
LEMMA PublishPositions ==
  ASSUME Types, NEW t \in Threads, Publish(t), NEW r \in Rings, Ordered(r), Reserved(r), Alone(r)
  PROVE  /\ Ordered(r)' /\ Reserved(r)'
         /\ r # cur[t] => SameRecords(r)
         /\ r = cur[t] => Adds(t, r)
<1> DEFINE c == cur[t]
<1>1. c \in Rings /\ ring[c] \in Segment /\ ring \in [Rings -> Segment] /\ tpc \in [Threads -> TPcs]
      /\ logged \in [Threads -> Nat] /\ at \in [Threads -> Nat]
  BY CurrentRing DEF Publish, Types, RingTypes, ThreadTypes
<1>2. /\ UNCHANGED <<cur, held, dpc, cursor>> /\ Writing(t) /\ tpc[t] = "publish"
      /\ \A u \in Threads : u # t => tpc'[u] = tpc[u] /\ at'[u] = at[u]
      /\ tpc'[t] = "idle"
      /\ ring' = [ring EXCEPT ![c] = [ring[c] EXCEPT !.data[at[t] % Slots] = <<t, logged[t] + 1>>,
                                                     !.head = at[t] + 1]]
  BY <1>1 DEF Publish, Goto, Writing, drainVars
<1>3. CASE r # c
  <2>1. SameFields(r)
    BY <1>1, <1>2, <1>3 DEF SameFields
  <2> QED BY <1>2, <1>3, <2>1, QuietPositions
<1>4. CASE r = c
  <2>a. PICK h \in Nat : h = ring[r].head
    BY FieldTypes
  <2>b. PICK x \in Record : x = <<t, logged[t] + 1>>
    <3>1. logged[t] + 1 \in Nat
      BY <1>1
    <3> QED BY <3>1 DEF Record
  <2>0. at[t] = h /\ h + 1 - ring[r].tail <= Slots - 1
    BY <1>2, <1>4, <2>a DEF Reserved
  <2>1. /\ h \in Nat /\ ring[r].tail \in Nat /\ ring[r].tail_cache \in Nat /\ ring[r].head_cache \in Nat
        /\ ReadPos(r) \in Nat /\ ring[r].data \in [0 .. Slots - 1 -> Record \cup {<<>>}]
        /\ cursor.tail \in Nat /\ cursor.head \in Nat
    BY FieldTypes
  <2>2. h % Slots \in 0 .. Slots - 1
    BY <2>1, RingFacts
  <2> DEFINE d == [ring[r].data EXCEPT ![h % Slots] = x]
  <2> HIDE DEF d
  <2>c. d \in [0 .. Slots - 1 -> Record \cup {<<>>}] /\ ring[r] \in Segment
    BY <1>1, <1>4, <2>1, <2>2 DEF d
  <2>3. ring'[r] = [ring[r] EXCEPT !.data = d, !.head = h + 1]
    BY <1>1, <1>2, <1>4, <2>0, <2>b DEF d
  <2>4. /\ ring'[r].head = h + 1 /\ ring'[r].tail = ring[r].tail /\ ring'[r].data = d
        /\ ring'[r].tail_cache = ring[r].tail_cache /\ ring'[r].head_cache = ring[r].head_cache
    BY <1>1, <1>4, <2>3 DEF Segment
  <2>5. ReadPos(r)' = ReadPos(r)
    BY <1>2, <2>4 DEF ReadPos
  <2>6. ReadPos(r) <= h /\ ring[r].tail <= ReadPos(r) /\ h - ring[r].tail <= Slots - 1
        /\ ring[r].tail_cache <= ring[r].tail /\ ring[r].head_cache = ring[r].tail
        /\ (dpc = "walk" /\ cursor.ring = r => cursor.tail <= cursor.head /\ cursor.head <= h)
    BY <2>a DEF Ordered
  <2>7. Pending(r)' = Pending(r) \cup {h} /\ h \notin Pending(r)
    <3> DEFINE P == ReadPos(r)
    <3>1. Pending(r)' = P .. (h + 1) - 1 /\ Pending(r) = P .. h - 1
      BY <2>a, <2>4, <2>5 DEF Pending
    <3>2. P \in Nat /\ P <= h
      BY <2>1, <2>6
    <3> HIDE DEF P
    <3> QED BY <2>1, <3>1, <3>2
  <2>8. ASSUME NEW p \in Pending(r) PROVE RecordAt(r, p)' = RecordAt(r, p)
    <3>1. p \in Nat /\ p < h /\ h - p <= Slots - 1
      <4> DEFINE P == ReadPos(r)
                 l == ring[r].tail
      <4>1. p \in P .. h - 1 /\ P \in Nat /\ l \in Nat /\ l <= P /\ h - l <= Slots - 1
        BY <2>a, <2>1, <2>6, <2>8 DEF Pending
      <4> HIDE DEF P, l
      <4> QED BY <4>1, RingFacts
    <3>2. p % Slots # h % Slots /\ p % Slots \in 0 .. Slots - 1
      BY <2>1, <3>1, SlotsApart, RingFacts
    <3> QED BY <2>1, <2>4, <3>2 DEF d, RecordAt, SlotAt
  <2>9. RecordAt(r, h)' = x
    BY <2>1, <2>2, <2>4 DEF d, RecordAt, SlotAt
  <2>11. Ordered(r)'
    <3>1. \A p \in Pending(r)' : RecordAt(r, p)' \in Record
      BY <1>4, <2>7, <2>8, <2>9 DEF Ordered
    <3>2. ReadPos(r)' <= ring'[r].head /\ ring'[r].head - ring'[r].tail <= Slots - 1
      <4> DEFINE P == ReadPos(r)
      <4>1. P \in Nat /\ P <= h /\ ReadPos(r)' = P
        BY <2>1, <2>5, <2>6
      <4> HIDE DEF P
      <4>2. ReadPos(r)' <= h + 1
        BY <4>1
      <4>3. ReadPos(r)' <= ring'[r].head
        BY <2>4, <4>2
      <4>4. ring'[r].head - ring'[r].tail <= Slots - 1
        <5>1. PICK l \in Nat : l = ring[r].tail
          BY <2>1
        <5>2. (h + 1) - l <= Slots - 1
          BY <2>0, <5>1, RingFacts
        <5> QED BY <2>4, <5>1, <5>2, Zenon
      <4> QED BY <4>3, <4>4
    <3>4. dpc' = "walk" /\ cursor'.ring = r =>
                cursor'.tail <= cursor'.head /\ cursor'.head <= ring'[r].head
      BY <1>2, <2>1, <2>4, <2>6
    <3>3. ring'[r].tail_cache <= ring'[r].tail /\ ring'[r].head_cache = ring'[r].tail
          /\ ring'[r].tail <= ReadPos(r)'
      BY <2>4, <2>5, <2>6
    <3> QED BY <3>1, <3>2, <3>3, <3>4 DEF Ordered
  <2>12. Reserved(r)'
    BY <1>2, <1>4 DEF Reserved, Alone, Writing
  <2> QED BY <1>4, <2>a, <2>b, <2>7, <2>8, <2>9, <2>11, <2>12 DEF Adds
<1> QED BY <1>3, <1>4

\* A claimed spare starts empty; the drain is not at it.
LEMMA TakeSparePositions ==
  ASSUME Types, Structure, NEW t \in Threads, held[t] = None, TakeSpare(t), Goto(t, "register"),
         UNCHANGED <<registry, local, finalize, dpc, idx, cursor, cur, at>>,
         NEW r \in Rings \ shared', Ordered(r), Reserved(r)
  PROVE  /\ Ordered(r)' /\ Reserved(r)'
         /\ SameRecords(r) \/ (r \in Parked /\ Pending(r)' = {})
<1> DEFINE L == Last(spares)
<1>1. L \in Parked \cap Rings /\ ring \in [Rings -> Segment] /\ tpc \in [Threads -> TPcs]
  BY TakeSpareStructure DEF Types, RingTypes, ThreadTypes
<1>2. ring' = [ring EXCEPT ![L] = Reset(ring[L])]
      /\ \A u \in Threads : tpc'[u] = "publish" => tpc[u] = "publish"
  BY <1>1 DEF TakeSpare, Goto
<1>3. CASE r # L
  <2>1. SameFields(r)
    BY <1>1, <1>2, <1>3 DEF SameFields
  <2> QED BY <1>2, <2>1, QuietPositions
<1>4. CASE r = L
  <2>1. /\ ring'[r].head = 0 /\ ring'[r].tail = 0 /\ ring'[r].tail_cache = 0 /\ ring'[r].head_cache = 0
    BY <1>1, <1>2, <1>4 DEF Reset, Segment
  <2>2. ~(dpc = "walk" /\ cursor.ring = r)
    <3> SUFFICES ASSUME dpc = "walk", cursor.ring = r PROVE FALSE
      OBVIOUS
    <3>1. CASE finalize # <<>>
      BY <1>1, <1>4, <3>1, ListFacts DEF Structure, Phase, Apart, Listed
    <3>2. CASE finalize = <<>>
      <4>1. idx \in 1 .. Len(local) /\ cursor.ring = local[idx].ring
        BY <3>2, ListFacts DEF Structure, Phase, Types, DrainTypes
      <4> QED BY <1>1, <1>4, <4>1, ListFacts DEF Structure, Apart, Listed
    <3> QED BY <3>1, <3>2
  <2>3. ReadPos(r)' = 0 /\ Pending(r)' = {}
    BY <2>1, <2>2 DEF ReadPos, Pending
  <2>4. Ordered(r)'
    BY <2>1, <2>2, <2>3, RingFacts DEF Ordered
  <2>5. \A u \in Threads : r \notin Owns(u)
    BY <1>4 DEF TakeSpare
  <2>6. Reserved(r)'
    BY <1>1, <1>2, <2>5 DEF Reserved, Owns, Writing
  <2> QED BY <1>1, <1>4, <2>3, <2>4, <2>6
<1> QED BY <1>3, <1>4

\* The pass begins at the tail and ends at the head there was.
LEMMA DrainRingPositions ==
  ASSUME Types, DrainRing, NEW r \in Rings, Ordered(r), Reserved(r)
  PROVE  Ordered(r)' /\ Reserved(r)' /\ SameRecords(r)
<1> DEFINE c == cursor.ring
<1>1. c \in Rings /\ ring[c] \in Segment /\ ring \in [Rings -> Segment]
  BY CursorFacts DEF DrainRing, Types, RingTypes
<1>2. /\ ring' = [ring EXCEPT ![c] = [ring[c] EXCEPT !.draining = TRUE]]
      /\ cursor' = [ring |-> c, tail |-> ring[c].tail, head |-> PassHead(ring[c])]
      /\ dpc = "drain" /\ UNCHANGED <<tpc, cur, at>>
  BY <1>1 DEF DrainRing, others, threadVars
<1>3. SameFields(r)
  BY <1>1, <1>2 DEF SameFields, Segment
<1>4. ReadPos(r)' = ring[r].tail /\ ReadPos(r) = ring[r].tail
  BY <1>2, <1>3 DEF ReadPos, SameFields
<1>5. Pending(r)' = Pending(r) /\ \A p : RecordAt(r, p)' = RecordAt(r, p)
  BY <1>3, <1>4 DEF Pending, RecordAt, SlotAt, SameFields
<1>6. ring[r].head_cache = ring[r].tail /\ ring[r].tail <= ring[r].head
  BY <1>4 DEF Ordered
<1>7. dpc' = "walk" /\ cursor'.ring = r => cursor'.tail = ring[r].tail /\ cursor'.head = ring[r].head
  BY <1>2, <1>6 DEF PassHead
<1>8. Ordered(r)'
  <2>1. dpc' = "walk" /\ cursor'.ring = r => cursor'.tail <= cursor'.head /\ cursor'.head <= ring'[r].head
    <3>1. ring[r].head <= ring[r].head
      BY FieldTypes
    <3> QED BY <1>3, <1>6, <1>7, <3>1 DEF SameFields
  <2>2. ring'[r].tail <= ReadPos(r)' /\ ReadPos(r)' <= ring'[r].head
    BY <1>3, <1>4 DEF Ordered, SameFields
  <2> QED BY <1>3, <1>5, <2>1, <2>2 DEF Ordered, SameFields
<1>9. Reserved(r)'
  BY <1>2, <1>3 DEF SameFields, Reserved
<1> QED BY <1>5, <1>8, <1>9 DEF SameRecords

\* The pass stores as tail how far it came, and that is the head it had.
LEMMA StoreTailPositions ==
  ASSUME Types, StoreTail, NEW r \in Rings, Ordered(r), Reserved(r)
  PROVE  /\ Ordered(r)' /\ Reserved(r)' /\ SameRecords(r)
         /\ cursor.ring = r => cursor.tail = cursor.head
<1> DEFINE c == cursor.ring
<1>1. c \in Rings /\ ring[c] \in Segment /\ ring \in [Rings -> Segment]
  BY CursorFacts DEF StoreTail, Types, RingTypes
<1>2. /\ dpc = "walk" /\ dpc' = "clear" /\ cursor' = cursor /\ UNCHANGED <<tpc, cur, at>>
      /\ cursor.tail >= cursor.head \/ SlotAt(ring[c], cursor.tail) = <<>>
      /\ ring' = [ring EXCEPT ![c] = [ring[c] EXCEPT !.tail = cursor.tail, !.head_cache = cursor.head]]
  BY <1>1 DEF StoreTail, others, threadVars
<1>3. CASE r # c
  <2>1. ring'[r] = ring[r]
    BY <1>1, <1>2, <1>3
  <2>2. ReadPos(r)' = ReadPos(r) /\ Pending(r)' = Pending(r) /\ \A p : RecordAt(r, p)' = RecordAt(r, p)
    BY <1>2, <1>3, <2>1 DEF ReadPos, Pending, RecordAt, SlotAt
  <2>3. Ordered(r)'
    BY <1>2, <1>3, <2>1, <2>2 DEF Ordered
  <2>4. Reserved(r)'
    BY <1>2, <2>1 DEF Reserved
  <2> QED BY <1>3, <2>2, <2>3, <2>4 DEF SameRecords
<1>4. CASE r = c
  <2>1. /\ ring[r].head \in Nat /\ ring[r].tail \in Nat /\ ring[r].tail_cache \in Nat
        /\ cursor.tail \in Nat /\ cursor.head \in Nat
    BY FieldTypes
  <2>2. /\ ReadPos(r) = cursor.tail /\ cursor.tail <= cursor.head /\ cursor.head <= ring[r].head
        /\ ring[r].tail <= cursor.tail /\ ring[r].tail_cache <= ring[r].tail
        /\ ring[r].head - ring[r].tail <= Slots - 1
    BY <1>2, <1>4 DEF ReadPos, Ordered
  <2>3. cursor.tail = cursor.head
    <3>1. SUFFICES ASSUME cursor.tail < cursor.head PROVE FALSE
      BY <2>1, <2>2
    <3>2. cursor.tail \in Pending(r)
      BY <2>1, <2>2, <3>1 DEF Pending
    <3>3. SlotAt(ring[r], cursor.tail) \in Record
      BY <3>2 DEF Ordered, RecordAt
    <3>4. SlotAt(ring[r], cursor.tail) = <<>>
      BY <1>2, <1>4, <2>1, <3>1
    <3>5. <<>> \notin Record
      BY DEF Record
    <3> QED BY <3>3, <3>4, <3>5
  <2>4. /\ ring'[r].head = ring[r].head /\ ring'[r].tail = cursor.tail /\ ring'[r].head_cache = cursor.tail
        /\ ring'[r].tail_cache = ring[r].tail_cache /\ ring'[r].data = ring[r].data
    BY <1>1, <1>2, <1>4, <2>3 DEF Segment
  <2>5. ReadPos(r)' = cursor.tail /\ Pending(r)' = Pending(r) /\ \A p : RecordAt(r, p)' = RecordAt(r, p)
    BY <1>2, <2>2, <2>4 DEF ReadPos, Pending, RecordAt, SlotAt
  <2>6. Ordered(r)'
    <3>1. /\ ring'[r].tail_cache <= ring'[r].tail /\ ring'[r].head_cache = ring'[r].tail
          /\ ring'[r].tail <= ReadPos(r)' /\ ReadPos(r)' <= ring'[r].head
      BY <2>1, <2>2, <2>4, <2>5
    <3>2. ring'[r].head - ring'[r].tail <= Slots - 1
      BY <2>1, <2>2, <2>4, RingFacts
    <3> QED BY <1>2, <2>5, <3>1, <3>2 DEF Ordered
  <2>7. Reserved(r)'
    <3>1. ASSUME ring[r].head + 1 - ring[r].tail <= Slots - 1
          PROVE  ring'[r].head + 1 - ring'[r].tail <= Slots - 1
      BY <2>1, <2>2, <2>4, <3>1, RingFacts
    <3> QED BY <1>2, <2>4, <3>1 DEF Reserved
  <2> QED BY <2>3, <2>5, <2>6, <2>7 DEF SameRecords
<1> QED BY <1>3, <1>4

\* Deliver moves the read position past one record and changes no slot.
LEMMA DeliverPositions ==
  ASSUME Types, Deliver, NEW r \in Rings, Ordered(r), Reserved(r)
  PROVE  /\ Ordered(r)' /\ Reserved(r)'
         /\ r # cursor.ring => SameRecords(r)
         /\ r = cursor.ring => Takes(r)
<1>1. /\ dpc = "walk" /\ dpc' = "walk" /\ cursor.tail < cursor.head
      /\ UNCHANGED <<tpc, cur, at, ring>>
      /\ cursor' = [cursor EXCEPT !.tail = @ + 1]
  BY DEF Deliver, others, threadVars
<1>2. cursor'.ring = cursor.ring /\ cursor'.tail = cursor.tail + 1 /\ cursor'.head = cursor.head
  BY <1>1, CursorFacts
<1>3. \A p : RecordAt(r, p)' = RecordAt(r, p)
  BY <1>1 DEF RecordAt, SlotAt
<1>4. Reserved(r)'
  BY <1>1 DEF Reserved
<1>5. CASE r # cursor.ring
  <2>1. ReadPos(r)' = ReadPos(r) /\ Pending(r)' = Pending(r)
    BY <1>1, <1>2, <1>5 DEF ReadPos, Pending
  <2>2. Ordered(r)'
    BY <1>1, <1>2, <1>3, <1>5, <2>1 DEF Ordered
  <2> QED BY <1>3, <1>4, <1>5, <2>1, <2>2 DEF SameRecords
<1>6. CASE r = cursor.ring
  <2>1. /\ ring[r].head \in Nat /\ ring[r].tail \in Nat /\ cursor.tail \in Nat /\ cursor.head \in Nat
    BY FieldTypes
  <2>2. /\ ReadPos(r) = cursor.tail /\ ReadPos(r)' = cursor.tail + 1
        /\ cursor.head <= ring[r].head /\ ring[r].tail <= cursor.tail
    BY <1>1, <1>2, <1>6 DEF ReadPos, Ordered
  <2>3. Pending(r) = cursor.tail .. ring[r].head - 1 /\ Pending(r)' = cursor.tail + 1 .. ring[r].head - 1
    BY <1>1, <2>2 DEF Pending
  <2>4. cursor.tail \in Pending(r) /\ Pending(r)' = Pending(r) \ {cursor.tail}
    BY <1>1, <2>1, <2>2, <2>3
  <2>5. Ordered(r)'
    <3>1. /\ ring'[r].tail <= ReadPos(r)' /\ ReadPos(r)' <= ring'[r].head
          /\ cursor'.tail <= cursor'.head /\ cursor'.head <= ring'[r].head
      BY <1>1, <1>2, <2>1, <2>2
    <3> QED BY <1>1, <1>3, <2>4, <3>1 DEF Ordered
  <2> QED BY <1>3, <1>4, <1>6, <2>4, <2>5 DEF Takes
<1> QED BY <1>5, <1>6

\* The three things a step can do to the records of the segments that have one
\* writer: nothing, but for claiming a spare, which starts empty; add one; take
\* one to the sink.
Quiet ==
  /\ UNCHANGED <<sink, logged>>
  /\ \A r \in Rings \ shared' : SameRecords(r) \/ (r \in Parked /\ Pending(r)' = {})

Publishes(t) ==
  /\ Publish(t) /\ sink' = sink /\ shared' = shared
  /\ \A r \in Rings \ shared :
       (r # cur[t] => SameRecords(r)) /\ (r = cur[t] => Adds(t, r))

Delivers ==
  /\ Deliver /\ logged' = logged /\ shared' = shared
  /\ \A r \in Rings \ shared :
       (r # cursor.ring => SameRecords(r)) /\ (r = cursor.ring => Takes(r))

Effect == Quiet \/ (\E t \in Threads : Publishes(t)) \/ Delivers

\* A thread's step keeps the positions in order and publishes at most one
\* record.
LEMMA ThreadStepPositions ==
  ASSUME Types, Structure, Positions, NEW t \in Threads, PlainThread(t)
  PROVE  Positions' /\ shared \subseteq shared' /\ Effect
<1>0. (tpc[t] # "register" => held[t] = None) /\ tpc \in [Threads -> TPcs]
      /\ ring \in [Rings -> Segment]
  BY DEF Types, ThreadTypes, RingTypes
<1>1. shared \subseteq shared'
  BY DEF PlainThread, FirstRing, RegisterRing, BeginLog, Reserve, Publish, HandOff, Grow, ClaimSpare,
         PoolEmpty, ThreadExit, TakeSpare, AllocFresh, history
<1>2. \A r \in Rings \ shared' : Ordered(r) /\ Reserved(r) /\ Alone(r) /\ Alone(r)'
  BY <1>1, AloneStep DEF Positions
<1>3. CASE Publish(t)
  <2>1. sink' = sink /\ shared' = shared
    BY <1>3 DEF Publish, drainVars, history
  <2>2. \A r \in Rings \ shared' : /\ Ordered(r)' /\ Reserved(r)'
                                   /\ r # cur[t] => SameRecords(r)
                                   /\ r = cur[t] => Adds(t, r)
    BY <1>2, <1>3, PublishPositions
  <2> QED BY <1>1, <1>2, <1>3, <2>1, <2>2 DEF Positions, Effect, Publishes
<1>4. CASE Reserve(t)
  <2>1. UNCHANGED <<sink, logged>>
    BY <1>4 DEF Reserve, drainVars
  <2>2. \A r \in Rings \ shared' : Ordered(r)' /\ Reserved(r)' /\ SameRecords(r)
    BY <1>2, <1>4, ReservePositions
  <2> QED BY <1>1, <1>2, <2>1, <2>2 DEF Positions, Effect, Quiet
<1>5. CASE TakeSpare(t) /\ tpc[t] # "register" /\ (FirstRing(t) \/ ClaimSpare(t))
  <2>1. /\ UNCHANGED <<sink, logged, registry, local, finalize, dpc, idx, cursor, cur, at>>
        /\ Goto(t, "register")
    BY <1>5 DEF FirstRing, ClaimSpare, drainVars
  <2>2. \A r \in Rings \ shared' : /\ Ordered(r)' /\ Reserved(r)'
                                   /\ SameRecords(r) \/ (r \in Parked /\ Pending(r)' = {})
    BY <1>0, <1>2, <1>5, <2>1, TakeSparePositions
  <2> QED BY <1>1, <1>2, <2>1, <2>2 DEF Positions, Effect, Quiet
<1>6. ASSUME UNCHANGED <<sink, logged, dpc, cursor>>, \A r \in Rings : SameFields(r),
             \A u \in Threads : tpc'[u] = "publish" =>
               tpc[u] = "publish" /\ at'[u] = at[u] /\ cur'[u] = cur[u]
      PROVE  Positions' /\ Effect
  <2>1. \A r \in Rings \ shared' : Ordered(r)' /\ Reserved(r)' /\ SameRecords(r)
    BY <1>2, <1>6, QuietPositions
  <2> QED BY <1>2, <1>6, <2>1 DEF Positions, Effect, Quiet
<1>7. CASE AllocFresh(t) /\ (FirstRing(t) \/ Grow(t))
  <2>1. UNCHANGED <<sink, logged, dpc, cursor, cur, at>> /\ ring' = ring /\ Goto(t, "register")
    BY <1>7 DEF FirstRing, Grow, AllocFresh, drainVars
  <2> QED BY <1>0, <1>1, <1>6, <2>1 DEF Goto, SameFields
<1>8. CASE BeginLog(t) \/ (tpc[t] = "spare" /\ PoolEmpty(t))
  <2>1. UNCHANGED <<sink, logged, dpc, cursor, cur, at, ring>>
    BY <1>8 DEF BeginLog, PoolEmpty, drainVars
  <2>2. \A u \in Threads : tpc'[u] = "publish" => tpc[u] = "publish"
    BY <1>0, <1>8 DEF BeginLog, PoolEmpty, Goto
  <2> QED BY <1>1, <1>6, <2>1, <2>2 DEF SameFields
<1>9. CASE RegisterRing(t)
  <2>1. UNCHANGED <<sink, logged, dpc, cursor, at>> /\ held[t] \in Rings /\ ring[held[t]] \in Segment
    BY <1>0, <1>9, CurrentRing DEF RegisterRing, drainVars, Types
  <2>2. \A r \in Rings : SameFields(r)
    BY <1>0, <1>9, <2>1 DEF RegisterRing, SameFields, Segment
  <2>3. \A u \in Threads : tpc'[u] = "publish" => tpc[u] = "publish" /\ u # t
    BY <1>0, <1>9 DEF RegisterRing, Goto
  <2>4. \A u \in Threads : u # t => cur'[u] = cur[u]
    BY <1>9 DEF RegisterRing, Types, ThreadTypes
  <2> QED BY <1>1, <1>6, <2>1, <2>2, <2>3, <2>4
<1>10. CASE HandOff(t) \/ ThreadExit(t)
  <2>1. UNCHANGED <<sink, logged, dpc, cursor, cur>> /\ cur[t] \in Rings /\ ring[cur[t]] \in Segment
    BY <1>0, <1>10, CurrentRing DEF HandOff, ThreadExit, drainVars, Types
  <2>2. \A r \in Rings : SameFields(r)
    <3>1. CASE HandOff(t)
      BY <1>0, <2>1, <3>1 DEF HandOff, SameFields, Segment
    <3>2. CASE ThreadExit(t)
      BY <1>0, <2>1, <3>2 DEF ThreadExit, SameFields, Segment
    <3> QED BY <1>10, <3>1, <3>2
  <2>3. \A u \in Threads : tpc'[u] = "publish" => tpc[u] = "publish" /\ u # t
    BY <1>0, <1>10 DEF HandOff, ThreadExit, Goto
  <2>4. \A u \in Threads : u # t => at'[u] = at[u]
    BY <1>10 DEF HandOff, ThreadExit, Types, ThreadTypes
  <2> QED BY <1>1, <1>6, <2>1, <2>2, <2>3, <2>4
<1>11. CASE FirstRing(t)
  BY <1>5, <1>7, <1>11 DEF FirstRing
<1>12. CASE tpc[t] = "spare" /\ ClaimSpare(t)
  BY <1>5, <1>12 DEF ClaimSpare
<1>13. CASE Grow(t)
  BY <1>7, <1>13 DEF Grow
<1> QED BY <1>3, <1>4, <1>8, <1>9, <1>10, <1>11, <1>12, <1>13 DEF PlainThread

\* The drain and the guard leave what the threads hold alone.
LEMMA DrainLeaves ==
  ASSUME Types, Structure, Drain \/ Guard \/ UNCHANGED vars
  PROVE  UNCHANGED <<shared, cur, held, at, logged, tpc>>
<1>1. shared' = shared /\ UNCHANGED <<cur, held, at, logged>>
  BY DEF Drain, Guard, vars, history, others, threadVars, GuardWalk, GuardSignal, GuardJoin, Top,
         SyncFilter, SyncReconcile, SyncRetain, Finalize, PollEntry, DrainRing, Deliver, StoreTail,
         ClearDraining, RetireCheck, Retire, DrainRecycle, TakeLines
<1>2. tpc' = tpc
  <2>1. CASE DrainRecycle
    BY <2>1, RecycleStep
  <2>2. CASE ~DrainRecycle
    BY <2>2
    DEF Drain, Guard, vars, others, threadVars, GuardWalk, GuardSignal, GuardJoin, Top,
        SyncFilter, SyncReconcile, SyncRetain, Finalize, PollEntry, DrainRing, Deliver, StoreTail,
        ClearDraining, RetireCheck, Retire, TakeLines
  <2> QED BY <2>1, <2>2
<1> QED BY <1>1, <1>2

\* So does a step of the drain or of the guard, which delivers at most one.
LEMMA DrainStepPositions ==
  ASSUME Types, Structure, Positions, Drain \/ Guard \/ UNCHANGED vars
  PROVE  Positions' /\ shared' = shared /\ Effect
<1>1. shared' = shared /\ UNCHANGED <<cur, held, at, logged>> /\ tpc' = tpc
  BY DrainLeaves
<1>2. tpc' = tpc
  BY <1>1
<1>3. \A r \in Rings \ shared : Ordered(r) /\ Reserved(r) /\ Alone(r)'
  BY <1>1, <1>2, AloneSame DEF Positions
<1>4. CASE DrainRing
  <2>1. sink' = sink
    BY <1>4 DEF DrainRing
  <2>2. \A r \in Rings \ shared : Ordered(r)' /\ Reserved(r)' /\ SameRecords(r)
    BY <1>3, <1>4, DrainRingPositions
  <2> QED BY <1>1, <1>3, <2>1, <2>2 DEF Positions, Effect, Quiet
<1>5. CASE StoreTail
  <2>1. sink' = sink
    BY <1>5 DEF StoreTail
  <2>2. \A r \in Rings \ shared : Ordered(r)' /\ Reserved(r)' /\ SameRecords(r)
    BY <1>3, <1>5, StoreTailPositions
  <2> QED BY <1>1, <1>3, <2>1, <2>2 DEF Positions, Effect, Quiet
<1>6. CASE Deliver
  <2>1. \A r \in Rings \ shared : /\ Ordered(r)' /\ Reserved(r)'
                                  /\ r # cursor.ring => SameRecords(r)
                                  /\ r = cursor.ring => Takes(r)
    BY <1>3, <1>6, DeliverPositions
  <2> QED BY <1>1, <1>3, <1>6, <2>1 DEF Positions, Effect, Delivers
<1>7. ASSUME sink' = sink, \A r \in Rings : SameFields(r),
             (dpc' = dpc /\ cursor' = cursor) \/ (dpc # "walk" /\ dpc' # "walk")
      PROVE  Positions' /\ Effect
  <2>1. \A r \in Rings \ shared : Ordered(r)' /\ Reserved(r)' /\ SameRecords(r)
    BY <1>1, <1>2, <1>3, <1>7, QuietPositions
  <2> QED BY <1>1, <1>3, <1>7, <2>1 DEF Positions, Effect, Quiet
<1>8. CASE Top \/ SyncFilter \/ SyncReconcile \/ SyncRetain \/ Finalize \/ PollEntry \/ RetireCheck
           \/ Retire
  <2>1. ring' = ring /\ sink' = sink /\ dpc # "walk" /\ dpc' # "walk"
    BY <1>8 DEF Top, SyncFilter, SyncReconcile, SyncRetain, Finalize, PollEntry, RetireCheck, Retire
  <2> QED BY <1>1, <1>7, <2>1 DEF SameFields
<1>9. CASE TakeLines
  <2>1. ring' = ring /\ sink' = sink /\ dpc # "walk" /\ dpc' # "walk"
    BY <1>9, NoLines DEF TakeLines
  <2> QED BY <1>1, <1>7, <2>1 DEF SameFields
<1>10. CASE UNCHANGED vars \/ GuardSignal \/ GuardJoin
  <2>1. UNCHANGED <<ring, sink, dpc, cursor>>
    BY <1>10 DEF vars, GuardSignal, GuardJoin, drainVars
  <2> QED BY <1>1, <1>7, <2>1 DEF SameFields
<1>11. CASE GuardWalk
  <2>1. UNCHANGED <<sink, dpc, cursor>>
    BY <1>11 DEF GuardWalk, drainVars
  <2>2. \A r \in Rings : SameFields(r)
    BY <1>11 DEF GuardWalk, SameFields, Types, RingTypes, Segment
  <2> QED BY <1>1, <1>7, <2>1, <2>2
<1>12. CASE ClearDraining \/ DrainRecycle
  <2>1. sink' = sink /\ dpc # "walk" /\ dpc' # "walk" /\ cursor.ring \in Rings
        /\ ring[cursor.ring] \in Segment
    BY <1>12, CursorFacts DEF ClearDraining, DrainRecycle
  <2>2. \A r \in Rings : SameFields(r)
    <3>1. CASE ClearDraining
      BY <2>1, <3>1 DEF ClearDraining, SameFields, Types, RingTypes, Segment
    <3>2. CASE DrainRecycle
      BY <2>1, <3>2 DEF DrainRecycle, SameFields, Types, RingTypes, Segment
    <3> QED BY <1>12, <3>1, <3>2
  <2> QED BY <1>1, <1>7, <2>1, <2>2
<1> QED BY <1>1, <1>4, <1>5, <1>6, <1>8, <1>9, <1>10, <1>11, <1>12 DEF Drain, Guard

\* Segments with one writer: the positions stay in order, whoever steps.
LEMMA PositionsStep ==
  ASSUME Types, Structure, Positions, ~helped, [Next]_vars, ~helped'
  PROVE  Positions' /\ shared \subseteq shared' /\ Effect
BY PlainSteps, ThreadStepPositions, DrainStepPositions DEF Types

-----------------------------------------------------------------------------
(* No record twice.                                                         *)

\* The n-th record of t is in segment r at p, and has not been read.
Holds(r, p, t, n) == p \in Pending(r) /\ RecordAt(r, p) = <<t, n>>

\* What is in the segments is in one place only, and not in the sink.
Once ==
  /\ \A r \in Rings : \A t \in Threads, n \in Nat : \A p :
       Holds(r, p, t, n) => n <= logged[t] /\ n \notin ToSet(sink[t])
  /\ \A r, q \in Rings : \A t \in Threads, n \in Nat : \A p, m :
       Holds(r, p, t, n) /\ Holds(q, m, t, n) => r = q /\ p = m
  /\ \A t \in Threads : /\ Distinct(sink[t])
                        /\ \A n \in ToSet(sink[t]) : n <= logged[t]

OnceInv == ~helped => Types /\ Structure /\ Positions /\ (shared = {} => Once)

\* Nothing is written or delivered at first.
LEMMA InitOnce ==
  ASSUME Init
  PROVE  OnceInv
<1>1. ASSUME NEW r \in Rings PROVE Pending(r) = {}
  <2>1. ring[r].head = 0 /\ ring[r].tail = 0 /\ dpc # "walk"
    BY DEF Init, NewSegment
  <2> QED BY <2>1 DEF ReadPos, Pending
<1>2. \A t \in Threads : sink[t] = <<>>
  BY DEF Init
<1>3. ToSet(<<>>) = {} /\ Distinct(<<>>)
  BY DEF ToSet, Distinct
<1> QED BY <1>1, <1>2, <1>3, InitTypes, InitStructure, InitPositions DEF OnceInv, Once, Holds

\* A step that neither publishes nor delivers keeps every record where it is.
LEMMA QuietOnce ==
  ASSUME Once, Quiet, shared' = {}
  PROVE  Once'
<1>1. \A r \in Rings : \A p, t, n : Holds(r, p, t, n)' => Holds(r, p, t, n)
  BY DEF Quiet, SameRecords, Holds
<1>2. UNCHANGED <<sink, logged>>
  BY DEF Quiet
<1> QED BY <1>1, <1>2 DEF Once

\* The published record is a new one: its number is past the thread's last.
LEMMA PublishOnce ==
  ASSUME Types, Once, NEW u \in Threads, Publishes(u), shared = {}
  PROVE  Once'
<1> DEFINE k == logged[u] + 1
<1>1. PICK j : j = k
  OBVIOUS
<1>2. PICK c : c = cur[u]
  OBVIOUS
<1>3. PICK h : h = ring[c].head
  OBVIOUS
<1>4. /\ logged \in [Threads -> Nat] /\ sink' = sink /\ sink \in [Threads -> Seq(Nat)]
      /\ logged' = [logged EXCEPT ![u] = j]
  BY <1>1 DEF Publishes, Publish, Types, ThreadTypes, DrainTypes
<1>5. /\ logged'[u] = j /\ j \in Nat /\ logged[u] < j
      /\ \A t \in Threads : logged[t] \in Nat /\ logged[t] <= logged'[t] /\ logged'[t] \in Nat
  BY <1>1, <1>4
<1> HIDE DEF k
<1>6. ASSUME NEW r \in Rings, NEW p, NEW t \in Threads, NEW n \in Nat, Holds(r, p, t, n)'
      PROVE  Holds(r, p, t, n) \/ (r = c /\ p = h /\ t = u /\ n = j)
  <2>1. CASE r # c
    BY <1>2, <1>6, <2>1 DEF Publishes, SameRecords, Holds
  <2>2. CASE r = c
    <3>1. Adds(u, r)
      BY <1>2, <2>2 DEF Publishes
    <3>2. p = h => <<t, n>> = <<u, j>>
      BY <1>1, <1>3, <1>6, <2>2, <3>1 DEF Adds, Holds, k
    <3>3. p # h => Holds(r, p, t, n)
      BY <1>3, <1>6, <2>2, <3>1 DEF Adds, Holds
    <3> QED BY <2>2, <3>2, <3>3
  <2> QED BY <2>1, <2>2
<1>7. \A t \in Threads : ToSet(sink[t]) \subseteq Nat
  BY <1>4, ToSetElements
<1>8. j \notin ToSet(sink[u])
  <2> SUFFICES ASSUME j \in ToSet(sink[u]) PROVE FALSE
    OBVIOUS
  <2>1. j <= logged[u]
    BY DEF Once
  <2> QED BY <1>5, <2>1
<1>9. ASSUME NEW r \in Rings, NEW p, NEW t \in Threads, NEW n \in Nat, Holds(r, p, t, n)'
      PROVE  n <= logged'[t] /\ n \notin ToSet(sink'[t])
  <2>1. CASE Holds(r, p, t, n)
    <3>1. n <= logged[t] /\ n \notin ToSet(sink[t])
      BY <2>1 DEF Once
    <3>2. n <= logged'[t]
      BY <1>5, <3>1
    <3> QED BY <1>4, <3>1, <3>2
  <2>2. CASE t = u /\ n = j
    BY <1>4, <1>5, <1>8, <2>2
  <2> QED BY <1>6, <1>9, <2>1, <2>2
<1>10. ASSUME NEW r \in Rings, NEW q \in Rings, NEW t \in Threads, NEW n \in Nat, NEW p, NEW m,
              Holds(r, p, t, n)', Holds(q, m, t, n)'
       PROVE  r = q /\ p = m
  <2>1. CASE t = u /\ n = j
    <3>1. ~(n <= logged[t])
      BY <1>5, <2>1
    <3>2. ~Holds(r, p, t, n) /\ ~Holds(q, m, t, n)
      BY <3>1 DEF Once
    <3> QED BY <1>6, <1>10, <3>2
  <2>2. CASE ~(t = u /\ n = j)
    <3>1. Holds(r, p, t, n) /\ Holds(q, m, t, n)
      BY <1>6, <1>10, <2>2
    <3> QED BY <3>1 DEF Once
  <2> QED BY <2>1, <2>2
<1>11. ASSUME NEW t \in Threads, NEW n \in ToSet(sink'[t]) PROVE n <= logged'[t]
  <2>1. n \in Nat /\ n <= logged[t]
    BY <1>4, <1>7, <1>11 DEF Once
  <2> QED BY <1>5, <2>1
<1>12. \A t \in Threads : Distinct(sink'[t])
  BY <1>4 DEF Once
<1> QED BY <1>9, <1>10, <1>11, <1>12 DEF Once

\* The delivered record leaves its segment in the same step.
LEMMA DeliverOnce ==
  ASSUME Types, Positions, Once, Delivers, shared = {}
  PROVE  Once'
<1>1. PICK c : c = cursor.ring
  OBVIOUS
<1>2. PICK h : h = cursor.tail
  OBVIOUS
<1>3. c \in Rings /\ Takes(c) /\ Ordered(c)
  BY <1>1, CursorFacts DEF Delivers, Deliver, Positions
<1>4. RecordAt(c, h) \in Record
  BY <1>2, <1>3 DEF Takes, Ordered
<1>5. PICK u \in Threads, k \in Nat : RecordAt(c, h) = <<u, k>>
  BY <1>4 DEF Record
<1>6. Holds(c, h, u, k)
  BY <1>2, <1>3, <1>5 DEF Holds, Takes
<1>7. /\ sink \in [Threads -> Seq(Nat)] /\ logged' = logged /\ logged \in [Threads -> Nat]
      /\ sink' = [sink EXCEPT ![u] = Append(sink[u], k)]
  BY <1>1, <1>2, <1>5 DEF Delivers, Deliver, RecordAt, Types, DrainTypes, ThreadTypes
<1>8. k <= logged[u] /\ k \notin ToSet(sink[u])
  BY <1>3, <1>6 DEF Once
<1>9. /\ ToSet(sink'[u]) = ToSet(sink[u]) \cup {k} /\ Distinct(sink'[u])
      /\ \A t \in Threads : t # u => sink'[t] = sink[t]
  <2>1. sink[u] \in Seq(Nat) /\ sink'[u] = Append(sink[u], k) /\ Distinct(sink[u])
    BY <1>7 DEF Once
  <2> QED BY <1>7, <1>8, <2>1, AppendDistinct
<1>10. ASSUME NEW r \in Rings, NEW p, NEW t, NEW n, Holds(r, p, t, n)'
       PROVE  Holds(r, p, t, n) /\ ~(r = c /\ p = h)
  <2>1. CASE r # c
    BY <1>1, <1>10, <2>1 DEF Delivers, SameRecords, Holds
  <2>2. CASE r = c
    BY <1>2, <1>3, <1>10, <2>2 DEF Takes, Holds
  <2> QED BY <2>1, <2>2
<1>11. ASSUME NEW r \in Rings, NEW p, NEW t \in Threads, NEW n \in Nat, Holds(r, p, t, n)'
       PROVE  n <= logged'[t] /\ n \notin ToSet(sink'[t])
  <2>1. Holds(r, p, t, n) /\ ~(r = c /\ p = h)
    BY <1>10, <1>11
  <2>2. n <= logged[t] /\ n \notin ToSet(sink[t])
    BY <2>1 DEF Once
  <2>3. ~(t = u /\ n = k)
    BY <1>3, <1>6, <2>1 DEF Once
  <2> QED BY <1>7, <1>9, <2>2, <2>3
<1>12. \A t \in Threads : Distinct(sink'[t]) /\ \A n \in ToSet(sink'[t]) : n <= logged'[t]
  BY <1>7, <1>8, <1>9 DEF Once
<1>13. ASSUME NEW r \in Rings, NEW q \in Rings, NEW t \in Threads, NEW n \in Nat, NEW p, NEW m,
              Holds(r, p, t, n)', Holds(q, m, t, n)'
       PROVE  r = q /\ p = m
  BY <1>10, <1>13 DEF Once
<1> QED BY <1>11, <1>12, <1>13 DEF Once

\* Every step keeps the invariant, as each is quiet, a publication or a delivery.
LEMMA OnceStep ==
  ASSUME OnceInv, [Next]_vars
  PROVE  OnceInv'
<1>1. SUFFICES ASSUME ~helped' PROVE Types' /\ Structure' /\ Positions' /\ (shared' = {} => Once')
  BY DEF OnceInv
<1>2. ~helped
  BY <1>1, HelpedStays
<1>3. Types /\ Structure /\ Positions /\ (shared = {} => Once)
  BY <1>2 DEF OnceInv
<1>4. Types' /\ Structure' /\ Positions' /\ shared \subseteq shared' /\ Effect
  BY <1>1, <1>2, <1>3, StructureStep, PositionsStep
<1>5. ASSUME shared' = {} PROVE Once'
  <2>1. shared = {} /\ Once
    BY <1>3, <1>4, <1>5
  <2> QED BY <1>3, <1>4, <1>5, <2>1, QuietOnce, PublishOnce, DeliverOnce DEF Effect
<1> QED BY <1>4, <1>5

\* The inductive invariant behind DrainedOnce.
THEOREM OnceInvariant == Spec => []OnceInv
<1> QED BY InitOnce, OnceStep, PTL DEF Spec

\* For any number of threads and records, any pool and both policies: as long
\* as no thread formats its own segment and no segment has two writers, no record
\* reaches the sink twice.
THEOREM NoRecordTwice == Spec => []DrainedOnce
<1>1. ASSUME OnceInv PROVE DrainedOnce
  <2>1. SUFFICES ASSUME ~helped, shared = {} PROVE AtMostOnce
    BY DEF DrainedOnce
  <2>2. Types /\ Once
    BY <1>1, <2>1 DEF OnceInv
  <2>3. \A t \in Threads : DOMAIN sink[t] = 1 .. Len(sink[t]) /\ Distinct(sink[t])
    BY <2>2 DEF Types, DrainTypes, Once
  <2> QED BY <2>3 DEF AtMostOnce, Distinct
<1> QED BY <1>1, OnceInvariant, PTL

-----------------------------------------------------------------------------
(* No record is left behind.                                                *)

\* A record the drain owes its thread is in r at p, not read yet.
OwedAt(r, p, t, n) == Holds(r, p, t, n) /\ n \in Owes(t)

Owing(r) == \E p : \E t \in Threads, n \in Nat : OwedAt(r, p, t, n)

\* The drain will still come to r: by the registry as long as its thread is
\* alive, by a list from then on, and in the final pass by sync_rings' last drain.
Reachable(r) ==
  /\ r \in Registered \cup LocalSet \cup Closing
  /\ ring[r].live => r \in Registered /\ gpc = "held"
  /\ dpc = "reconcile" /\ ~ring[r].live => r \in Closing
  /\ dpc = "retain" /\ ~ring[r].live => r \in Closing \cup LocalSet
  /\ final /\ dpc \notin {"top", "sync"} => r \in Closing
  /\ dpc \in {"clear", "recycle"} /\ finalize # <<>> => r # Head(finalize)

Accounted ==
  \A t \in Threads : \A n \in Owes(t) :
    n \in ToSet(sink[t]) \/ \E r \in Rings \ shared : \E p : Holds(r, p, t, n)

\* What the drain retires is empty, and the last drain of a segment reads all
\* that is owed.
RetiresEmpty ==
  dpc = "retire" /\ cursor.ring \notin shared => ~Owing(cursor.ring)

LastDrain ==
  dpc = "walk" /\ finalize # <<>> /\ cursor.ring \notin shared =>
    \A p : \A t \in Threads, n \in Nat : OwedAt(cursor.ring, p, t, n) => p < cursor.head

Passing ==
  /\ RetiresEmpty /\ LastDrain
  /\ dpc = "retain" => \A r \in Registered : ring[r].live => r \in LocalSet

Ending ==
  /\ gpc = "held" => \A t \in Threads : Writing(t) => cur[t] \in Registered
  /\ gpc # "held" => \A t \in Threads : owed[t] <= logged[t]
  /\ shutdown \/ final => gpc # "held"
  /\ dpc = "done" => final

NothingLeft ==
  /\ Accounted
  /\ \A r \in Rings \ shared : Owing(r) => Reachable(r)
  /\ Passing /\ Ending

StopInv ==
  ~helped => /\ Types /\ Structure /\ Positions /\ (gpc = "held" => Pool)
             /\ shared = {} => Once
             /\ ~slipped => NothingLeft

\* What the guard's walk does to the records owed: nothing.
LEMMA OwesStep ==
  ASSUME Types, [Next]_vars
  PROVE  /\ logged' = logged => \A t \in Threads : Owes(t)' = Owes(t)
         /\ \A u \in Threads : Publish(u) => gpc' = gpc /\ owed' = owed
         /\ gpc' = "held" => gpc = "held"
<1>1. \/ gpc' = gpc /\ owed' = owed
      \/ gpc # "held" /\ gpc' # "held" /\ owed' = owed
      \/ gpc = "held" /\ gpc' # "held" /\ owed' = logged
  <2>1. ASSUME NEW t \in Threads, Thread(t) PROVE gpc' = gpc /\ owed' = owed
    BY <2>1 DEF Thread, history, guardVars, FirstRing, RegisterRing, BeginLog, InCall, Reserve,
       Publish, HandOff, Grow, ClaimSpare, PoolEmpty, ReserveForHelper, HelperSpin, HelperFormat,
       HelperQueue, HelperRecycle, CheckLive, Woken, ThreadExit
  <2>2. CASE UNCHANGED vars
    BY <2>2 DEF vars, history, guardVars
  <2>3. CASE Guard
    BY <2>3 DEF Guard, GuardWalk, GuardSignal, GuardJoin, history
  <2>4. CASE Drain
    <3>1. gpc' = gpc /\ owed' = owed
      BY <2>4 DEF Drain, others, history, guardVars, Top, SyncFilter, SyncReconcile, SyncRetain, Finalize, PollEntry,
       DrainRing, Deliver, StoreTail, ClearDraining, RetireCheck, Retire, DrainRecycle, TakeLines
    <3> QED BY <3>1
  <2> QED BY <2>1, <2>2, <2>3, <2>4 DEF Next
<1>2. ASSUME logged' = logged, NEW t \in Threads PROVE Owes(t)' = Owes(t)
  BY <1>1, <1>2 DEF Owes
<1>3. ASSUME NEW u \in Threads, Publish(u) PROVE gpc' = gpc /\ owed' = owed
  BY <1>3 DEF Publish, guardVars, history
<1> QED BY <1>1, <1>2, <1>3

\* Only publishing adds to what is owed.
OnlyPublished ==
  \A r \in Rings \ shared' : \A p : \A t \in Threads, n \in Nat :
    OwedAt(r, p, t, n)' =>
      \/ OwedAt(r, p, t, n)
      \/ gpc = "held" /\ \E u \in Threads : Publish(u) /\ r = cur[u]

\* Every record owed stays accounted for.
LEMMA OwingStep ==
  ASSUME Types, Structure, Positions, gpc = "held" => Pool, shared = {} => Once, NothingLeft,
         [Next]_vars, Effect, shared \subseteq shared', shared' \subseteq shared \cup Parked
  PROVE  Accounted' /\ OnlyPublished
<1>0. \A r \in Rings \ shared : r \in Parked => ~Owing(r)
  BY DEF NothingLeft, Reachable, Structure, Apart, Listed
<1>1. CASE Quiet
  <2>1. sink' = sink /\ \A t \in Threads : Owes(t)' = Owes(t)
    BY <1>1, OwesStep DEF Quiet
  <2>2. ASSUME NEW t \in Threads, NEW n \in Owes(t)'
        PROVE  n \in ToSet(sink'[t]) \/ \E r \in Rings \ shared' : \E p : Holds(r, p, t, n)'
    <3>1. n \in Owes(t) /\ n \in Nat
      <4>1. n \in Owes(t)
        BY <2>1, <2>2
      <4>2. logged[t] \in Nat /\ owed[t] \in Nat
        BY DEF Types, DrainTypes, ThreadTypes
      <4>3. n \in 1 .. logged[t] \/ n \in 1 .. owed[t]
        BY <4>1 DEF Owes
      <4> QED BY <4>1, <4>2, <4>3
    <3>2. SUFFICES ASSUME NEW r \in Rings \ shared, NEW p, Holds(r, p, t, n)
                   PROVE  \E q \in Rings \ shared' : Holds(q, p, t, n)'
      BY <2>1, <3>1 DEF NothingLeft, Accounted
    <3>3. r \notin Parked
      BY <1>0, <3>1, <3>2 DEF Owing, OwedAt
    <3>4. r \in Rings \ shared' /\ SameRecords(r)
      BY <1>1, <3>3 DEF Quiet
    <3> QED BY <3>2, <3>4 DEF SameRecords, Holds
  <2>3. ASSUME NEW r \in Rings \ shared', NEW p, NEW t \in Threads, NEW n \in Nat, OwedAt(r, p, t, n)'
        PROVE  OwedAt(r, p, t, n)
    BY <1>1, <2>1, <2>3 DEF Quiet, SameRecords, OwedAt, Holds
  <2> QED BY <2>2, <2>3 DEF Accounted, OnlyPublished
<1>2. ASSUME NEW u \in Threads, Publishes(u)
      PROVE  Accounted' /\ OnlyPublished
  <2>1. PICK c : c = cur[u]
    OBVIOUS
  <2>2. PICK h : h = ring[c].head
    OBVIOUS
  <2>3. PICK k : k = logged[u] + 1
    OBVIOUS
  <2>4. /\ Publish(u) /\ logged \in [Threads -> Nat] /\ owed \in [Threads -> Nat] /\ c \in Rings
        /\ logged' = [logged EXCEPT ![u] = k] /\ k \in Nat /\ gpc' = gpc /\ owed' = owed
        /\ sink' = sink /\ shared' = shared
    <3>1. Publish(u) /\ sink' = sink /\ shared' = shared
      BY <1>2 DEF Publishes
    <3>2. /\ logged \in [Threads -> Nat] /\ owed \in [Threads -> Nat] /\ c \in Rings
      BY <2>1, <3>1, CurrentRing DEF Publish, Types, ThreadTypes, DrainTypes
    <3>3. logged' = [logged EXCEPT ![u] = k]
      BY <2>3, <3>1, <3>2 DEF Publish
    <3>4. k \in Nat
      BY <2>3, <3>2
    <3>5. gpc' = gpc /\ owed' = owed
      BY <3>1, OwesStep
    <3> QED BY <3>1, <3>2, <3>3, <3>4, <3>5
  <2>5. \A t \in Threads : t # u \/ gpc # "held" => Owes(t)' = Owes(t)
    BY <2>4 DEF Owes
  <2>6. gpc = "held" => Owes(u)' = Owes(u) \cup {k}
    <3>1. ASSUME gpc = "held" PROVE Owes(u)' = 1 .. k /\ Owes(u) = 1 .. logged[u]
      BY <2>4, <3>1 DEF Owes
    <3>2. logged[u] \in Nat /\ k = logged[u] + 1
      BY <2>3, <2>4
    <3>3. 1 .. k = (1 .. logged[u]) \cup {k}
      BY <3>2
    <3> QED BY <3>1, <3>3
  <2>7. ASSUME NEW r \in Rings \ shared, NEW p, NEW t, NEW n, Holds(r, p, t, n)
        PROVE  Holds(r, p, t, n)'
    <3>1. CASE r # c
      BY <1>2, <2>1, <2>7, <3>1 DEF Publishes, SameRecords, Holds
    <3>2. CASE r = c
      BY <1>2, <2>1, <2>7, <3>2 DEF Publishes, Adds, Holds
    <3> QED BY <3>1, <3>2
  <2>8. ASSUME gpc = "held" PROVE c \in Rings \ shared /\ Holds(c, h, u, k)'
    <3>1. shared = {} /\ Adds(u, c)
      BY <1>2, <2>1, <2>4, <2>8 DEF Pool, Publishes
    <3> QED BY <2>2, <2>3, <2>4, <3>1 DEF Adds, Holds
  <2>9. ASSUME NEW t \in Threads, NEW n \in Owes(t)'
        PROVE  n \in ToSet(sink'[t]) \/ \E r \in Rings \ shared' : \E p : Holds(r, p, t, n)'
    <3>1. CASE n \in Owes(t)
      <4>1. n \in ToSet(sink[t]) \/ \E r \in Rings \ shared : \E p : Holds(r, p, t, n)
        BY <3>1 DEF NothingLeft, Accounted
      <4>2. ASSUME NEW r \in Rings \ shared, NEW p, Holds(r, p, t, n) PROVE Holds(r, p, t, n)'
        BY <2>7, <4>2
      <4> QED BY <2>4, <4>1, <4>2
    <3>2. CASE n \notin Owes(t)
      <4>1. gpc = "held" /\ t = u /\ n = k
        BY <2>5, <2>6, <2>9, <3>2
      <4>2. Holds(c, h, t, n)' /\ c \in Rings \ shared
        BY <2>8, <4>1
      <4>3. c \in Rings \ shared'
        BY <2>4, <4>2
      <4> QED BY <4>2, <4>3
    <3> QED BY <3>1, <3>2
  <2>10. ASSUME NEW r \in Rings \ shared', NEW p, NEW t \in Threads, NEW n \in Nat, OwedAt(r, p, t, n)',
                ~(gpc = "held" /\ r = c)
         PROVE  OwedAt(r, p, t, n)
    <3>1. CASE r # c
      <4>1. Holds(r, p, t, n) /\ SameRecords(r)
        BY <1>2, <2>1, <2>4, <2>10, <3>1 DEF Publishes, SameRecords, Holds, OwedAt
      <4>2. n \in Owes(t)
        <5>1. SUFFICES ASSUME gpc = "held", t = u, n = k PROVE FALSE
          BY <2>5, <2>6, <2>10 DEF OwedAt
        <5>2. Once
          BY <5>1 DEF Pool
        <5>3. k <= logged[u]
          BY <2>4, <2>10, <4>1, <5>1, <5>2 DEF Once
        <5>4. logged[u] \in Nat /\ k = logged[u] + 1
          BY <2>3, <2>4
        <5> QED BY <5>3, <5>4
      <4> QED BY <4>1, <4>2 DEF OwedAt
    <3>2. CASE r = c
      <4>1. gpc # "held" /\ n \in Owes(t) /\ Adds(u, r)
        BY <1>2, <2>1, <2>4, <2>5, <2>10, <3>2 DEF OwedAt, Publishes
      <4>2. p # h
        <5> SUFFICES ASSUME p = h PROVE FALSE
          OBVIOUS
        <5>1. <<t, n>> = <<u, k>>
          BY <2>2, <2>3, <2>10, <3>2, <4>1 DEF Adds, OwedAt, Holds
        <5>2. n = k /\ t = u /\ n \in 1 .. owed[u] /\ owed[u] <= logged[u]
          BY <4>1, <5>1 DEF Owes, NothingLeft, Ending
        <5>3. owed[u] \in Nat /\ logged[u] \in Nat /\ k = logged[u] + 1
          BY <2>3, <2>4
        <5> QED BY <5>2, <5>3
      <4>3. Holds(r, p, t, n)
        BY <2>2, <2>10, <3>2, <4>1, <4>2 DEF Adds, OwedAt, Holds
      <4> QED BY <4>1, <4>3 DEF OwedAt
    <3> QED BY <3>1, <3>2
  <2> QED BY <2>1, <2>4, <2>9, <2>10 DEF Accounted, OnlyPublished
<1>3. CASE Delivers
  <2>1. PICK c : c = cursor.ring
    OBVIOUS
  <2>2. PICK h : h = cursor.tail
    OBVIOUS
  <2>3. c \in Rings /\ h \in Nat /\ Deliver /\ logged' = logged /\ shared' = shared
    BY <1>3, <2>1, <2>2, CursorFacts DEF Delivers, Deliver
  <2>4. SlotAt(ring[c], h) \in Record
    <3>1. ring[c].data \in [0 .. Slots - 1 -> Record \cup {<<>>}] /\ h % Slots \in 0 .. Slots - 1
      BY <2>3, FieldTypes, RingFacts
    <3> QED BY <2>1, <2>2, <2>3, <3>1 DEF Deliver, SlotAt
  <2>5. PICK u \in Threads, k \in Nat : SlotAt(ring[c], h) = <<u, k>>
    BY <2>4 DEF Record
  <2>6. sink' = [sink EXCEPT ![u] = Append(sink[u], k)] /\ sink \in [Threads -> Seq(Nat)]
    BY <2>1, <2>2, <2>3, <2>5 DEF Deliver, Types, DrainTypes
  <2>7. /\ ToSet(sink'[u]) = ToSet(sink[u]) \cup {k}
        /\ \A t \in Threads : t # u => sink'[t] = sink[t]
    <3>1. sink[u] \in Seq(Nat) /\ sink'[u] = Append(sink[u], k)
      BY <2>6
    <3> QED BY <2>6, <3>1, AppendDistinct
  <2>8. \A t \in Threads : Owes(t)' = Owes(t)
    BY <2>3, OwesStep
  <2>9. ASSUME NEW r \in Rings \ shared, NEW p, NEW t, NEW n, Holds(r, p, t, n)
        PROVE  Holds(r, p, t, n)' \/ (t = u /\ n = k)
    <3>1. CASE r # c
      BY <1>3, <2>1, <2>9, <3>1 DEF Delivers, SameRecords, Holds
    <3>2. CASE r = c
      <4>1. Takes(r)
        BY <1>3, <2>1, <3>2 DEF Delivers
      <4>2. p = h => <<t, n>> = <<u, k>>
        BY <2>5, <2>9, <3>2 DEF Holds, RecordAt
      <4>3. p # h => Holds(r, p, t, n)'
        BY <2>2, <2>9, <4>1 DEF Takes, Holds
      <4> QED BY <4>2, <4>3
    <3> QED BY <3>1, <3>2
  <2>10. ASSUME NEW t \in Threads, NEW n \in Owes(t)'
         PROVE  n \in ToSet(sink'[t]) \/ \E r \in Rings \ shared' : \E p : Holds(r, p, t, n)'
    <3>1. n \in ToSet(sink[t]) \/ \E r \in Rings \ shared : \E p : Holds(r, p, t, n)
      BY <2>8, <2>10 DEF NothingLeft, Accounted
    <3>2. ToSet(sink[t]) \subseteq ToSet(sink'[t])
      BY <2>7
    <3>3. ASSUME NEW r \in Rings \ shared, NEW p, Holds(r, p, t, n)
          PROVE  n \in ToSet(sink'[t]) \/ Holds(r, p, t, n)'
      BY <2>7, <2>9, <3>3
    <3> QED BY <2>3, <3>1, <3>2, <3>3
  <2>11. ASSUME NEW r \in Rings \ shared', NEW p, NEW t \in Threads, NEW n \in Nat, OwedAt(r, p, t, n)'
         PROVE  OwedAt(r, p, t, n)
    <3>1. Holds(r, p, t, n)
      <4>1. CASE r # c
        BY <1>3, <2>1, <2>3, <2>11, <4>1 DEF Delivers, SameRecords, Holds, OwedAt
      <4>2. CASE r = c
        BY <1>3, <2>1, <2>3, <2>11, <4>2 DEF Delivers, Takes, Holds, OwedAt
      <4> QED BY <4>1, <4>2
    <3> QED BY <2>8, <2>11, <3>1 DEF OwedAt
  <2> QED BY <2>10, <2>11 DEF Accounted, OnlyPublished
<1> QED BY <1>1, <1>2, <1>3 DEF Effect, Publishes

\* A thread that publishes while the guard is held.
LEMMA PublisherFacts ==
  ASSUME Types, Structure, Pool, NothingLeft, gpc = "held", NEW u \in Threads, Publish(u)
  PROVE  /\ cur[u] \in Registered /\ ring[cur[u]].live /\ ring'[cur[u]].live
         /\ ~ring[cur[u]].handed_off /\ cur[u] \notin Closing
<1>1. Writing(u) /\ cur[u] \in Rings /\ ring[cur[u]] \in Segment
  BY CurrentRing DEF Publish, Writing, Types, RingTypes
<1>2. cur[u] \in Registered /\ ring[cur[u]].live /\ ~ring[cur[u]].handed_off
  BY <1>1 DEF NothingLeft, Ending, Pool, Writers
<1>3. ring'[cur[u]].live
  BY <1>1, <1>2 DEF Publish, Types, RingTypes, Segment
<1>4. cur[u] \notin Closing
  BY <1>2 DEF Structure, Phase
<1> QED BY <1>2, <1>3, <1>4

\* What a step of a thread does to the lists and to live.
LEMMA ThreadLists ==
  ASSUME Types, Structure, NEW t \in Threads, PlainThread(t), ~slipped'
  PROVE  /\ UNCHANGED <<local, finalize, dpc, final, cursor, gpc, shutdown, owed>> /\ ~slipped
         /\ Registered \subseteq Registered'
         /\ dpc \in {"reconcile", "retain"} => Registered' = Registered
         /\ \A r \in Rings :
              \/ ring'[r].live = ring[r].live
              \/ r \in Parked
              \/ ~ring'[r].live /\ dpc # "reconcile"
<1>1. UNCHANGED <<local, finalize, dpc, final, cursor, gpc, shutdown, owed>> /\ ~slipped
  <2>1. UNCHANGED <<local, finalize, dpc, final, cursor, gpc, shutdown, owed>>
    BY DEF PlainThread, FirstRing, RegisterRing, BeginLog, Reserve, Publish, HandOff, Grow, ClaimSpare,
           PoolEmpty, ThreadExit, history, drainVars, guardVars
  <2>2. slipped' = slipped \/ slipped' = (slipped \/ dpc = "reconcile")
    BY DEF PlainThread, FirstRing, RegisterRing, BeginLog, Reserve, Publish, HandOff, Grow, ClaimSpare,
           PoolEmpty, ThreadExit, history
  <2>3. ~slipped
    BY <2>2, Zenon
  <2> QED BY <2>1, <2>3
<1>2. CASE RegisterRing(t)
  <2>1. held[t] \in Rings /\ ring[held[t]] \in Segment /\ registry \in Seq(Rings) /\ Unlocked
    BY <1>2, CurrentRing DEF RegisterRing, Types, RingTypes, ListTypes
  <2>2. Registered \subseteq Registered'
    <3>1. registry' = registry \/ registry' = Append(registry, held[t])
      BY <1>2 DEF RegisterRing
    <3>2. ToSet(Append(registry, held[t])) = ToSet(registry) \cup {held[t]}
      BY <2>1, AppendDistinct
    <3> QED BY <3>1, <3>2 DEF Registered
  <2>3. \A r \in Rings : ring'[r].live = ring[r].live
    BY <1>2, <2>1 DEF RegisterRing, Types, RingTypes, Segment
  <2> QED BY <1>1, <2>1, <2>2, <2>3 DEF Unlocked
<1>3. CASE ~RegisterRing(t)
  <2>1. registry' = registry
    BY <1>3 DEF PlainThread, FirstRing, BeginLog, Reserve, Publish, HandOff, Grow, ClaimSpare,
         PoolEmpty, ThreadExit
  <2>2. ring \in [Rings -> Segment] /\ (tpc[t] \notin {"new", "register"} => cur[t] \in Rings)
    BY CurrentRing DEF Types, RingTypes
  <2>3. ASSUME NEW r \in Rings
        PROVE  \/ ring'[r].live = ring[r].live
               \/ r \in Parked
               \/ ~ring'[r].live /\ dpc # "reconcile"
    <3>1. CASE TakeSpare(t)
      <4>1. Last(spares) \in Parked /\ Last(spares) \in Rings
        <5>1. spares # <<>> /\ spares \in Seq(1 .. PoolSize) /\ Distinct(spares)
          BY <3>1 DEF TakeSpare, Types, ListTypes, Structure, Lists
        <5> DEFINE S == 1 .. PoolSize
        <5> HIDE DEF S
        <5>2. Last(spares) \in ToSet(spares)
          BY <5>1, FrontDistinct DEF S
        <5> QED BY <3>1, <5>2, TakeSpareTypes DEF Parked, Types
      <4> QED BY <2>2, <3>1, <4>1 DEF TakeSpare
    <3>2. CASE AllocFresh(t) \/ BeginLog(t) \/ PoolEmpty(t)
      BY <3>2 DEF AllocFresh, BeginLog, PoolEmpty
    <3>3. CASE Reserve(t)
      BY <2>2, <3>3 DEF Reserve, Segment
    <3>4. CASE Publish(t)
      BY <2>2, <3>4 DEF Publish, Segment
    <3>5. CASE HandOff(t)
      BY <2>2, <3>5 DEF HandOff, Segment
    <3>6. CASE ThreadExit(t)
      <4>1. dpc # "reconcile"
        BY <3>6 DEF ThreadExit
      <4> QED BY <2>2, <3>6, <4>1 DEF ThreadExit, Segment
    <3> QED BY <1>3, <3>1, <3>2, <3>3, <3>4, <3>5, <3>6 DEF PlainThread, FirstRing, Grow, ClaimSpare
  <2> QED BY <1>1, <2>1, <2>3 DEF Registered
<1> QED BY <1>2, <1>3

\* No step of a thread makes a segment with records unreachable for the drain.
LEMMA ThreadStepReaches ==
  ASSUME Types, Structure, gpc = "held" => Pool, NothingLeft, OnlyPublished, shared \subseteq shared',
         NEW t \in Threads, PlainThread(t), ~slipped'
  PROVE  (\A r \in Rings \ shared' : Owing(r)' => Reachable(r)') /\ Passing' /\ Ending'
<1>0. /\ UNCHANGED <<local, finalize, dpc, final, cursor, gpc, shutdown, owed>>
      /\ Registered \subseteq Registered'
      /\ dpc \in {"reconcile", "retain"} => Registered' = Registered
      /\ LocalSet' = LocalSet /\ Closing' = Closing
  BY ThreadLists DEF LocalSet, Closing
<1>1. \A r \in Rings \ shared' :
        Owing(r)' => Owing(r) \/ (gpc = "held" /\ \E u \in Threads : Publish(u) /\ r = cur[u])
  BY DEF OnlyPublished, Owing
<1>2. ASSUME NEW r \in Rings \ shared', Owing(r)' PROVE Reachable(r)'
  <2>1. CASE Owing(r)
    <3>1. Reachable(r)
      BY <2>1 DEF NothingLeft
    <3>2. r \notin Parked
      BY <3>1 DEF Reachable, Structure, Apart, Listed
    <3>3. ring'[r].live = ring[r].live \/ (~ring'[r].live /\ dpc # "reconcile")
      BY <3>2, ThreadLists
    <3>4. dpc = "retain" /\ ~ring'[r].live => r \in Closing \cup LocalSet
      BY <3>1, <3>3 DEF Reachable, NothingLeft, Passing
    <3>5. ring'[r].live => r \in Registered /\ gpc = "held"
      BY <3>1, <3>3 DEF Reachable
    <3>6. dpc = "reconcile" /\ ~ring'[r].live => r \in Closing
      BY <3>1, <3>3 DEF Reachable
    <3> QED BY <1>0, <3>1, <3>4, <3>5, <3>6 DEF Reachable
  <2>2. ASSUME gpc = "held", NEW u \in Threads, Publish(u), r = cur[u] PROVE Reachable(r)'
    <3>1. r \in Registered /\ ring'[r].live /\ r \notin Closing
      BY <2>2, PublisherFacts
    <3>2. ~final
      BY <2>2 DEF NothingLeft, Ending
    <3>3. finalize # <<>> => r # Head(finalize)
      BY <3>1, ListFacts
    <3> QED BY <1>0, <2>2, <3>1, <3>2, <3>3 DEF Reachable
  <2> QED BY <1>1, <1>2, <2>1, <2>2
<1>3. Passing'
  <2>1. ASSUME dpc = "retire", cursor.ring \notin shared', Owing(cursor.ring)' PROVE FALSE
    <3>0. PICK c : c = cursor.ring
      OBVIOUS
    <3>1. c \in Rings \ shared' /\ Owing(c)' /\ c \notin shared
      BY <1>0, <2>1, <3>0, CursorFacts DEF Owing
    <3>2. ~Owing(c)
      BY <2>1, <3>0, <3>1 DEF NothingLeft, Passing, RetiresEmpty
    <3>3. gpc = "held" => ring[c].handed_off
      BY <2>1, <3>0 DEF Pool
    <3> QED BY <1>1, <3>1, <3>2, <3>3, PublisherFacts
  <2>2. ASSUME dpc = "walk", finalize # <<>>, cursor.ring \notin shared',
               NEW p, NEW v \in Threads, NEW n \in Nat, OwedAt(cursor.ring, p, v, n)'
        PROVE  p < cursor.head
    <3>0. PICK c : c = cursor.ring
      OBVIOUS
    <3>1. c \in Rings \ shared' /\ OwedAt(c, p, v, n)' /\ c \notin shared
      BY <1>0, <2>2, <3>0, CursorFacts DEF OwedAt, Holds, Pending, ReadPos, RecordAt
    <3>2. c \in Closing
      BY <2>2, <3>0, ListFacts DEF Structure, Phase
    <3>3. OwedAt(c, p, v, n)
      BY <3>1, <3>2, PublisherFacts DEF OnlyPublished
    <3> QED BY <2>2, <3>0, <3>1, <3>3 DEF NothingLeft, Passing, LastDrain
  <2>3. ASSUME dpc = "retain", NEW r \in Registered', ring'[r].live PROVE r \in LocalSet
    <3>1. r \in Registered /\ r \in Rings /\ r \notin Parked
      BY <1>0, <2>3, ListFacts DEF Structure, Apart, Listed
    <3>2. ring[r].live
      BY <2>3, <3>1, ThreadLists
    <3> QED BY <2>3, <3>1, <3>2 DEF NothingLeft, Passing
  <2> QED BY <1>0, <2>1, <2>2, <2>3 DEF Passing, RetiresEmpty, LastDrain
<1>4. Ending'
  <2>0. tpc \in [Threads -> TPcs] /\ cur \in [Threads -> Rings \cup {None}]
        /\ logged \in [Threads -> Nat] /\ owed \in [Threads -> Nat]
    BY DEF Types, ThreadTypes, DrainTypes
  <2>1. ASSUME gpc = "held", NEW u \in Threads, Writing(u)' PROVE cur'[u] \in Registered'
    <3>1. CASE RegisterRing(t) /\ u = t
      <4>1. registry \in Seq(Rings) /\ held[t] \in Rings
        BY <3>1, CurrentRing DEF RegisterRing, Types, ListTypes
      <4>2. held[t] \in Registered'
        <5>1. CASE Contains(registry, held[t])
          BY <3>1, <4>1, <5>1, ToSetElements DEF RegisterRing, Registered
        <5>2. CASE ~Contains(registry, held[t])
          <6>1. registry' = Append(registry, held[t])
            BY <3>1, <5>2 DEF RegisterRing
          <6> QED BY <4>1, <6>1, AppendDistinct DEF Registered
        <5> QED BY <5>1, <5>2
      <4> QED BY <2>0, <3>1, <4>2 DEF RegisterRing
    <3>2. CASE ~(RegisterRing(t) /\ u = t)
      <4>1. Writing(u) /\ cur'[u] = cur[u]
        <5>1. CASE u # t
          BY <2>0, <2>1, <5>1 DEF PlainThread, FirstRing, RegisterRing, BeginLog, Reserve, Publish,
             HandOff, Grow, ClaimSpare, PoolEmpty, ThreadExit, Goto, Writing
        <5>2. CASE u = t
          BY <2>0, <2>1, <3>2, <5>2 DEF PlainThread, FirstRing, BeginLog, Reserve, Publish,
             HandOff, Grow, ClaimSpare, PoolEmpty, ThreadExit, Goto, Writing
        <5> QED BY <5>1, <5>2
      <4> QED BY <1>0, <2>1, <4>1 DEF NothingLeft, Ending
    <3> QED BY <3>1, <3>2
  <2>2. ASSUME gpc # "held", NEW u \in Threads PROVE owed'[u] <= logged'[u]
    <3>1. logged'[u] = logged[u] \/ logged'[u] = logged[u] + 1
      BY <2>0 DEF PlainThread, FirstRing, RegisterRing, BeginLog, Reserve, Publish,
             HandOff, Grow, ClaimSpare, PoolEmpty, ThreadExit
    <3>2. owed'[u] = owed[u] /\ owed[u] <= logged[u] /\ owed[u] \in Nat /\ logged[u] \in Nat
      BY <1>0, <2>0, <2>2 DEF NothingLeft, Ending
    <3> QED BY <3>1, <3>2
  <2> QED BY <1>0, <2>1, <2>2 DEF NothingLeft, Ending
<1> QED BY <1>2, <1>3, <1>4

\* The drain and the guard add nothing to what is owed.
LEMMA NothingPublished ==
  ASSUME Types, Structure, OnlyPublished, Drain \/ Guard \/ UNCHANGED vars
  PROVE  /\ \A r \in Rings \ shared' : \A p : \A t \in Threads, n \in Nat :
              OwedAt(r, p, t, n)' => OwedAt(r, p, t, n)
         /\ \A r \in Rings \ shared' : Owing(r)' => Owing(r)
<1>1. \A u \in Threads : ~Publish(u)
  <2>1. tpc' = tpc /\ tpc \in [Threads -> TPcs]
    BY DrainLeaves DEF Types, ThreadTypes
  <2> QED BY <2>1 DEF Publish, Goto
<1>2. ASSUME NEW r \in Rings \ shared', NEW p, NEW t \in Threads, NEW n \in Nat, OwedAt(r, p, t, n)'
      PROVE  OwedAt(r, p, t, n)
  BY <1>1, <1>2 DEF OnlyPublished
<1> QED BY <1>2 DEF Owing

\* A pass that goes on is where it was.
LEMMA SamePass ==
  ASSUME Types, NothingLeft, UNCHANGED <<dpc, cursor, finalize, shared>>,
         \A r \in Rings \ shared : \A p : \A t \in Threads, n \in Nat :
           OwedAt(r, p, t, n)' => OwedAt(r, p, t, n)
  PROVE  RetiresEmpty' /\ LastDrain'
<1>0. PICK c : c = cursor.ring
  OBVIOUS
<1>1. dpc \in {"retire", "walk"} => c \in Rings
  BY <1>0, CursorFacts
<1>2. dpc = "retire" /\ c \notin shared => ~Owing(c)'
  BY <1>0, <1>1 DEF NothingLeft, Passing, RetiresEmpty, Owing
<1>3. ASSUME dpc = "walk", finalize # <<>>, c \notin shared, NEW p, NEW t \in Threads, NEW n \in Nat,
             OwedAt(c, p, t, n)'
      PROVE  p < cursor.head
  BY <1>0, <1>1, <1>3 DEF NothingLeft, Passing, LastDrain
<1>4. c = cursor'.ring /\ cursor' = cursor
  BY <1>0
<1>5. dpc' = "retire" /\ cursor'.ring \notin shared' => ~Owing(cursor.ring)'
  BY <1>2, <1>4
<1>6. dpc' = "walk" /\ finalize' # <<>> /\ cursor'.ring \notin shared' =>
        \A p : \A t \in Threads, n \in Nat : OwedAt(cursor.ring, p, t, n)' => p < cursor'.head
  BY <1>3, <1>4
<1> QED BY <1>5, <1>6 DEF RetiresEmpty, LastDrain

\* Steps that leave the lists, the phase of the drain and live alone.
LEMMA RestReaches ==
  ASSUME Types, Structure, NothingLeft, OnlyPublished,
         UNCHANGED vars \/ GuardSignal \/ GuardJoin
  PROVE  (\A r \in Rings \ shared' : Owing(r)' => Reachable(r)') /\ Passing' /\ Ending'
<1>1. /\ UNCHANGED <<registry, local, finalize, dpc, final, cursor, ring, owed, shared, cur, tpc, logged>>
      /\ gpc' = "held" <=> gpc = "held"
      /\ shutdown' => shutdown \/ gpc = "walked"
  BY DEF vars, GuardSignal, GuardJoin, drainVars, threadVars, history, guardVars, config
<1>2. /\ Registered' = Registered /\ LocalSet' = LocalSet /\ Closing' = Closing
      /\ \A u \in Threads : Writing(u)' <=> Writing(u)
  BY <1>1 DEF Registered, LocalSet, Closing, Writing
<1>3. /\ \A r \in Rings \ shared : \A p : \A t \in Threads, n \in Nat :
           OwedAt(r, p, t, n)' => OwedAt(r, p, t, n)
      /\ \A r \in Rings \ shared : Owing(r)' => Owing(r)
  BY <1>1, NothingPublished DEF Guard
<1>4. ASSUME NEW r \in Rings \ shared', Owing(r)' PROVE Reachable(r)'
  <2>1. Reachable(r)
    BY <1>1, <1>3, <1>4 DEF NothingLeft
  <2> QED BY <1>1, <1>2, <2>1 DEF Reachable
<1>5. Passing'
  <2>1. RetiresEmpty' /\ LastDrain'
    BY <1>1, <1>3, SamePass
  <2>2. dpc' = "retain" => \A r \in Registered' : ring'[r].live => r \in LocalSet'
    BY <1>1, <1>2 DEF NothingLeft, Passing
  <2> QED BY <2>1, <2>2 DEF Passing
<1>6. Ending'
  BY <1>1, <1>2 DEF NothingLeft, Ending
<1> QED BY <1>4, <1>5, <1>6

\* The guard's walk: every segment with something owed is registered, and dies.
LEMMA WalkReaches ==
  ASSUME Types, Structure, NothingLeft, OnlyPublished, GuardWalk
  PROVE  (\A r \in Rings \ shared' : Owing(r)' => Reachable(r)') /\ Passing' /\ Ending'
<1>1. /\ UNCHANGED <<registry, local, finalize, dpc, final, cursor, shared, cur, tpc, logged, shutdown>>
      /\ gpc = "held" /\ gpc' = "walked" /\ owed' = logged /\ dpc \notin {"reconcile", "retain"}
      /\ \A r \in Rings : ring'[r].live => ring[r].live /\ ~Contains(registry, r)
  BY DEF GuardWalk, drainVars, threadVars, Unlocked, Types, RingTypes, Segment
<1>2. /\ Registered' = Registered /\ LocalSet' = LocalSet /\ Closing' = Closing
  BY <1>1 DEF Registered, LocalSet, Closing
<1>3. /\ \A r \in Rings \ shared : \A p : \A t \in Threads, n \in Nat :
           OwedAt(r, p, t, n)' => OwedAt(r, p, t, n)
      /\ \A r \in Rings \ shared : Owing(r)' => Owing(r)
  BY <1>1, NothingPublished DEF Guard
<1>4. ASSUME NEW r \in Rings \ shared', Owing(r)' PROVE Reachable(r)'
  <2>1. Reachable(r) /\ ~final
    BY <1>1, <1>3, <1>4 DEF NothingLeft, Ending
  <2>2. ~ring'[r].live
    BY <1>1, <2>1, ListFacts DEF Reachable
  <2> QED BY <1>1, <1>2, <2>1, <2>2 DEF Reachable
<1>5. Passing'
  <2>1. RetiresEmpty' /\ LastDrain'
    BY <1>1, <1>3, SamePass
  <2> QED BY <1>1, <2>1 DEF Passing
<1>6. Ending'
  <2>1. \A t \in Threads : owed'[t] <= logged'[t]
    BY <1>1 DEF Types, ThreadTypes
  <2> QED BY <1>1, <2>1 DEF NothingLeft, Ending
<1> QED BY <1>4, <1>5, <1>6

\* The steps of the drain that leave every list alone.
LEMMA QuietDrainReaches ==
  ASSUME Types, Structure, Positions, NothingLeft, OnlyPublished, QuietDrain
  PROVE  (\A r \in Rings \ shared' : Owing(r)' => Reachable(r)') /\ Passing' /\ Ending'
<1>1. UNCHANGED <<shared, cur, tpc, logged>>
  BY DrainLeaves DEF Drain, QuietDrain
<1>2. UNCHANGED <<registry, local, finalize, gpc, shutdown, owed>>
  BY DEF QuietDrain, Top, Finalize, PollEntry, DrainRing, Deliver, StoreTail, ClearDraining,
         RetireCheck, TakeLines, others, guardVars, history
<1>3. /\ Registered' = Registered /\ LocalSet' = LocalSet /\ Closing' = Closing
      /\ \A u \in Threads : Writing(u)' <=> Writing(u)
      /\ \A r \in Rings : ring'[r].live = ring[r].live
  BY <1>1, <1>2, QuietDrainRings DEF Registered, LocalSet, Closing, Writing
<1>4. /\ \A r \in Rings \ shared : \A p : \A t \in Threads, n \in Nat :
           OwedAt(r, p, t, n)' => OwedAt(r, p, t, n)
      /\ \A r \in Rings \ shared : Owing(r)' => Owing(r)
  BY <1>1, NothingPublished DEF Drain, QuietDrain
<1>5. /\ dpc' \notin {"reconcile", "retain"}
      /\ (final' = final /\ dpc \notin {"top", "sync"}) \/ (final' = shutdown /\ dpc' = "sync")
      /\ dpc' = "done" => final'
      /\ dpc' = "retire" => RetireCheck
      /\ dpc' = "walk" => DrainRing \/ Deliver
      /\ dpc' = "clear" => DrainRing \/ StoreTail
      /\ dpc' = "recycle" => dpc = "clear"
  <2>1. CASE Top
    BY <2>1 DEF Top
  <2>2. CASE Finalize \/ PollEntry
    BY <2>2 DEF Finalize, PollEntry
  <2>3. CASE DrainRing
    <3>1. dpc = "drain" /\ final' = final /\ dpc' \in {"clear", "walk"}
      BY <2>3 DEF DrainRing
    <3> QED BY <2>3, <3>1
  <2>4. CASE Deliver
    <3>1. dpc = "walk" /\ final' = final /\ dpc' = dpc
      BY <2>4 DEF Deliver
    <3> QED BY <2>4, <3>1
  <2>8. CASE StoreTail
    <3>1. dpc = "walk" /\ final' = final /\ dpc' = "clear"
      BY <2>8 DEF StoreTail
    <3> QED BY <2>8, <3>1
  <2>5. CASE ClearDraining
    BY <2>5 DEF ClearDraining
  <2>6. CASE RetireCheck
    <3>1. dpc = "check" /\ final' = final /\ dpc' \in {"retire", "poll"}
      BY <2>6 DEF RetireCheck
    <3> QED BY <2>6, <3>1
  <2>7. CASE TakeLines
    <3>1. dpc = "poll" /\ final' = final /\ dpc' \in {"done", "top"}
      BY <2>7 DEF TakeLines
    <3>2. dpc' = "done" => final
      <4> SUFFICES ASSUME ~final PROVE dpc' # "done"
        OBVIOUS
      <4> QED BY <2>7 DEF TakeLines
    <3> QED BY <3>1, <3>2
  <2> QED BY <2>1, <2>2, <2>3, <2>4, <2>5, <2>6, <2>7, <2>8 DEF QuietDrain
<1>6. PICK c : c = cursor.ring
  OBVIOUS
<1>7. dpc \in {"drain", "walk", "clear", "check"} =>
        /\ c \in Rings /\ ring[c] \in Segment
        /\ finalize # <<>> => c = Head(finalize)
  BY <1>6, CursorFacts DEF Structure, Phase
<1>8. ASSUME DrainRing, c \notin shared
      PROVE  /\ ring'[c].head = ring[c].head /\ ring'[c].tail = ring[c].tail
             /\ cursor'.head = ring[c].head
             /\ dpc' = "clear" => ring[c].tail = ring[c].head
  <2>1. c \in Rings /\ ring[c] \in Segment /\ dpc = "drain"
    BY <1>7, <1>8 DEF DrainRing
  <2>2. ring'[c].head = ring[c].head /\ ring'[c].tail = ring[c].tail
    BY <1>6, <1>8, <2>1 DEF DrainRing, Types, RingTypes, Segment
  <2>3. ring[c].head_cache = ring[c].tail
    BY <1>8, <2>1 DEF Positions, Ordered
  <2>4. PassHead(ring[c]) = ring[c].head
    BY <2>3 DEF PassHead
  <2> QED BY <1>6, <1>8, <2>2, <2>4 DEF DrainRing
<1>9. ASSUME NEW r \in Rings \ shared, Owing(r)', dpc' \in {"clear", "recycle"}, finalize # <<>>
      PROVE  r # Head(finalize)
  <2>1. CASE DrainRing /\ r = c
    <3>1. dpc' = "clear"
      BY <1>9, <2>1 DEF DrainRing
    <3>2. ring'[c].head = ring[c].head /\ ring'[c].tail = ring[c].tail /\ ring[c].tail = ring[c].head
      BY <1>8, <1>9, <2>1, <3>1
    <3>3. ring[r].head \in Nat
      BY FieldTypes
    <3>4. Pending(r)' = {}
      BY <2>1, <3>1, <3>2, <3>3 DEF Pending, ReadPos
    <3> QED BY <1>9, <3>4 DEF Owing, OwedAt, Holds
  <2>2. CASE StoreTail /\ r = c
    <3>1. PICK p : \E t \in Threads, n \in Nat : OwedAt(r, p, t, n)'
      BY <1>9 DEF Owing
    <3>2. PICK t \in Threads, n \in Nat : OwedAt(r, p, t, n)'
      BY <3>1
    <3>3. OwedAt(r, p, t, n) /\ dpc = "walk"
      BY <1>4, <2>2, <3>2 DEF StoreTail
    <3>4. p < cursor.head
      BY <1>6, <1>9, <2>2, <3>3 DEF NothingLeft, Passing, LastDrain
    <3>5. cursor.tail = cursor.head
      BY <1>6, <2>2, StoreTailPositions DEF Positions
    <3>6. p \in cursor.tail .. ring[r].head - 1
      BY <1>6, <2>2, <3>3 DEF OwedAt, Holds, Pending, ReadPos
    <3>7. cursor.tail \in Nat /\ cursor.head \in Nat /\ ring[r].head \in Nat
      BY FieldTypes
    <3> QED BY <3>4, <3>5, <3>6, <3>7
  <2>3. CASE dpc = "clear"
    BY <1>4, <1>9, <2>3 DEF NothingLeft, Reachable
  <2>4. CASE r # c /\ dpc # "clear"
    <3>1. dpc \in {"drain", "walk"}
      BY <1>5, <1>9, <2>4 DEF DrainRing, StoreTail
    <3> QED BY <1>7, <1>9, <2>4, <3>1
  <2> QED BY <1>5, <1>9, <2>1, <2>2, <2>3, <2>4
<1>10. ASSUME NEW r \in Rings \ shared', Owing(r)' PROVE Reachable(r)'
  <2>1. Reachable(r) /\ r \notin shared
    BY <1>1, <1>4, <1>10 DEF NothingLeft
  <2>2. dpc' \in {"clear", "recycle"} /\ finalize' # <<>> => r # Head(finalize')
    BY <1>2, <1>9, <1>10, <2>1
  <2>3. ring'[r].live => r \in Registered' /\ gpc' = "held"
    BY <1>2, <1>3, <2>1 DEF Reachable
  <2>4. final' /\ dpc' \notin {"top", "sync"} => r \in Closing'
    BY <1>3, <1>5, <2>1 DEF Reachable
  <2>5. r \in Registered' \cup LocalSet' \cup Closing'
    BY <1>3, <2>1 DEF Reachable
  <2> QED BY <1>5, <2>2, <2>3, <2>4, <2>5 DEF Reachable
<1>11. RetiresEmpty'
  <2> SUFFICES ASSUME dpc' = "retire", cursor'.ring \notin shared', Owing(cursor.ring)' PROVE FALSE
    BY DEF RetiresEmpty
  <2>1. RetireCheck /\ finalize = <<>> /\ cursor' = cursor /\ ring' = ring /\ dpc = "check"
    BY <1>5 DEF RetireCheck, Structure, Phase
  <2>2. c = local[idx].ring /\ c \in Rings /\ c = cursor'.ring
    BY <1>6, <1>7, <2>1 DEF Structure, Phase
  <2>3. ring[c].head = ring[c].tail
    BY <2>1, <2>2 DEF RetireCheck
  <2>4. ring[c].head \in Nat
    BY <2>2, FieldTypes
  <2>5. Pending(c)' = {}
    BY <2>1, <2>3, <2>4 DEF Pending, ReadPos
  <2>6. Owing(c)'
    BY <2>2
  <2> QED BY <2>5, <2>6 DEF Owing, OwedAt, Holds
<1>12. LastDrain'
  <2> SUFFICES ASSUME dpc' = "walk", finalize' # <<>>, cursor'.ring \notin shared', NEW p,
                      NEW t \in Threads, NEW n \in Nat, OwedAt(cursor.ring, p, t, n)'
               PROVE  p < cursor'.head
    BY DEF LastDrain
  <2>1. cursor'.ring = c /\ c \in Rings \ shared
    <3>1. CASE DrainRing
      <4>1. dpc = "drain" /\ cursor'.ring = c
        BY <1>6, <3>1 DEF DrainRing
      <4> QED BY <1>1, <1>7, <4>1
    <3>2. CASE Deliver
      <4>1. dpc = "walk" /\ cursor' = [cursor EXCEPT !.tail = @ + 1]
        BY <3>2 DEF Deliver
      <4>2. cursor'.ring = c
        BY <1>6, <4>1, CursorFacts
      <4> QED BY <1>1, <1>7, <4>1, <4>2
    <3> QED BY <1>5, <3>1, <3>2
  <2>2. OwedAt(c, p, t, n)'
    BY <2>1
  <2>3. CASE DrainRing
    <3>1. cursor'.head = ring[c].head /\ ring'[c].head = ring[c].head
      BY <1>8, <2>1, <2>3
    <3>2. p \in ReadPos(c)' .. ring[c].head - 1
      BY <2>2, <3>1 DEF OwedAt, Holds, Pending
    <3>3. ReadPos(c)' \in Nat /\ ring[c].head \in Nat
      <4>1. ring[c].head \in Nat /\ ring[c].tail \in Nat
        BY <2>1, FieldTypes
      <4>2. ReadPos(c)' = ring[c].tail
        BY <1>6, <1>8, <2>1, <2>3 DEF ReadPos, DrainRing
      <4> QED BY <4>1, <4>2
    <3> QED BY <3>1, <3>2, <3>3
  <2>4. CASE Deliver
    <3>1. OwedAt(c, p, t, n) /\ dpc = "walk" /\ cursor'.head = cursor.head
      BY <1>4, <2>1, <2>2, <2>4, CursorFacts DEF Deliver
    <3> QED BY <1>2, <1>6, <2>1, <3>1 DEF NothingLeft, Passing, LastDrain
  <2> QED BY <1>5, <2>3, <2>4
<1>13. Passing'
  BY <1>5, <1>11, <1>12 DEF Passing
<1>14. Ending'
  BY <1>1, <1>2, <1>3, <1>5 DEF NothingLeft, Ending
<1> QED BY <1>10, <1>13, <1>14

\* sync_rings sets aside every dead segment it has on a list.
LEMMA FilterReaches ==
  ASSUME Types, Structure, NothingLeft, OnlyPublished, SyncFilter
  PROVE  (\A r \in Rings \ shared' : Owing(r)' => Reachable(r)') /\ Passing' /\ Ending'
<1>1. UNCHANGED <<shared, cur, tpc, logged, registry, local, ring, gpc, shutdown, owed, final>>
      /\ dpc = "sync" /\ dpc' = "reconcile"
  BY DEF SyncFilter, others, threadVars, guardVars, history
<1>2. /\ Registered' = Registered /\ LocalSet' = LocalSet
      /\ \A u \in Threads : Writing(u)' <=> Writing(u)
  BY <1>1 DEF Registered, LocalSet, Writing
<1>3. \A r \in Rings \ shared : Owing(r)' => Owing(r)
  BY <1>1, NothingPublished DEF Drain
<1>4. \A r \in Rings : r \in Registered \cup LocalSet /\ ~ring[r].live => r \in Closing'
  <2> DEFINE gone == {r \in Rings : ~Keep(r)}
             a == Filter(registry, gone)
             b == Filter(LocalRings(local), gone \ ToSet(registry))
  <2>1. registry \in Seq(Rings) /\ LocalRings(local) \in Seq(Rings)
    BY RingsOfEntries DEF Types, ListTypes
  <2>2. /\ a \in Seq(Rings) /\ ToSet(a) = Registered \cap gone
        /\ b \in Seq(Rings) /\ ToSet(b) = LocalSet \cap (gone \ Registered)
    BY <2>1, FilterDistinct DEF Registered, LocalSet
  <2>3. finalize' = a \o b
    BY DEF SyncFilter
  <2>4. \A r \in Rings : r \in gone <=> ~ring[r].live
    BY ListFacts
  <2> HIDE DEF a, b, gone
  <2>5. Closing' = (Registered \cap gone) \cup (LocalSet \cap (gone \ Registered))
    BY <2>2, <2>3, ConcatDistinct DEF Closing
  <2> QED BY <2>4, <2>5
<1>5. Closing = {}
  BY <1>1, ListFacts DEF Structure, Phase
<1>6. ASSUME NEW r \in Rings \ shared', Owing(r)' PROVE Reachable(r)'
  <2>1. Reachable(r)
    BY <1>1, <1>3, <1>6 DEF NothingLeft
  <2>2. ~ring[r].live => r \in Closing'
    BY <1>4, <1>5, <2>1 DEF Reachable
  <2>3. final => ~ring[r].live
    BY <2>1 DEF Reachable, NothingLeft, Ending
  <2> QED BY <1>1, <1>2, <1>5, <2>1, <2>2, <2>3 DEF Reachable
<1>7. Passing'
  BY <1>1 DEF Passing, RetiresEmpty, LastDrain
<1>8. Ending'
  BY <1>1, <1>2 DEF NothingLeft, Ending
<1> QED BY <1>6, <1>7, <1>8

\* Its list has afterwards what is registered and live.
LEMMA ReconcileReaches ==
  ASSUME Types, Structure, NothingLeft, OnlyPublished, SyncReconcile
  PROVE  (\A r \in Rings \ shared' : Owing(r)' => Reachable(r)') /\ Passing' /\ Ending'
<1>1. UNCHANGED <<shared, cur, tpc, logged, registry, finalize, ring, gpc, shutdown, owed, final>>
      /\ dpc = "reconcile" /\ dpc' = "retain"
  BY DEF SyncReconcile, others, threadVars, guardVars, history
<1>2. /\ Registered' = Registered /\ Closing' = Closing
      /\ \A u \in Threads : Writing(u)' <=> Writing(u)
  BY <1>1 DEF Registered, Closing, Writing
<1>3. \A r \in Rings \ shared : Owing(r)' => Owing(r)
  BY <1>1, NothingPublished DEF Drain
<1>4. LocalSet' = {r \in Registered : ring[r].live}
  <2>1. ToSet(LocalRings(local')) = {r \in ToSet(registry) : Keep(r)}
    BY SyncedList, ListFacts DEF Types, ListTypes, Structure, Lists
  <2> QED BY <2>1, ListFacts DEF LocalSet, Registered
<1>5. ASSUME NEW r \in Rings \ shared', Owing(r)' PROVE Reachable(r)'
  <2>1. Reachable(r)
    BY <1>1, <1>3, <1>5 DEF NothingLeft
  <2> QED BY <1>1, <1>2, <2>1 DEF Reachable
<1>6. Passing'
  BY <1>1, <1>2, <1>4 DEF Passing, RetiresEmpty, LastDrain
<1>7. Ending'
  BY <1>1, <1>2 DEF NothingLeft, Ending
<1> QED BY <1>5, <1>6, <1>7

\* The registry forgets the dead ones.
LEMMA RetainReaches ==
  ASSUME Types, Structure, gpc = "held" => Pool, NothingLeft, OnlyPublished, SyncRetain
  PROVE  (\A r \in Rings \ shared' : Owing(r)' => Reachable(r)') /\ Passing' /\ Ending'
<1>1. UNCHANGED <<shared, cur, tpc, logged, local, finalize, ring, gpc, shutdown, owed, final>>
      /\ dpc = "retain" /\ dpc' = "finalize"
  BY DEF SyncRetain, others, threadVars, guardVars, history
<1>2. /\ LocalSet' = LocalSet /\ Closing' = Closing
      /\ \A u \in Threads : Writing(u)' <=> Writing(u)
  BY <1>1 DEF LocalSet, Closing, Writing
<1>3. \A r \in Rings \ shared : Owing(r)' => Owing(r)
  BY <1>1, NothingPublished DEF Drain
<1>4. Registered' = {r \in Registered : ring[r].live}
  <2> DEFINE K == {r \in Rings : Keep(r)}
  <2>1. registry' = Filter(registry, K) /\ registry \in Seq(Rings)
    BY DEF SyncRetain, Types, ListTypes
  <2>2. ToSet(Filter(registry, K)) = Registered \cap K
    BY <2>1, FilterDistinct DEF Registered
  <2>3. \A r \in Registered : r \in K <=> ring[r].live
    BY ListFacts
  <2> HIDE DEF K
  <2> QED BY <2>1, <2>2, <2>3 DEF Registered
<1>5. ASSUME NEW r \in Rings \ shared', Owing(r)' PROVE Reachable(r)'
  <2>1. Reachable(r)
    BY <1>1, <1>3, <1>5 DEF NothingLeft
  <2> QED BY <1>1, <1>2, <1>4, <2>1 DEF Reachable
<1>6. Passing'
  BY <1>1 DEF Passing, RetiresEmpty, LastDrain
<1>7. Ending'
  BY <1>1, <1>2, <1>4 DEF NothingLeft, Ending, Pool, Writers
<1> QED BY <1>5, <1>6, <1>7

\* What maybe_retire takes off the lists is empty, and nobody writes to it.
LEMMA RetireReaches ==
  ASSUME Types, Structure, gpc = "held" => Pool, NothingLeft, OnlyPublished, Retire
  PROVE  (\A r \in Rings \ shared' : Owing(r)' => Reachable(r)') /\ Passing' /\ Ending'
<1>1. UNCHANGED <<shared, cur, tpc, logged, finalize, ring, gpc, shutdown, owed, final>>
      /\ dpc = "retire" /\ dpc' \in {"recycle", "poll"} /\ finalize = <<>>
  BY DEF Retire, others, threadVars, guardVars, history, Structure, Phase
<1>2. Closing' = Closing /\ \A u \in Threads : Writing(u)' <=> Writing(u)
  BY <1>1 DEF Closing, Writing
<1>3. \A r \in Rings \ shared : Owing(r)' => Owing(r)
  BY <1>1, NothingPublished DEF Drain
<1>4. PICK c : c = cursor.ring
  OBVIOUS
<1>5. c = local[idx].ring /\ idx \in 1 .. Len(local) /\ c \in Rings
  BY <1>1, <1>4, CursorFacts, ListFacts DEF Structure, Phase, Types, DrainTypes
<1>6. /\ Registered \ {c} \subseteq Registered'
      /\ LocalSet \ {c} \subseteq LocalSet'
  <2>1. CASE registry' = registry /\ local' = local
    BY <2>1 DEF Registered, LocalSet
  <2>2. CASE registry' = Filter(registry, Rings \ {c}) /\ local' = SwapRemove(local, idx)
    <3>1. /\ registry \in Seq(Rings) /\ local \in Seq(Entries) /\ Distinct(LocalRings(local))
          /\ Registered \subseteq Rings
      BY ListFacts DEF Types, ListTypes, Structure, Lists
    <3> DEFINE K == Rings \ {c}
    <3>2. ToSet(Filter(registry, K)) = Registered \cap K
      BY <3>1, FilterDistinct DEF Registered
    <3>3. ToSet(LocalRings(SwapRemove(local, idx))) = LocalSet \ {c}
      BY <1>5, <3>1, SwapRemoveDistinct DEF LocalSet
    <3>4. Registered' = Registered \cap K /\ LocalSet' = LocalSet \ {c}
      BY <2>2, <3>2, <3>3 DEF Registered, LocalSet
    <3> QED BY <3>1, <3>4
  <2> QED BY <1>5, <2>1, <2>2 DEF Retire
<1>7. ASSUME NEW r \in Rings \ shared', Owing(r)' PROVE Reachable(r)'
  <2>1. Reachable(r) /\ Owing(r) /\ r \notin shared
    BY <1>1, <1>3, <1>7 DEF NothingLeft
  <2>2. r # c
    BY <1>1, <1>4, <2>1 DEF NothingLeft, Passing, RetiresEmpty
  <2> QED BY <1>1, <1>2, <1>6, <2>1, <2>2 DEF Reachable
<1>8. Passing'
  BY <1>1 DEF Passing, RetiresEmpty, LastDrain
<1>9. Ending'
  <2>1. ASSUME gpc = "held", NEW u \in Threads, Writing(u) PROVE cur[u] \in Registered'
    <3>1. cur[u] # c
      BY <1>1, <1>4, <2>1 DEF Pool, Writers
    <3> QED BY <1>6, <2>1, <3>1 DEF NothingLeft, Ending
  <2> QED BY <1>1, <1>2, <2>1 DEF NothingLeft, Ending
<1> QED BY <1>7, <1>8, <1>9

\* A segment whose last drain is over holds nothing owed when it is parked.
LEMMA RecycleReaches ==
  ASSUME Types, Structure, NothingLeft, OnlyPublished, DrainRecycle
  PROVE  (\A r \in Rings \ shared' : Owing(r)' => Reachable(r)') /\ Passing' /\ Ending'
<1>1. UNCHANGED <<shared, cur, tpc, logged>>
  BY DrainLeaves DEF Drain
<1>2. /\ UNCHANGED <<registry, local, gpc, shutdown, owed, final>> /\ dpc = "recycle"
      /\ dpc' \in {"finalize", "poll"}
      /\ finalize' = IF finalize # <<>> THEN Tail(finalize) ELSE finalize
  BY DEF DrainRecycle, InFinalize, guardVars, history
<1>3. /\ Registered' = Registered /\ LocalSet' = LocalSet
      /\ \A u \in Threads : Writing(u)' <=> Writing(u)
      /\ \A r \in Rings : ring'[r].live = ring[r].live
  BY <1>1, <1>2, RecycleStep DEF Registered, LocalSet, Writing
<1>4. \A r \in Rings \ shared : Owing(r)' => Owing(r)
  BY <1>1, NothingPublished DEF Drain
<1>5. \A r \in Closing : finalize # <<>> /\ r # Head(finalize) => r \in Closing'
  <2>1. SUFFICES ASSUME finalize # <<>> PROVE ToSet(Tail(finalize)) = Closing \ {Head(finalize)}
    BY <1>2 DEF Closing
  <2>2. finalize \in Seq(Rings) /\ Distinct(finalize)
    BY DEF Types, ListTypes, Structure, Lists
  <2> QED BY <2>1, <2>2, TailDistinct DEF Closing
<1>6. ASSUME NEW r \in Rings \ shared', Owing(r)' PROVE Reachable(r)'
  <2>1. Reachable(r)
    BY <1>1, <1>4, <1>6 DEF NothingLeft
  <2>2. r \in Closing => r \in Closing'
    BY <1>2, <1>5, <2>1, ListFacts DEF Reachable
  <2> QED BY <1>2, <1>3, <2>1, <2>2 DEF Reachable
<1>7. Passing'
  BY <1>2 DEF Passing, RetiresEmpty, LastDrain
<1>8. Ending'
  BY <1>1, <1>2, <1>3 DEF NothingLeft, Ending
<1> QED BY <1>6, <1>7, <1>8

\* No segment owes a record at first.
LEMMA InitStop ==
  ASSUME Init
  PROVE  StopInv
<1>1. Types /\ Structure /\ Positions /\ ~helped /\ Once /\ (gpc = "held" => Pool)
  BY InitOnce, InitPool DEF OnceInv, PoolInv, Init
<1>2. ASSUME NEW r \in Rings PROVE ~Owing(r)
  <2>1. ring[r].head = 0 /\ ring[r].tail = 0 /\ dpc # "walk"
    BY DEF Init, NewSegment
  <2>2. Pending(r) = {}
    BY <2>1 DEF ReadPos, Pending
  <2> QED BY <2>2 DEF Owing, OwedAt, Holds
<1>3. \A t \in Threads : Owes(t) = {}
  BY DEF Init, Owes
<1>4. Passing
  BY DEF Init, Passing, RetiresEmpty, LastDrain
<1>5. Ending
  BY DEF Init, Ending, Writing
<1> QED BY <1>1, <1>2, <1>3, <1>4, <1>5 DEF StopInv, NothingLeft, Accounted

\* Only a spare can get a second writer.
LEMMA SharedWereParked ==
  ASSUME Types, Structure, ~helped, [Next]_vars, ~helped'
  PROVE  shared' \subseteq shared \cup Parked
<1>1. ASSUME NEW t \in Threads, PlainThread(t) PROVE shared' \subseteq shared \cup Parked
  <2>1. CASE TakeSpare(t)
    <3>1. spares # <<>> /\ spares \in Seq(1 .. PoolSize) /\ Distinct(spares)
      BY <2>1 DEF TakeSpare, Types, ListTypes, Structure, Lists
    <3> DEFINE S == 1 .. PoolSize
    <3> HIDE DEF S
    <3>2. Last(spares) \in ToSet(spares)
      BY <3>1, FrontDistinct DEF S
    <3> QED BY <2>1, <3>2 DEF TakeSpare, Parked
  <2>2. CASE ~TakeSpare(t)
    BY <1>1, <2>2 DEF PlainThread, FirstRing, RegisterRing, BeginLog, Reserve, Publish, HandOff, Grow,
       ClaimSpare, PoolEmpty, ThreadExit, AllocFresh, history
  <2> QED BY <2>1, <2>2
<1>2. CASE Drain \/ Guard \/ UNCHANGED vars
  BY <1>2, DrainLeaves
<1> QED BY <1>1, <1>2, PlainSteps DEF Types

\* Every step keeps each owing segment on the drain's way.
LEMMA StopStep ==
  ASSUME StopInv, OnceInv, PoolInv, OnceInv', PoolInv', [Next]_vars
  PROVE  StopInv'
<1>1. SUFFICES ASSUME ~helped' PROVE ~slipped' => NothingLeft'
  BY DEF StopInv, OnceInv, PoolInv
<1>2. ~helped
  BY <1>1, HelpedStays
<1>3. Types /\ Structure /\ Positions /\ (gpc = "held" => Pool) /\ (shared = {} => Once)
  BY <1>2 DEF StopInv
<1>4. SUFFICES ASSUME ~slipped' PROVE NothingLeft'
  OBVIOUS
<1>5. NothingLeft
  <2>1. ~slipped
    <3>1. CASE \E t \in Threads : PlainThread(t)
      BY <1>3, <1>4, <3>1, ThreadLists
    <3>2. CASE Drain \/ Guard \/ UNCHANGED vars
      <4>1. slipped' = slipped
        BY <3>2 DEF Drain, Guard, vars, history, others, GuardWalk, GuardSignal, GuardJoin, Top,
           SyncFilter, SyncReconcile, SyncRetain, Finalize, PollEntry, DrainRing, Deliver, StoreTail,
           ClearDraining, RetireCheck, Retire, DrainRecycle, TakeLines
      <4> QED BY <1>4, <4>1, Zenon
    <3> QED BY <1>1, <1>2, <1>3, <3>1, <3>2, PlainSteps DEF Types
  <2> QED BY <1>2, <2>1 DEF StopInv
<1>6. Effect /\ shared \subseteq shared' /\ shared' \subseteq shared \cup Parked
  BY <1>1, <1>2, <1>3, PositionsStep, SharedWereParked
<1>7. Accounted' /\ OnlyPublished
  BY <1>3, <1>5, <1>6, OwingStep
<1>8. (\A r \in Rings \ shared' : Owing(r)' => Reachable(r)') /\ Passing' /\ Ending'
  <2>1. CASE \E t \in Threads : PlainThread(t)
    BY <1>3, <1>4, <1>5, <1>6, <1>7, <2>1, ThreadStepReaches
  <2>2. CASE Guard \/ UNCHANGED vars
    BY <1>3, <1>5, <1>7, <2>2, RestReaches, WalkReaches DEF Guard
  <2>3. CASE Drain
    BY <1>3, <1>5, <1>7, <2>3, QuietDrainReaches, FilterReaches, ReconcileReaches, RetainReaches,
       RetireReaches, RecycleReaches DEF Drain, QuietDrain
  <2> QED BY <1>1, <1>2, <1>3, <2>1, <2>2, <2>3, PlainSteps DEF Types
<1> QED BY <1>7, <1>8 DEF NothingLeft

\* The inductive invariant behind StoppedMeansDelivered.
THEOREM StopInvariant == Spec => []StopInv
<1> QED BY InitStop, StopStep, OnceInvariant, PoolInvariant, PTL DEF Spec

\* For any number of threads and records, any pool and both policies: when the
\* drain has stopped, every record published before the guard was dropped is in
\* the sink, unless a thread acted as helper or exited inside sync_rings' scan.
THEOREM NothingLeftBehind == Spec => []StoppedMeansDelivered
<1>1. ASSUME StopInv PROVE StoppedMeansDelivered
  <2>1. SUFFICES ASSUME dpc = "done", ~helped, ~slipped, NEW t \in Threads PROVE ~Behind(t)
    BY DEF StoppedMeansDelivered
  <2>2. Types /\ Structure /\ NothingLeft
    BY <1>1, <2>1 DEF StopInv
  <2>3. Closing = {}
    BY <2>1, <2>2, ListFacts DEF Structure, Phase
  <2>4. \A r \in Rings \ shared : ~Owing(r)
    BY <2>1, <2>2, <2>3 DEF NothingLeft, Reachable, Ending
  <2>5. ASSUME NEW n \in Owes(t) PROVE n \in ToSet(sink[t])
    <3>1. logged[t] \in Nat /\ owed[t] \in Nat
      BY <2>2 DEF Types, DrainTypes, ThreadTypes
    <3>2. n \in 1 .. logged[t] \/ n \in 1 .. owed[t]
      BY <2>5 DEF Owes
    <3>3. n \in Nat
      BY <3>1, <3>2
    <3> QED BY <2>2, <2>4, <2>5, <3>3 DEF NothingLeft, Accounted, Owing, OwedAt
  <2> QED BY <2>5 DEF Behind
<1> QED BY <1>1, StopInvariant, PTL
=============================================================================
