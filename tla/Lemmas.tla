------------------------------- MODULE Lemmas -------------------------------
(***************************************************************************)
(* What the proofs about the components share: induction and recursion up   *)
(* to a number, with a set or a function where the library's theorems take  *)
(* an operator, and runs of consecutive record numbers, which are what a    *)
(* channel holds between the records sent and those received.               *)
(***************************************************************************)
EXTENDS Integers, Sequences, SequenceTheorems, WellFoundedInduction, TLAPS

(* Induction, and recursive functions on an initial piece of the naturals.  *)

\* A non-empty set of naturals has a least element.
LEMMA LeastNatural ==
  ASSUME NEW T \in SUBSET Nat, T # {}
  PROVE  \E n \in T : \A m \in T : n <= m
<1>1. PICK n \in T : \A m \in T : ~(<<m, n>> \in OpToRel(<, Nat))
  BY NatLessThanWellFounded, WFMin
<1>2. ASSUME NEW m \in T PROVE ~(m < n)
  <2>1. OpToRel(<, Nat) = {ss \in Nat \X Nat : ss[1] < ss[2]}
    BY Zenon DEF OpToRel
  <2>2. ~(<<m, n>> \in {ss \in Nat \X Nat : ss[1] < ss[2]})
    BY <1>1, <2>1, Zenon
  <2> QED BY <2>2
<1> QED BY <1>2

\* Induction up to n: a set with 0 and the successors of its members.
LEMMA Induction ==
  ASSUME NEW n \in Nat, NEW T \in SUBSET (0 .. n), 0 \in T,
         \A m \in T : m < n => m + 1 \in T
  PROVE  T = 0 .. n
<1>1. SUFFICES ASSUME (0 .. n) \ T # {} PROVE FALSE
  OBVIOUS
<1> DEFINE U == (0 .. n) \ T
<1>2. U \in SUBSET Nat /\ U # {}
  BY <1>1
<1>3. PICK k \in U : \A m \in U : k <= m
  BY <1>2, LeastNatural
<1>4. k \in 1 .. n /\ k \notin T
  OBVIOUS
<1>5. k - 1 \in 0 .. n /\ ~(k <= k - 1)
  BY <1>4
<1>6. k - 1 \in T
  BY <1>3, <1>5
<1> QED BY <1>4, <1>5, <1>6
\* f is defined by recursion up to n, with values in V.
Recursive(f, n, V, base, step) ==
  /\ f \in [0 .. n -> V] /\ f[0] = base
  /\ \A i \in 1 .. n : f[i] = step[<<i, f[i - 1]>>]

\* A function may be defined by recursion up to n.
LEMMA Recursion ==
  ASSUME NEW n \in Nat, NEW V, NEW base \in V, NEW step,
         \A i \in 1 .. n, v \in V : step[<<i, v>>] \in V
  PROVE  \E f : Recursive(f, n, V, base, step)
<1> DEFINE Defined(m) == \E f \in [0 .. m -> V] :
             f[0] = base /\ \A i \in 1 .. m : f[i] = step[<<i, f[i - 1]>>]
           T == {m \in 0 .. n : Defined(m)}
<1>1. 0 \in T
  <2>1. [i \in 0 .. 0 |-> base] \in [0 .. 0 -> V] /\ [i \in 0 .. 0 |-> base][0] = base
    OBVIOUS
  <2>2. 1 .. 0 = {}
    OBVIOUS
  <2>3. Defined(0)
    BY <2>1, <2>2
  <2> QED BY <2>3
<1>2. ASSUME NEW m \in T, m < n PROVE m + 1 \in T
  <2>0. m \in Nat /\ m + 1 \in 0 .. n /\ m + 1 \in 1 .. n
    BY <1>2
  <2>1. PICK f \in [0 .. m -> V] :
          f[0] = base /\ \A i \in 1 .. m : f[i] = step[<<i, f[i - 1]>>]
    OBVIOUS
  <2> DEFINE g == [i \in 0 .. m + 1 |-> IF i <= m THEN f[i] ELSE step[<<m + 1, f[m]>>]]
  <2>2. f[m] \in V /\ step[<<m + 1, f[m]>>] \in V
    BY <2>0
  <2>3. g \in [0 .. m + 1 -> V]
    BY <2>0, <2>2
  <2>4. \A i \in 0 .. m : i \in 0 .. m + 1 /\ g[i] = f[i]
    BY <2>0
  <2>5. g[m + 1] = step[<<m + 1, f[m]>>]
    BY <2>0
  <2> HIDE DEF g
  <2>6. ASSUME NEW i \in 1 .. m + 1 PROVE g[i] = step[<<i, g[i - 1]>>]
    <3>1. CASE i \in 1 .. m
      <4>1. i \in 0 .. m /\ i - 1 \in 0 .. m
        BY <2>0, <3>1
      <4> QED BY <2>1, <2>4, <3>1, <4>1
    <3>2. CASE i = m + 1
      <4>1. i - 1 = m /\ m \in 0 .. m
        BY <2>0, <3>2
      <4> QED BY <2>4, <2>5, <3>2, <4>1
    <3> QED BY <2>0, <3>1, <3>2
  <2>7. g[0] = base
    BY <2>0, <2>1, <2>4
  <2>8. Defined(m + 1)
    BY <2>3, <2>6, <2>7
  <2> QED BY <2>0, <2>8
<1>3. T = 0 .. n
  <2> HIDE DEF T
  <2>1. T \in SUBSET (0 .. n)
    BY DEF T
  <2> QED BY <1>1, <1>2, <2>1, Induction
<1>4. n \in 0 .. n
  OBVIOUS
<1>5. Defined(n)
  BY <1>3, <1>4, Zenon
<1> QED BY <1>5 DEF Recursive

\* A function that follows the recursion wherever its values are in V is
\* defined by it.
LEMMA Recursed ==
  ASSUME NEW n \in Nat, NEW V, NEW base \in V, NEW step,
         \A i \in 1 .. n, v \in V : step[<<i, v>>] \in V,
         NEW g, g = [i \in 0 .. n |-> g[i]], g[0] = base,
         \A i \in 1 .. n : g[i - 1] \in V => g[i] = step[<<i, g[i - 1]>>]
  PROVE  Recursive(g, n, V, base, step)
<1> DEFINE T == {i \in 0 .. n : g[i] \in V}
<1>1. 0 \in T
  OBVIOUS
<1>2. ASSUME NEW m \in T, m < n PROVE m + 1 \in T
  <2>1. m + 1 \in 1 .. n /\ m + 1 \in 0 .. n /\ (m + 1) - 1 = m /\ g[m] \in V
    BY <1>2
  <2>2. g[m + 1] = step[<<m + 1, g[m]>>] /\ step[<<m + 1, g[m]>>] \in V
    BY <2>1
  <2> QED BY <2>1, <2>2
<1>3. T = 0 .. n
  <2> HIDE DEF T
  <2>1. T \in SUBSET (0 .. n)
    BY DEF T
  <2> QED BY <1>1, <1>2, <2>1, Induction
<1>4. \A i \in 0 .. n : g[i] \in V
  BY <1>3
<1>5. g \in [0 .. n -> V]
  BY <1>4
<1>6. \A i \in 1 .. n : g[i] = step[<<i, g[i - 1]>>]
  <2> TAKE i \in 1 .. n
  <2>1. i - 1 \in 0 .. n
    OBVIOUS
  <2> QED BY <1>4, <2>1
<1> QED BY <1>5, <1>6 DEF Recursive

-----------------------------------------------------------------------------
(* Runs.                                                                    *)

\* The sequence <<d + 1, ..., p>>.
Run(d, p) == [i \in 1 .. p - d |-> d + i]

\* Its length and elements.
LEMMA RunSeq ==
  ASSUME NEW d \in Nat, NEW p \in Nat, d <= p
  PROVE  /\ Run(d, p) \in Seq(Nat) /\ Len(Run(d, p)) = p - d
         /\ \A i \in 1 .. p - d : Run(d, p)[i] = d + i
<1>1. p - d \in Nat
  OBVIOUS
<1> QED BY <1>1 DEF Run

\* One more at its end.
LEMMA RunAppend ==
  ASSUME NEW d \in Nat, NEW p \in Nat, d <= p
  PROVE  Run(d, p + 1) = Append(Run(d, p), p + 1)
<1> DEFINE s == Run(d, p + 1)
           t == Append(Run(d, p), p + 1)
<1>1. /\ s \in Seq(Nat) /\ Len(s) = (p + 1) - d
      /\ \A i \in 1 .. (p + 1) - d : s[i] = d + i
  BY RunSeq
<1>2. /\ Run(d, p) \in Seq(Nat) /\ Len(Run(d, p)) = p - d
      /\ \A i \in 1 .. p - d : Run(d, p)[i] = d + i
  BY RunSeq
<1>3. /\ t \in Seq(Nat) /\ Len(t) = (p - d) + 1
      /\ \A i \in 1 .. p - d : t[i] = d + i
      /\ t[(p - d) + 1] = p + 1
  BY <1>2, AppendProperties
<1> HIDE DEF s, t
<1>4. \A i \in 1 .. Len(s) : s[i] = t[i]
  BY <1>1, <1>3
<1>5. Len(s) = Len(t)
  BY <1>1, <1>3
<1>6. s = t
  BY <1>1, <1>3, <1>4, <1>5, SeqEqual
<1> QED BY <1>6 DEF s, t

\* One less at its front.
LEMMA RunTail ==
  ASSUME NEW d \in Nat, NEW p \in Nat, d < p
  PROVE  /\ Run(d, p) # <<>> /\ Head(Run(d, p)) = d + 1
         /\ Tail(Run(d, p)) = Run(d + 1, p)
<1> DEFINE r == Run(d, p)
           s == Run(d + 1, p)
           t == Tail(r)
<1>1. r \in Seq(Nat) /\ Len(r) = p - d /\ \A i \in 1 .. p - d : r[i] = d + i
  BY RunSeq
<1>2. /\ s \in Seq(Nat) /\ Len(s) = p - (d + 1)
      /\ \A i \in 1 .. p - (d + 1) : s[i] = (d + 1) + i
  BY RunSeq
<1> HIDE DEF r, s
<1>3. r # <<>> /\ Head(r) = d + 1
  BY <1>1
<1>4. /\ t \in Seq(Nat) /\ Len(t) = (p - d) - 1
      /\ \A i \in 1 .. Len(t) : t[i] = r[i + 1]
  BY <1>1, <1>3, HeadTailProperties
<1> HIDE DEF t
<1>5. \A i \in 1 .. Len(s) : s[i] = t[i]
  BY <1>1, <1>2, <1>4
<1>6. Len(s) = Len(t)
  BY <1>2, <1>4
<1>7. s = t
  BY <1>2, <1>4, <1>5, <1>6, SeqEqual
<1> QED BY <1>3, <1>7 DEF r, s, t

\* The first n numbers followed by those from n + 1 to m are the first m.
LEMMA RunConcat ==
  ASSUME NEW s \in Seq(Nat), NEW n \in Nat, NEW m \in Nat, n <= m,
         Len(s) = n, \A i \in 1 .. n : s[i] = i
  PROVE  LET r == s \o Run(n, m)
         IN  /\ r \in Seq(Nat) /\ Len(r) = m
             /\ \A i \in 1 .. m : r[i] = i
<1> DEFINE k == Run(n, m)
           r == s \o k
<1>1. k \in Seq(Nat) /\ Len(k) = m - n
  BY RunSeq
<1>2. \A i \in 1 .. m - n : k[i] = n + i
  BY RunSeq
<1> HIDE DEF k
<1>3. r \in Seq(Nat) /\ Len(r) = m
  BY <1>1
<1>4. ASSUME NEW i \in 1 .. m PROVE r[i] = i
  <2>1. CASE i <= n
    <3>1. i \in 1 .. n /\ r[i] = s[i]
      BY <2>1, <1>1
    <3> QED BY <3>1
  <2>2. CASE i > n
    <3>1. r[i] = k[i - n]
      BY <2>2, <1>1, ConcatProperties
    <3>2. i - n \in 1 .. m - n
      BY <2>2
    <3> QED BY <3>1, <3>2, <1>2
  <2> HIDE DEF r
  <2> QED BY <2>1, <2>2
<1> QED BY <1>3, <1>4 DEF k
=============================================================================
