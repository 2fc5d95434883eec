---------------------------- MODULE SinksProofs -----------------------------
(***************************************************************************)
(* Proofs about Sinks for any sink tree, any capacity of the file buffer    *)
(* and of the in-memory stores, any number of records and any number of     *)
(* failing writes.                                                          *)
(*                                                                          *)
(* First what a stream of symbols says about the lines in it, then what one *)
(* accept or flush of a writing leaf does to its stream, then what a push   *)
(* does to an in-memory store; the invariant puts them together.            *)
(***************************************************************************)
EXTENDS Sinks, SequenceTheorems, FiniteSetTheorems, TLAPS

(* Streams.                                                                 *)

Symbols == Seq(Nat)
Ids     == Seq(Nat \ {0})

Ended(s, n) == {m \in 1 .. n : s[m] = NewLine}

\* The ends of lines up to a position are finitely many.
LEMMA EndedFinite ==
  ASSUME NEW s, NEW n \in Nat
  PROVE  IsFiniteSet(Ended(s, n)) /\ Ends(s, n) \in Nat /\ Ends(s, n) = Cardinality(Ended(s, n))
<1>1. IsFiniteSet(1 .. n) BY FS_Interval
<1>2. Ended(s, n) \in SUBSET (1 .. n) BY DEF Ended
<1>3. IsFiniteSet(Ended(s, n)) BY <1>1, <1>2, FS_Subset
<1>4. Cardinality(Ended(s, n)) \in Nat BY <1>3, FS_CardinalityType
<1> QED BY <1>3, <1>4 DEF Ends, Ended

\* A position that ends a line has a number among the lines ended.
LEMMA EndsRange ==
  ASSUME NEW s \in Symbols, NEW n \in 1 .. Len(s), s[n] = NewLine
  PROVE  Ends(s, n) \in 1 .. Ends(s, Len(s))
<1>0. Len(s) \in Nat /\ n \in Nat BY DEF Symbols
<1>1. IsFiniteSet(Ended(s, Len(s))) /\ Ends(s, Len(s)) \in Nat
      /\ Ends(s, Len(s)) = Cardinality(Ended(s, Len(s)))
  BY <1>0, EndedFinite
<1>2. IsFiniteSet(Ended(s, n)) /\ Ends(s, n) \in Nat /\ Ends(s, n) = Cardinality(Ended(s, n))
  BY <1>0, EndedFinite
<1>3. Ended(s, n) \in SUBSET Ended(s, Len(s)) BY <1>0 DEF Ended
<1>4. Cardinality(Ended(s, n)) <= Cardinality(Ended(s, Len(s))) BY <1>1, <1>3, FS_Subset
<1>5. n \in Ended(s, n) BY <1>0 DEF Ended
<1>6. Cardinality(Ended(s, n)) # 0 BY <1>2, <1>5, FS_EmptySet
<1> QED BY <1>1, <1>2, <1>4, <1>6

\* Appending leaves the count of a prefix as it was.
LEMMA EndsPrefix ==
  ASSUME NEW s \in Symbols, NEW d \in Symbols, NEW n \in 0 .. Len(s)
  PROVE  Ends(s \o d, n) = Ends(s, n)
<1>1. \A m \in 1 .. n : (s \o d)[m] = s[m] BY ConcatProperties DEF Symbols
<1>2. Ended(s \o d, n) = Ended(s, n) BY <1>1 DEF Ended
<1> QED BY <1>2 DEF Ends, Ended

\* Symbols that end no line add nothing to the count.
LEMMA EndsQuiet ==
  ASSUME NEW s \in Symbols, NEW d \in Ids
  PROVE  Ends(s \o d, Len(s \o d)) = Ends(s, Len(s))
<1>1. d \in Symbols BY SeqMonotonic DEF Ids, Symbols
<1>2. Len(s) \in Nat /\ Len(d) \in Nat /\ Len(s \o d) = Len(s) + Len(d)
  BY <1>1, ConcatProperties DEF Symbols
<1>3. \A m \in 1 .. Len(s) : (s \o d)[m] = s[m] BY <1>1, ConcatProperties DEF Symbols
<1>4. \A m \in Len(s) + 1 .. Len(s) + Len(d) : (s \o d)[m] # NewLine
  <2> SUFFICES ASSUME NEW m \in Len(s) + 1 .. Len(s) + Len(d) PROVE (s \o d)[m] # NewLine
    OBVIOUS
  <2>1. m - Len(s) \in 1 .. Len(d) BY <1>2
  <2>2. (s \o d)[m] = d[m - Len(s)] BY <1>1, <1>2, <2>1, ConcatProperties DEF Symbols
  <2>3. d[m - Len(s)] \in Nat \ {0} BY <2>1, ElementOfSeq DEF Ids
  <2> QED BY <2>2, <2>3 DEF NewLine
<1>5. Ended(s \o d, Len(s \o d)) = Ended(s, Len(s)) BY <1>2, <1>3, <1>4 DEF Ended
<1> QED BY <1>5 DEF Ends, Ended

\* A newline adds one.
LEMMA EndsOneMore ==
  ASSUME NEW s \in Symbols
  PROVE  Ends(s \o <<NewLine>>, Len(s) + 1) = Ends(s, Len(s)) + 1
<1> DEFINE t == s \o <<NewLine>>
<1>0. Len(s) \in Nat /\ <<NewLine>> \in Symbols BY DEF Symbols, NewLine
<1>1. \A m \in 1 .. Len(s) : t[m] = s[m] BY <1>0, ConcatProperties DEF Symbols
<1>2. t[Len(s) + 1] = NewLine BY DEF Symbols
<1> HIDE DEF t
<1>3. Ended(t, Len(s) + 1) = Ended(s, Len(s)) \cup {Len(s) + 1}
  BY <1>0, <1>1, <1>2 DEF Ended
<1>4. Len(s) + 1 \notin Ended(s, Len(s)) BY <1>0 DEF Ended
<1>5. IsFiniteSet(Ended(s, Len(s))) BY <1>0, EndedFinite
<1>6. Cardinality(Ended(t, Len(s) + 1)) = Cardinality(Ended(s, Len(s))) + 1
  BY <1>3, <1>4, <1>5, FS_AddElement
<1> QED BY <1>0, <1>6, EndedFinite DEF t, Ends, Ended

\* A part of a line without its end changes no line.
LEMMA QuietKeepsLines ==
  ASSUME NEW s \in Symbols, NEW ids \in Ids, NEW d \in Ids, EndsLines(s, ids)
  PROVE  EndsLines(s \o d, ids)
<1> DEFINE t == s \o d
<1>0. d \in Symbols BY SeqMonotonic DEF Ids, Symbols
<1>1. /\ Len(s) \in Nat /\ Len(d) \in Nat /\ t \in Symbols /\ Len(t) = Len(s) + Len(d)
      /\ DOMAIN t = 1 .. Len(t) /\ DOMAIN s = 1 .. Len(s)
  BY <1>0, ConcatProperties, LenProperties DEF Symbols
<1>2. \A m \in 1 .. Len(s) : t[m] = s[m] BY <1>0, ConcatProperties DEF Symbols
<1>3. \A m \in Len(s) + 1 .. Len(t) : t[m] # NewLine
  <2> SUFFICES ASSUME NEW m \in Len(s) + 1 .. Len(t) PROVE t[m] # NewLine
    OBVIOUS
  <2>1. m - Len(s) \in 1 .. Len(d) BY <1>1
  <2>2. t[m] = d[m - Len(s)] BY <1>0, <1>1, <2>1, ConcatProperties DEF Symbols
  <2>3. d[m - Len(s)] \in Nat \ {0} BY <2>1, ElementOfSeq DEF Ids
  <2> QED BY <2>2, <2>3 DEF NewLine
<1>4. Ends(t, Len(t)) = Len(ids) BY EndsQuiet DEF EndsLines
<1>5. ASSUME NEW n \in DOMAIN t, t[n] = NewLine
      PROVE  n > ids[Ends(t, n)] /\ \A m \in n - ids[Ends(t, n)] .. n - 1 : t[m] = ids[Ends(t, n)]
  <2>1. n \in 1 .. Len(s) BY <1>1, <1>3, <1>5
  <2>2. Ends(t, n) = Ends(s, n) BY <1>0, <2>1, EndsPrefix
  <2>3. s[n] = NewLine BY <1>2, <1>5, <2>1
  <2>4. Ends(s, n) \in 1 .. Len(ids) BY <2>1, <2>3, EndsRange DEF EndsLines
  <2> DEFINE i == ids[Ends(s, n)]
  <2>5. i \in Nat \ {0} BY <2>4, ElementOfSeq DEF Ids
  <2>6. n > i /\ \A m \in n - i .. n - 1 : s[m] = i BY <1>1, <2>1, <2>3 DEF EndsLines
  <2> HIDE DEF i
  <2>7. \A m \in n - i .. n - 1 : m \in 1 .. Len(s) BY <1>1, <2>1, <2>5, <2>6
  <2>8. \A m \in n - i .. n - 1 : t[m] = i BY <1>2, <2>6, <2>7
  <2> QED BY <2>2, <2>6, <2>8 DEF i
<1> HIDE DEF t
<1> QED BY <1>4, <1>5 DEF EndsLines, t

\* A newline after i symbols i ends line i.
LEMMA NewLineEndsLine ==
  ASSUME NEW s \in Symbols, NEW ids \in Ids, NEW i \in Nat \ {0}, EndsLines(s, ids),
         Len(s) >= i, \A m \in Len(s) - i + 1 .. Len(s) : s[m] = i
  PROVE  /\ EndsLines(s \o <<NewLine>>, Append(ids, i))
         /\ \A n \in 1 .. Len(s) : s[n] = NewLine =>
              /\ Ends(s \o <<NewLine>>, n) = Ends(s, n)
              /\ Append(ids, i)[Ends(s, n)] = ids[Ends(s, n)]
              /\ ids[Ends(s, n)] \in Nat \ {0}
<1> DEFINE t == s \o <<NewLine>>
           js == Append(ids, i)
<1>0. <<NewLine>> \in Symbols BY DEF NewLine, Symbols
<1>1. /\ Len(s) \in Nat /\ t \in Symbols /\ Len(t) = Len(s) + 1
      /\ DOMAIN t = 1 .. Len(s) + 1 /\ DOMAIN s = 1 .. Len(s)
  BY <1>0, ConcatProperties, LenProperties DEF Symbols
<1>2. \A m \in 1 .. Len(s) : t[m] = s[m] BY <1>0, ConcatProperties DEF Symbols
<1>3. t[Len(s) + 1] = NewLine BY DEF Symbols
<1>4. Ends(t, Len(s) + 1) = Len(ids) + 1 BY EndsOneMore DEF EndsLines
<1>5. Len(ids) \in Nat /\ Len(js) = Len(ids) + 1 /\ js[Len(ids) + 1] = i
      /\ \A k \in 1 .. Len(ids) : js[k] = ids[k]
  BY AppendProperties DEF Ids
<1>6. ASSUME NEW n \in 1 .. Len(s), s[n] = NewLine
      PROVE  /\ Ends(t, n) = Ends(s, n) /\ js[Ends(s, n)] = ids[Ends(s, n)]
             /\ ids[Ends(s, n)] \in Nat \ {0}
             /\ n > ids[Ends(s, n)]
             /\ \A m \in n - ids[Ends(s, n)] .. n - 1 : t[m] = ids[Ends(s, n)]
  <2>1. Ends(t, n) = Ends(s, n) BY <1>0, EndsPrefix
  <2>2. Ends(s, n) \in 1 .. Len(ids) BY <1>6, EndsRange DEF EndsLines
  <2> DEFINE k == ids[Ends(s, n)]
  <2>3. k \in Nat \ {0} BY <2>2, ElementOfSeq DEF Ids
  <2>4. js[Ends(s, n)] = k BY <1>5, <2>2
  <2>5. n > k /\ \A m \in n - k .. n - 1 : s[m] = k BY <1>1, <1>6 DEF EndsLines
  <2> HIDE DEF k
  <2>6. \A m \in n - k .. n - 1 : m \in 1 .. Len(s) BY <1>1, <2>3, <2>5
  <2>7. \A m \in n - k .. n - 1 : t[m] = k BY <1>2, <2>5, <2>6
  <2> QED BY <2>1, <2>3, <2>4, <2>5, <2>7 DEF k
<1>7. \A m \in Len(s) - i + 1 .. Len(s) : t[m] = i
  <2>1. \A m \in Len(s) - i + 1 .. Len(s) : m \in 1 .. Len(s) BY <1>1
  <2> QED BY <1>2, <2>1
<1> HIDE DEF t, js
<1>8. ASSUME NEW n \in DOMAIN t, t[n] = NewLine
      PROVE  n > js[Ends(t, n)] /\ \A m \in n - js[Ends(t, n)] .. n - 1 : t[m] = js[Ends(t, n)]
  <2>1. CASE n \in 1 .. Len(s)
    <3>1. s[n] = NewLine BY <1>2, <1>8, <2>1
    <3> QED BY <1>6, <2>1, <3>1
  <2>2. CASE n = Len(s) + 1
    <3>1. js[Ends(t, n)] = i BY <1>4, <1>5, <2>2
    <3>2. n > i BY <1>1, <2>2
    <3>3. n - i = Len(s) - i + 1 /\ n - 1 = Len(s) BY <1>1, <2>2
    <3> QED BY <1>7, <3>1, <3>2, <3>3
  <2> QED BY <1>1, <2>1, <2>2
<1>9. EndsLines(t, js) BY <1>1, <1>4, <1>5, <1>8 DEF EndsLines
<1> QED BY <1>6, <1>9 DEF t, js

LineOf(i) == Append(Body(i), NewLine)

LEMMA BodyProperties ==
  ASSUME NEW i \in Nat \ {0}
  PROVE  /\ Body(i) \in Ids /\ Body(i) \in Symbols /\ Len(Body(i)) = i
         /\ \A m \in 1 .. i : Body(i)[m] = i
         /\ LineOf(i) \in Symbols /\ Len(LineOf(i)) = i + 1
         /\ LineOf(i) = Body(i) \o <<NewLine>>
         /\ \A m \in 1 .. i : LineOf(i)[m] = i
<1>1. Body(i) \in Ids BY IsASeq DEF Body, Ids
<1>2. Body(i) \in Symbols BY <1>1, SeqMonotonic DEF Ids, Symbols
<1>3. DOMAIN Body(i) = 1 .. i /\ \A m \in 1 .. i : Body(i)[m] = i BY DEF Body
<1>4. Len(Body(i)) = i BY <1>1, <1>3, LenProperties DEF Ids
<1>5. NewLine \in Nat BY DEF NewLine
<1>6. /\ LineOf(i) \in Symbols /\ Len(LineOf(i)) = i + 1
      /\ \A m \in 1 .. i : LineOf(i)[m] = Body(i)[m]
  BY <1>2, <1>4, <1>5, AppendProperties DEF LineOf, Symbols
<1>7. LineOf(i) = Body(i) \o <<NewLine>>
  BY <1>2, <1>5, AppendIsConcat DEF LineOf, Symbols
<1> QED BY <1>1, <1>2, <1>3, <1>4, <1>6, <1>7

\* Less than the line ends no line.
LEMMA PartOfLine ==
  ASSUME NEW s \in Symbols, NEW ids \in Ids, NEW i \in Nat \ {0}, NEW k \in 0 .. i,
         EndsLines(s, ids)
  PROVE  EndsLines(s \o SubSeq(LineOf(i), 1, k), ids)
<1>0. \A m \in 1 .. i : LineOf(i)[m] = i BY BodyProperties
<1>1. \A m \in 1 .. k : LineOf(i)[m] \in Nat \ {0} BY <1>0
<1>2. SubSeq(LineOf(i), 1, k) \in Ids BY <1>1, SubSeqProperties DEF Ids
<1> QED BY <1>2, QuietKeepsLines

\* Streams are joined in any grouping.
LEMMA Regroup ==
  ASSUME NEW s \in Symbols, NEW t \in Symbols, NEW u \in Symbols
  PROVE  (s \o t) \o u = s \o (t \o u)
<1>1. s \in Seq(Nat) /\ t \in Seq(Nat) /\ u \in Seq(Nat) BY DEF Symbols
<1> QED BY <1>1, ConcatAssociative, SMTT(30)

\* All of it ends line i, and leaves nothing else.
LEMMA WholeLine ==
  ASSUME NEW s \in Symbols, NEW ids \in Ids, NEW i \in Nat \ {0}, EndsLines(s, ids)
  PROVE  /\ EndsLines(s \o LineOf(i), Append(ids, i))
         /\ NoRemnant(s, ids) => NoRemnant(s \o LineOf(i), Append(ids, i))
<1> DEFINE b == s \o Body(i)
           t == b \o <<NewLine>>
           js == Append(ids, i)
<1>0. <<NewLine>> \in Symbols BY DEF NewLine, Symbols
<1>a. Body(i) \in Symbols /\ Len(Body(i)) = i /\ LineOf(i) = Body(i) \o <<NewLine>>
  BY BodyProperties
<1>1. s \o LineOf(i) = t
  BY <1>0, <1>a, Regroup
<1>2. b \in Symbols /\ Len(b) = Len(s) + i /\ Len(s) \in Nat
  BY <1>a, ConcatProperties, LenProperties DEF Symbols
<1>3. \A m \in 1 .. Len(s) : b[m] = s[m]
  BY <1>a, ConcatProperties DEF Symbols
<1>4. \A m \in Len(s) + 1 .. Len(s) + i : b[m] = i
  <2> SUFFICES ASSUME NEW m \in Len(s) + 1 .. Len(s) + i PROVE b[m] = i
    OBVIOUS
  <2>1. m - Len(s) \in 1 .. i BY <1>2
  <2>2. b[m] = Body(i)[m - Len(s)] BY <1>2, <1>a, <2>1, ConcatProperties DEF Symbols
  <2> QED BY <2>1, <2>2, BodyProperties
<1>5. EndsLines(b, ids) BY BodyProperties, QuietKeepsLines
<1>6. Len(b) >= i /\ \A m \in Len(b) - i + 1 .. Len(b) : b[m] = i
  <2>1. Len(b) - i + 1 = Len(s) + 1 BY <1>2
  <2> QED BY <1>2, <1>4, <2>1
<1> HIDE DEF b
<1>7. /\ EndsLines(t, js)
      /\ \A n \in 1 .. Len(b) : b[n] = NewLine =>
           Ends(t, n) = Ends(b, n) /\ js[Ends(b, n)] = ids[Ends(b, n)]
           /\ ids[Ends(b, n)] \in Nat \ {0}
      /\ js[Ends(t, Len(b) + 1)] = i
  <2> HIDE DEF t, js
  <2>1. b \in Symbols /\ ids \in Ids /\ i \in Nat \ {0} /\ EndsLines(b, ids) BY <1>2, <1>5
  <2>2. /\ EndsLines(b \o <<NewLine>>, Append(ids, i))
        /\ \A n \in 1 .. Len(b) : b[n] = NewLine =>
             /\ Ends(b \o <<NewLine>>, n) = Ends(b, n)
             /\ Append(ids, i)[Ends(b, n)] = ids[Ends(b, n)]
             /\ ids[Ends(b, n)] \in Nat \ {0}
        /\ Append(ids, i)[Ends(b \o <<NewLine>>, Len(b) + 1)] = i
    <3>1. EndsLines(b \o <<NewLine>>, Append(ids, i)) BY <1>6, <2>1, NewLineEndsLine
    <3>2. \A n \in 1 .. Len(b) : b[n] = NewLine =>
             /\ Ends(b \o <<NewLine>>, n) = Ends(b, n)
             /\ Append(ids, i)[Ends(b, n)] = ids[Ends(b, n)]
             /\ ids[Ends(b, n)] \in Nat \ {0}
      BY <1>6, <2>1, NewLineEndsLine
    <3>3. Append(ids, i)[Ends(b \o <<NewLine>>, Len(b) + 1)] = i
      <4>1. Ends(b \o <<NewLine>>, Len(b) + 1) = Len(ids) + 1 BY <2>1, EndsOneMore DEF EndsLines
      <4>2. Append(ids, i)[Len(ids) + 1] = i BY AppendProperties DEF Ids
      <4> QED BY <4>1, <4>2
    <3> QED BY <3>1, <3>2, <3>3
  <2> QED BY <2>2 DEF t, js
<1>8. /\ Len(t) = Len(b) + 1 /\ DOMAIN t = 1 .. Len(b) + 1 /\ t[Len(b) + 1] = NewLine
      /\ \A m \in 1 .. Len(b) : t[m] = b[m]
  <2>1. t \in Symbols /\ Len(t) = Len(b) + 1
    <3>1. Len(<<NewLine>>) = 1 OBVIOUS
    <3> QED BY <1>0, <1>2, <3>1, ConcatProperties DEF Symbols
  <2>2. DOMAIN t = 1 .. Len(b) + 1 BY <2>1, LenProperties DEF Symbols
  <2>3. t[Len(b) + 1] = NewLine BY <1>2 DEF Symbols
  <2>4. \A m \in 1 .. Len(b) : t[m] = b[m] BY <1>0, <1>2, ConcatProperties DEF Symbols
  <2> QED BY <2>1, <2>2, <2>3, <2>4
<1> HIDE DEF t, js
<1>9. ASSUME NoRemnant(s, ids) PROVE NoRemnant(t, js)
  <2> SUFFICES ASSUME NEW n \in DOMAIN t, t[n] = NewLine
               PROVE  \/ n - js[Ends(t, n)] = 1
                      \/ n - js[Ends(t, n)] > 1 /\ t[n - js[Ends(t, n)] - 1] = NewLine
    BY <1>8 DEF NoRemnant
  <2>1. CASE n \in 1 .. Len(s)
    <3>1. n \in 1 .. Len(b) BY <1>2, <2>1
    <3>2. s[n] = NewLine /\ b[n] = NewLine BY <1>3, <1>8, <2>1, <3>1
    <3>3. Ends(b, n) = Ends(s, n) BY <1>2, <2>1, BodyProperties, EndsPrefix DEF b
    <3> DEFINE i0 == ids[Ends(s, n)]
    <3>4. js[Ends(t, n)] = i0 /\ i0 \in Nat \ {0} BY <1>7, <3>1, <3>2, <3>3
    <3>5. n \in DOMAIN s BY <2>1, LenProperties DEF Symbols
    <3>6. n - i0 = 1 \/ (n - i0 > 1 /\ s[n - i0 - 1] = NewLine)
      BY <1>9, <3>2, <3>5 DEF NoRemnant
    <3> HIDE DEF i0
    <3>7. CASE n - i0 > 1
      <4>1. n - i0 - 1 \in 1 .. Len(s) /\ n - i0 - 1 \in 1 .. Len(b) BY <1>2, <2>1, <3>4, <3>7
      <4>2. t[n - i0 - 1] = s[n - i0 - 1] BY <1>3, <1>8, <4>1
      <4> QED BY <3>4, <3>6, <3>7, <4>2
    <3> QED BY <3>4, <3>6, <3>7
  <2>2. CASE n \in Len(s) + 1 .. Len(s) + i
    <3>1. n \in 1 .. Len(b) BY <1>2, <2>2
    <3>2. t[n] = i BY <1>4, <1>8, <2>2, <3>1
    <3> QED BY <3>2 DEF NewLine
  <2>3. CASE n = Len(b) + 1
    <3>1. js[Ends(t, n)] = i BY <1>7, <2>3
    <3>2. n - i = Len(s) + 1 BY <1>2, <2>3
    <3>3. CASE Len(s) = 0 BY <3>1, <3>2, <3>3
    <3>4. CASE Len(s) > 0
      <4>1. Len(s) \in 1 .. Len(s) /\ Len(s) \in 1 .. Len(b) BY <1>2, <3>4
      <4>2. Len(s) \in DOMAIN s BY <4>1, LenProperties DEF Symbols
      <4>3. s[Len(s)] = NewLine BY <1>9, <4>2 DEF NoRemnant
      <4>4. t[Len(s)] = NewLine BY <1>3, <1>8, <4>1, <4>3
      <4>5. n - i - 1 = Len(s) /\ n - i > 1 BY <1>2, <3>2, <3>4
      <4> QED BY <3>1, <4>4, <4>5
    <3> QED BY <1>2, <3>3, <3>4
  <2> QED BY <1>2, <1>8, <2>1, <2>2, <2>3
<1> QED BY <1>1, <1>7, <1>9 DEF js

-----------------------------------------------------------------------------
(* What accept and flush do to the stream of a leaf.                        *)

WriterState == [out : Symbols, buf : Symbols, ok : BOOLEAN, left : Nat]

StreamOf(w) == w.out \o w.buf

\* x follows from w by taking the first k symbols of data, and is Ok exactly
\* when it took them all; a failure costs one of those left.
Took(w, x, data) ==
  /\ x \in WriterState
  /\ \E k \in 0 .. Len(data) :
       /\ StreamOf(x) = StreamOf(w) \o SubSeq(data, 1, k)
       /\ x.ok = (k = Len(data))
  /\ x.left = IF x.ok THEN w.left ELSE w.left - 1

\* An unbuffered write of some data.
LEMMA WriteAllEffect ==
  ASSUME NEW w \in WriterState, w.buf = <<>>, NEW data \in Symbols, NEW x \in WriteAll(w, data)
  PROVE  Took(w, x, data) /\ x.buf = <<>>
<1>0. /\ w.out \in Symbols /\ w.left \in Nat /\ Len(data) \in Nat
      /\ w = [out |-> w.out, buf |-> w.buf, ok |-> w.ok, left |-> w.left]
  BY DEF WriterState, Symbols
<1>1. CASE x = [w EXCEPT !.out = @ \o data, !.ok = TRUE]
  <2>1. /\ x.out = w.out \o data /\ x.ok = TRUE /\ x.buf = <<>> /\ x.left = w.left
        /\ x = [out |-> x.out, buf |-> x.buf, ok |-> x.ok, left |-> x.left]
    BY <1>0, <1>1
  <2>2. w.out \o data \in Symbols BY <1>0, ConcatProperties DEF Symbols
  <2>3. x \in WriterState BY <2>1, <2>2, <1>0 DEF WriterState, Symbols
  <2>4. SubSeq(data, 1, Len(data)) = data BY SubSeqFull DEF Symbols
  <2>5. StreamOf(x) = w.out \o data BY <2>1, <2>2, ConcatEmptySeq DEF StreamOf, Symbols
  <2>6. StreamOf(w) = w.out BY <1>0, ConcatEmptySeq DEF StreamOf, Symbols
  <2>7. Len(data) \in 0 .. Len(data) BY <1>0
  <2> QED BY <2>1, <2>3, <2>4, <2>5, <2>6, <2>7 DEF Took
<1>2. ASSUME NEW n \in 0 .. Len(data) - 1, w.left # 0,
             x = [w EXCEPT !.out = @ \o SubSeq(data, 1, n), !.ok = FALSE, !.left = @ - 1]
      PROVE  Took(w, x, data) /\ x.buf = <<>>
  <2>1. /\ x.out = w.out \o SubSeq(data, 1, n) /\ x.ok = FALSE /\ x.buf = <<>>
        /\ x.left = w.left - 1
        /\ x = [out |-> x.out, buf |-> x.buf, ok |-> x.ok, left |-> x.left]
    BY <1>0, <1>2
  <2>2. \A i \in 1 .. n : data[i] \in Nat BY <1>0, ElementOfSeq DEF Symbols
  <2>3. SubSeq(data, 1, n) \in Symbols BY <2>2, SubSeqProperties DEF Symbols
  <2>4. w.out \o SubSeq(data, 1, n) \in Symbols BY <1>0, <2>3, ConcatProperties DEF Symbols
  <2>5. w.left - 1 \in Nat BY <1>0, <1>2
  <2>6. x \in WriterState BY <2>1, <2>4, <2>5 DEF WriterState, Symbols
  <2>7. StreamOf(x) = w.out \o SubSeq(data, 1, n)
    BY <2>1, <2>4, ConcatEmptySeq DEF StreamOf, Symbols
  <2>8. StreamOf(w) = w.out BY <1>0, ConcatEmptySeq DEF StreamOf, Symbols
  <2>9. n \in 0 .. Len(data) /\ n # Len(data) BY <1>0
  <2> QED BY <2>1, <2>6, <2>7, <2>8, <2>9 DEF Took
<1>3. \/ x = [w EXCEPT !.out = @ \o data, !.ok = TRUE]
      \/ /\ w.left # 0
         /\ \E n \in 0 .. Len(data) - 1 :
              x = [w EXCEPT !.out = @ \o SubSeq(data, 1, n), !.ok = FALSE, !.left = @ - 1]
  BY DEF WriteAll
<1> QED BY <1>1, <1>2, <1>3

\* Flushing moves symbols from the buffer to the destination.
LEMMA FlushBufEffect ==
  ASSUME NEW w \in WriterState, NEW x \in FlushBuf(w)
  PROVE  /\ x \in WriterState /\ StreamOf(x) = StreamOf(w)
         /\ x.ok => x.buf = <<>>
         /\ x.left = IF x.ok THEN w.left ELSE w.left - 1
<1>0. /\ w.out \in Symbols /\ w.buf \in Symbols /\ w.left \in Nat
      /\ Len(w.buf) \in Nat /\ Len(w.out) \in Nat
      /\ w = [out |-> w.out, buf |-> w.buf, ok |-> w.ok, left |-> w.left]
  BY DEF WriterState, Symbols
<1>1. PICK y \in WriteAll(w, w.buf) :
        x = [y EXCEPT !.buf = SubSeq(w.buf, Len(y.out) - Len(w.out) + 1, Len(w.buf))]
  BY DEF FlushBuf
<1>2. CASE y = [w EXCEPT !.out = @ \o w.buf, !.ok = TRUE]
  <2>1. /\ y.out = w.out \o w.buf /\ y.ok = TRUE /\ y.left = w.left
        /\ y = [out |-> y.out, buf |-> y.buf, ok |-> y.ok, left |-> y.left]
    BY <1>0, <1>2
  <2>2. y.out \in Symbols /\ Len(y.out) = Len(w.out) + Len(w.buf)
    BY <1>0, <2>1, ConcatProperties DEF Symbols
  <2>3. /\ x.out = w.out \o w.buf /\ x.ok = TRUE /\ x.left = w.left
        /\ x.buf = SubSeq(w.buf, Len(y.out) - Len(w.out) + 1, Len(w.buf))
        /\ x = [out |-> x.out, buf |-> x.buf, ok |-> x.ok, left |-> x.left]
    BY <1>1, <2>1
  <2>4. x.buf = <<>>
    <3>1. Len(y.out) - Len(w.out) + 1 = Len(w.buf) + 1 BY <1>0, <2>2
    <3>2. x.buf = SubSeq(w.buf, Len(w.buf) + 1, Len(w.buf)) BY <2>3, <3>1
    <3>3. Len(w.buf) + 1 \in Int /\ Len(w.buf) \in Int /\ Len(w.buf) < Len(w.buf) + 1 BY <1>0
    <3>4. SubSeq(w.buf, Len(w.buf) + 1, Len(w.buf)) = <<>> BY <3>3, SubSeqEmpty
    <3> QED BY <3>2, <3>4
  <2>5. StreamOf(x) = w.out \o w.buf BY <2>1, <2>2, <2>3, <2>4, ConcatEmptySeq DEF StreamOf, Symbols
  <2>6. x \in WriterState
    <3>1. x.out \in Symbols /\ x.buf \in Symbols /\ x.ok \in BOOLEAN /\ x.left \in Nat
      BY <1>0, <2>1, <2>2, <2>3, <2>4, EmptySeq DEF Symbols
    <3> QED BY <2>3, <3>1 DEF WriterState
  <2> QED BY <2>3, <2>4, <2>5, <2>6 DEF StreamOf
<1>3. ASSUME NEW n \in 0 .. Len(w.buf) - 1, w.left # 0,
             y = [w EXCEPT !.out = @ \o SubSeq(w.buf, 1, n), !.ok = FALSE, !.left = @ - 1]
      PROVE  /\ x \in WriterState /\ StreamOf(x) = StreamOf(w) /\ x.ok = FALSE
             /\ x.left = w.left - 1
  <2> DEFINE a == SubSeq(w.buf, 1, n)
             b == SubSeq(w.buf, n + 1, Len(w.buf))
  <2>1. /\ y.out = w.out \o a /\ y.ok = FALSE /\ y.left = w.left - 1
        /\ y = [out |-> y.out, buf |-> y.buf, ok |-> y.ok, left |-> y.left]
    BY <1>0, <1>3
  <2>2. \A i \in 1 .. Len(w.buf) : w.buf[i] \in Nat BY <1>0, ElementOfSeq DEF Symbols
  <2>3. a \in Symbols /\ Len(a) = n
    <3>1. \A i \in 1 .. n : w.buf[i] \in Nat BY <1>0, <2>2
    <3> QED BY <3>1, SubSeqProperties DEF Symbols
  <2>4. b \in Symbols
    <3>1. \A i \in n + 1 .. Len(w.buf) : w.buf[i] \in Nat BY <1>0, <2>2
    <3>2. n + 1 \in Int /\ Len(w.buf) \in Int BY <1>0
    <3> QED BY <3>1, <3>2, SubSeqProperties DEF Symbols
  <2>5. a \o b = w.buf
    <3>1. SubSeq(w.buf, 1, n) \o SubSeq(w.buf, n + 1, Len(w.buf)) = SubSeq(w.buf, 1, Len(w.buf))
      <4>1. 1 \in 1 .. Len(w.buf) + 1 /\ n \in 1 - 1 .. Len(w.buf) /\ Len(w.buf) \in n .. Len(w.buf)
        BY <1>0
      <4> QED BY <1>0, <4>1, ConcatAdjacentSubSeq DEF Symbols
    <3> QED BY <1>0, <3>1, SubSeqFull DEF Symbols
  <2> HIDE DEF a
  <2>6. y.out \in Symbols /\ Len(y.out) = Len(w.out) + n
    BY <1>0, <2>1, <2>3, ConcatProperties DEF Symbols
  <2>7. /\ x.out = w.out \o a /\ x.ok = FALSE /\ x.left = w.left - 1 /\ x.buf = b
        /\ x = [out |-> x.out, buf |-> x.buf, ok |-> x.ok, left |-> x.left]
    <3>1. Len(y.out) - Len(w.out) + 1 = n + 1
      <4>1. Len(w.out) \in Nat BY <1>0
      <4> QED BY <2>6, <4>1
    <3>2. y.ok = FALSE /\ y.out = w.out \o a /\ y.left = w.left - 1
      BY <2>1
    <3>3. x = [y EXCEPT !.buf = SubSeq(w.buf, Len(y.out) - Len(w.out) + 1, Len(w.buf))]
      BY <1>1, <3>2
    <3>4. x = [y EXCEPT !.buf = b]
      BY <3>1, <3>3
    <3> HIDE DEF b
    <3> QED BY <2>1, <3>2, <3>4
  <2> HIDE DEF b
  <2>8. (w.out \o a) \o b = w.out \o (a \o b)
    <3>1. w.out \in Symbols /\ a \in Symbols BY <1>0, <2>3
    <3> HIDE DEF a
    <3> QED BY <2>4, <3>1, Regroup
  <2>9. w.left - 1 \in Nat BY <1>0, <1>3
  <2>10. x.out \in Symbols /\ x.buf \in Symbols /\ x.ok \in BOOLEAN /\ x.left \in Nat
    BY <2>1, <2>4, <2>6, <2>7, <2>9
  <2>11. x \in WriterState BY <2>7, <2>10 DEF WriterState
  <2>12. StreamOf(x) = StreamOf(w) BY <2>5, <2>7, <2>8 DEF StreamOf
  <2> QED BY <2>7, <2>11, <2>12
<1>4. \/ y = [w EXCEPT !.out = @ \o w.buf, !.ok = TRUE]
      \/ /\ w.left # 0
         /\ \E n \in 0 .. Len(w.buf) - 1 :
              y = [w EXCEPT !.out = @ \o SubSeq(w.buf, 1, n), !.ok = FALSE, !.left = @ - 1]
  BY DEF WriteAll
<1> QED BY <1>2, <1>3, <1>4

\* Two writes in a row, the second after a first that was Ok; and a first
\* that was not.
LEMMA TookBoth ==
  ASSUME NEW w \in WriterState, NEW y, NEW x, NEW i \in Nat \ {0}, Took(w, y, Body(i))
  PROVE  /\ y.ok /\ Took(y, x, <<NewLine>>) => Took(w, x, LineOf(i))
         /\ ~y.ok => Took(w, y, LineOf(i))
<1>0. /\ y \in WriterState /\ w.left \in Nat /\ y.ok \in BOOLEAN /\ i \in Nat
      /\ StreamOf(w) \in Symbols
  <2>1. y \in WriterState BY DEF Took
  <2>2. w.out \in Symbols /\ w.buf \in Symbols BY DEF WriterState
  <2> QED BY <2>1, <2>2, ConcatProperties DEF WriterState, StreamOf, Symbols
<1>1. /\ Body(i) \in Symbols /\ Len(Body(i)) = i /\ Len(LineOf(i)) = i + 1 /\ LineOf(i) \in Symbols
      /\ LineOf(i) = Body(i) \o <<NewLine>> /\ <<NewLine>> \in Symbols /\ Len(<<NewLine>>) = 1
  <2>1. <<NewLine>> \in Symbols /\ Len(<<NewLine>>) = 1 BY DEF NewLine, Symbols
  <2> QED BY <2>1, BodyProperties
<1>2. PICK k \in 0 .. i :
        /\ StreamOf(y) = StreamOf(w) \o SubSeq(Body(i), 1, k)
        /\ y.ok = (k = i)
  BY <1>1 DEF Took
<1>3. y.left = IF y.ok THEN w.left ELSE w.left - 1 BY DEF Took
<1>4. SubSeq(Body(i), 1, i) = Body(i) BY <1>1, SubSeqFull DEF Symbols
<1>5. SubSeq(LineOf(i), 1, i + 1) = LineOf(i) BY <1>1, SubSeqFull DEF Symbols
<1>6. ASSUME NEW j \in 0 .. i PROVE SubSeq(LineOf(i), 1, j) = SubSeq(Body(i), 1, j)
  <2>1. CASE j = 0
    BY <2>1, SubSeqEmpty
  <2>2. CASE j > 0
    <3>1. 1 \in 1 .. Len(Body(i)) /\ j \in 1 .. Len(Body(i)) BY <1>0, <1>1, <2>2
    <3> QED BY <1>1, <3>1, SubSeqOfConcat1 DEF Symbols
  <2> QED BY <1>0, <2>1, <2>2
<1>7. ASSUME y.ok, Took(y, x, <<NewLine>>) PROVE Took(w, x, LineOf(i))
  <2>1. k = i /\ StreamOf(y) = StreamOf(w) \o Body(i) BY <1>2, <1>4, <1>7
  <2>2. PICK j \in 0 .. 1 : StreamOf(x) = StreamOf(y) \o SubSeq(<<NewLine>>, 1, j) /\ x.ok = (j = 1)
    BY <1>1, <1>7 DEF Took
  <2>3. x \in WriterState /\ x.left = IF x.ok THEN w.left ELSE w.left - 1
    BY <1>3, <1>7 DEF Took
  <2>4. CASE j = 1
    <3>1. SubSeq(<<NewLine>>, 1, 1) = <<NewLine>> BY <1>1, SubSeqFull DEF Symbols
    <3>2. StreamOf(x) = (StreamOf(w) \o Body(i)) \o <<NewLine>> BY <2>1, <2>2, <2>4, <3>1
    <3>b. StreamOf(w) \in Symbols /\ Body(i) \in Symbols /\ <<NewLine>> \in Symbols BY <1>0, <1>1
    <3>c. (StreamOf(w) \o Body(i)) \o <<NewLine>> = StreamOf(w) \o (Body(i) \o <<NewLine>>)
      BY <3>b, Regroup, Zenon
    <3>a. StreamOf(x) = StreamOf(w) \o LineOf(i) BY <1>1, <3>2, <3>c, Zenon
    <3>3. i + 1 \in 0 .. Len(LineOf(i)) /\ x.ok = (i + 1 = Len(LineOf(i))) BY <1>0, <1>1, <2>2, <2>4
    <3> QED BY <1>1, <1>5, <2>3, <3>a, <3>3 DEF Took
  <2>5. CASE j = 0
    <3>1. SubSeq(<<NewLine>>, 1, 0) = <<>> BY SubSeqEmpty
    <3>2. StreamOf(y) \in Symbols BY <1>0, <1>1, <2>1, ConcatProperties DEF Symbols
    <3>3. StreamOf(x) = StreamOf(w) \o SubSeq(LineOf(i), 1, i)
      BY <1>0, <1>4, <1>6, <2>1, <2>2, <2>5, <3>1, <3>2, ConcatEmptySeq DEF Symbols
    <3>4. i \in 0 .. Len(LineOf(i)) /\ x.ok = (i = Len(LineOf(i))) BY <1>0, <1>1, <2>2, <2>5
    <3> QED BY <2>3, <3>3, <3>4 DEF Took
  <2> QED BY <2>4, <2>5
<1>8. ASSUME ~y.ok PROVE Took(w, y, LineOf(i))
  <2>1. StreamOf(y) = StreamOf(w) \o SubSeq(LineOf(i), 1, k) BY <1>2, <1>6
  <2>2. k \in 0 .. Len(LineOf(i)) /\ y.ok = (k = Len(LineOf(i)))
    <3>1. y.ok = FALSE BY <1>0, <1>8
    <3>2. k \in 0 .. Len(LineOf(i)) /\ k # Len(LineOf(i)) BY <1>0, <1>1
    <3> QED BY <3>1, <3>2
  <2> QED BY <1>0, <1>3, <2>1, <2>2 DEF Took
<1> QED BY <1>7, <1>8

\* BufWriter keeps the order of what it is given, though it passes large data
\* by its buffer: the buffer is empty then.
LEMMA BufWriteAllEffect ==
  ASSUME NEW w \in WriterState, NEW data \in Symbols, data # <<>>,
         NEW x \in BufWriteAll(w, data)
  PROVE  Took(w, x, data)
<1> DEFINE made == IF Len(data) > BufCapacity - Len(w.buf) THEN FlushBuf(w)
                   ELSE {[w EXCEPT !.ok = TRUE]}
<1>0. /\ w.out \in Symbols /\ w.buf \in Symbols /\ w.left \in Nat /\ Len(w.buf) \in Nat
      /\ Len(data) \in Nat \ {0} /\ BufCapacity \in Nat \ {0}
      /\ w = [out |-> w.out, buf |-> w.buf, ok |-> w.ok, left |-> w.left]
      /\ StreamOf(w) \in Symbols
  <2>1. w.out \in Symbols /\ w.buf \in Symbols /\ w.left \in Nat
        /\ w = [out |-> w.out, buf |-> w.buf, ok |-> w.ok, left |-> w.left]
    BY DEF WriterState
  <2>2. StreamOf(w) \in Symbols BY <2>1, ConcatProperties DEF StreamOf, Symbols
  <2>3. Len(data) \in Nat \ {0} /\ Len(w.buf) \in Nat
    BY <2>1, EmptySeq, LenProperties DEF Symbols
  <2> QED BY <2>1, <2>2, <2>3, SinkAssumption
<1>1. PICK y \in made :
        x \in IF ~y.ok THEN {y}
              ELSE IF Len(data) >= BufCapacity THEN WriteAll(y, data)
              ELSE {[y EXCEPT !.buf = @ \o data]}
  BY DEF BufWriteAll
<1>2. /\ y \in WriterState /\ StreamOf(y) = StreamOf(w)
      /\ y.left = IF y.ok THEN w.left ELSE w.left - 1
      /\ y.ok /\ Len(data) >= BufCapacity => y.buf = <<>>
  <2>1. CASE Len(data) > BufCapacity - Len(w.buf)
    <3>1. y \in FlushBuf(w) BY <2>1
    <3> QED BY <3>1, FlushBufEffect
  <2>2. CASE ~(Len(data) > BufCapacity - Len(w.buf))
    <3>1. y = [w EXCEPT !.ok = TRUE] BY <2>2
    <3>2. y.out = w.out /\ y.buf = w.buf /\ y.ok = TRUE /\ y.left = w.left
          /\ y = [out |-> y.out, buf |-> y.buf, ok |-> y.ok, left |-> y.left]
      BY <1>0, <3>1
    <3>3. y \in WriterState BY <1>0, <3>2 DEF WriterState
    <3>4. Len(data) >= BufCapacity => Len(w.buf) = 0 BY <1>0, <2>2
    <3>5. Len(w.buf) = 0 => w.buf = <<>> BY <1>0, EmptySeq DEF Symbols
    <3> QED BY <3>2, <3>3, <3>4, <3>5 DEF StreamOf
  <2> QED BY <2>1, <2>2
<1> HIDE DEF made
<1>3. CASE ~y.ok
  <2>1. x = y BY <1>1, <1>3
  <2>2. SubSeq(data, 1, 0) = <<>> BY SubSeqEmpty
  <2>3. StreamOf(x) = StreamOf(w) \o SubSeq(data, 1, 0)
    BY <1>0, <1>2, <2>1, <2>2, ConcatEmptySeq DEF Symbols
  <2>4. 0 \in 0 .. Len(data) /\ x.ok = (0 = Len(data))
    <3>1. y.ok = FALSE BY <1>2, <1>3 DEF WriterState
    <3>2. 0 \in 0 .. Len(data) /\ Len(data) # 0 BY <1>0
    <3> QED BY <2>1, <3>1, <3>2
  <2> QED BY <1>2, <2>1, <2>3, <2>4 DEF Took
<1>4. CASE y.ok /\ Len(data) >= BufCapacity
  <2>1. x \in WriteAll(y, data) BY <1>1, <1>4
  <2>2. Took(y, x, data) BY <1>2, <1>4, <2>1, WriteAllEffect
  <2> QED BY <1>2, <1>4, <2>2 DEF Took
<1>5. CASE y.ok /\ ~(Len(data) >= BufCapacity)
  <2>1. x = [y EXCEPT !.buf = @ \o data] BY <1>1, <1>5
  <2>2. y.out \in Symbols /\ y.buf \in Symbols /\ y.ok = TRUE /\ y.left = w.left
        /\ y = [out |-> y.out, buf |-> y.buf, ok |-> y.ok, left |-> y.left]
    BY <1>2, <1>5 DEF WriterState
  <2>3. x.out = y.out /\ x.buf = y.buf \o data /\ x.ok = TRUE /\ x.left = w.left
        /\ x = [out |-> x.out, buf |-> x.buf, ok |-> x.ok, left |-> x.left]
    BY <2>1, <2>2
  <2>4. x.buf \in Symbols BY <2>2, <2>3, ConcatProperties DEF Symbols
  <2>5. x \in WriterState BY <1>0, <2>2, <2>3, <2>4 DEF WriterState
  <2>6. StreamOf(x) = StreamOf(y) \o data BY <2>2, <2>3, Regroup DEF StreamOf
  <2>7. SubSeq(data, 1, Len(data)) = data BY SubSeqFull DEF Symbols
  <2>8. Len(data) \in 0 .. Len(data) BY <1>0
  <2>9. StreamOf(x) = StreamOf(w) \o SubSeq(data, 1, Len(data)) BY <1>2, <2>6, <2>7
  <2> QED BY <2>3, <2>5, <2>8, <2>9 DEF Took
<1> QED BY <1>3, <1>4, <1>5

\* accept of any writing leaf takes the first symbols of the line and is Ok
\* when it took all; only a FileSink holds anything back.
LEMMA AcceptEffect ==
  ASSUME NEW kind \in {"file", "writer", "console"}, NEW w \in WriterState,
         kind # "file" => w.buf = <<>>, NEW i \in Nat \ {0}, NEW x \in accept(kind, w, Body(i))
  PROVE  Took(w, x, LineOf(i)) /\ (kind # "file" => x.buf = <<>>)
<1>0. /\ Body(i) \in Symbols /\ Body(i) # <<>> /\ LineOf(i) \in Symbols
      /\ <<NewLine>> \in Symbols /\ <<NewLine>> # <<>>
  <2>1. Body(i) \in Symbols /\ Len(Body(i)) = i /\ LineOf(i) \in Symbols BY BodyProperties
  <2>2. Body(i) # <<>> BY <2>1
  <2> QED BY <2>1, <2>2 DEF NewLine, Symbols
<1>1. CASE kind = "file"
  <2>1. x \in accept_file(w, Body(i)) BY <1>1 DEF accept
  <2>2. PICK y \in BufWriteAll(w, Body(i)) :
          x \in IF y.ok THEN BufWriteAll(y, <<NewLine>>) ELSE {y}
    BY <2>1 DEF accept_file
  <2>3. Took(w, y, Body(i)) /\ y \in WriterState BY <1>0, BufWriteAllEffect DEF Took
  <2>4. CASE y.ok
    <3>1. Took(y, x, <<NewLine>>) BY <1>0, <2>2, <2>3, <2>4, BufWriteAllEffect
    <3> QED BY <1>1, <2>3, <2>4, <3>1, TookBoth
  <2>5. CASE ~y.ok
    <3>1. x = y BY <2>2, <2>5
    <3> QED BY <1>1, <2>3, <2>5, <3>1, TookBoth
  <2> QED BY <2>4, <2>5
<1>2. CASE kind = "writer"
  <2>0. w.buf = <<>> BY <1>2
  <2>1. x \in accept_writer(w, Body(i)) BY <1>2 DEF accept
  <2>2. PICK y \in WriteAll(w, Body(i)) :
          x \in IF y.ok THEN WriteAll(y, <<NewLine>>) ELSE {y}
    BY <2>1 DEF accept_writer
  <2>3. Took(w, y, Body(i)) /\ y \in WriterState /\ y.buf = <<>>
    BY <1>0, <2>0, WriteAllEffect DEF Took
  <2>4. CASE y.ok
    <3>1. Took(y, x, <<NewLine>>) /\ x.buf = <<>> BY <1>0, <2>2, <2>3, <2>4, WriteAllEffect
    <3> QED BY <2>3, <2>4, <3>1, TookBoth
  <2>5. CASE ~y.ok
    <3>1. x = y BY <2>2, <2>5
    <3> QED BY <2>3, <2>5, <3>1, TookBoth
  <2> QED BY <2>4, <2>5
<1>3. CASE kind = "console"
  <2>0. w.buf = <<>> BY <1>3
  <2>1. x \in WriteAll(w, LineOf(i)) BY <1>3 DEF accept, accept_console, LineOf
  <2> QED BY <1>0, <2>0, <2>1, WriteAllEffect
<1> QED BY <1>1, <1>2, <1>3

-----------------------------------------------------------------------------
(* What a push does to an in-memory store.                                  *)

Overflows == {"Unbounded", "DropNewest", "DropOldest"}

\* What RetentionHolds asks for of the records `all`.
KeptOf(o, n) == IF o = "Unbounded" THEN n ELSE IF n < MemCapacity THEN n ELSE MemCapacity
Want(o, all) ==
  IF o = "DropOldest" THEN SubSeq(all, Len(all) - KeptOf(o, Len(all)) + 1, Len(all))
  ELSE SubSeq(all, 1, KeptOf(o, Len(all)))
Lost(o, all) == Len(all) - KeptOf(o, Len(all))

\* While everything is kept, the store is the whole of it.
LEMMA WantAll ==
  ASSUME NEW o \in Overflows, NEW all \in Ids, KeptOf(o, Len(all)) = Len(all)
  PROVE  Want(o, all) = all /\ Lost(o, all) = 0
<1>1. Len(all) \in Nat /\ SubSeq(all, 1, Len(all)) = all BY SubSeqFull, LenProperties DEF Ids
<1>2. Len(all) - Len(all) + 1 = 1 /\ Len(all) - Len(all) = 0 BY <1>1
<1> QED BY <1>1, <1>2 DEF Want, Lost

\* What is wanted is some of the records, and a number of them.
LEMMA WantType ==
  ASSUME NEW o \in Overflows, NEW all \in Ids
  PROVE  Want(o, all) \in Ids /\ Lost(o, all) \in Nat
<1> DEFINE k == KeptOf(o, Len(all))
<1>1. Len(all) \in Nat BY LenProperties DEF Ids
<1>2. k \in 0 .. Len(all) BY <1>1, SinkAssumption DEF KeptOf
<1>3. \A i \in 1 .. Len(all) : all[i] \in Nat \ {0} BY ElementOfSeq DEF Ids
<1> HIDE DEF k
<1>4. SubSeq(all, 1, k) \in Ids
  <2>1. \A i \in 1 .. k : all[i] \in Nat \ {0} BY <1>1, <1>2, <1>3
  <2>2. k \in Int BY <1>2
  <2> QED BY <2>1, <2>2, SubSeqProperties DEF Ids
<1>5. SubSeq(all, Len(all) - k + 1, Len(all)) \in Ids
  <2>1. \A i \in Len(all) - k + 1 .. Len(all) : all[i] \in Nat \ {0} BY <1>1, <1>2, <1>3
  <2>2. Len(all) - k + 1 \in Int /\ Len(all) \in Int BY <1>1, <1>2
  <2> QED BY <2>1, <2>2, SubSeqProperties DEF Ids
<1>6. Len(all) - k \in Nat BY <1>1, <1>2
<1> QED BY <1>4, <1>5, <1>6 DEF Want, Lost, k

\* A push turns what is wanted of `all` into what is wanted of `all` and r.
LEMMA PushedKeeps ==
  ASSUME NEW o \in Overflows, NEW all \in Ids, NEW r \in Nat \ {0}
  PROVE  /\ Pushed(o, Want(o, all), r)[1] = Want(o, Append(all, r))
         /\ Lost(o, all) + Pushed(o, Want(o, all), r)[2] = Lost(o, Append(all, r))
<1> DEFINE more == Append(all, r)
           L == Len(all)
           M == MemCapacity
<1>0. M \in Nat \ {0} BY SinkAssumption
<1>1. L \in Nat /\ more \in Ids /\ Len(more) = L + 1 /\ more[L + 1] = r
  BY AppendProperties, LenProperties DEF Ids
<1> HIDE DEF L, M, more
<1>2. CASE o = "Unbounded" \/ L < M
  <2>1. KeptOf(o, L) = L BY <1>2 DEF KeptOf, M
  <2>2. KeptOf(o, L + 1) = L + 1 BY <1>0, <1>1, <1>2 DEF KeptOf, M
  <2>3. Want(o, all) = all /\ Lost(o, all) = 0 BY <2>1, WantAll DEF L
  <2>4. Want(o, more) = more /\ Lost(o, more) = 0 BY <1>1, <2>2, WantAll
  <2>5. Pushed(o, all, r) = <<more, 0>> BY <1>2 DEF Pushed, L, M, more
  <2> QED BY <2>3, <2>4, <2>5 DEF more
<1>3. CASE o = "DropNewest" /\ ~(L < M)
  <2>1. KeptOf(o, L) = M /\ KeptOf(o, Len(more)) = M BY <1>0, <1>1, <1>3 DEF KeptOf, M
  <2>2. Want(o, all) = SubSeq(all, 1, M) /\ Lost(o, all) = L - M BY <1>3, <2>1 DEF Want, Lost, L
  <2>3. Want(o, more) = SubSeq(more, 1, M) /\ Lost(o, more) = Len(more) - M
    BY <1>3, <2>1 DEF Want, Lost
  <2>4. Len(Want(o, all)) = M
    <3>1. \A i \in 1 .. M : all[i] \in Nat \ {0}
      <4>1. \A i \in 1 .. M : i \in 1 .. Len(all) BY <1>0, <1>1, <1>3 DEF L
      <4> QED BY <4>1, ElementOfSeq DEF Ids
    <3> QED BY <1>0, <2>2, <3>1, SubSeqProperties
  <2>5. Pushed(o, Want(o, all), r) = <<Want(o, all), 1>>
    <3>1. ~(o = "Unbounded" \/ Len(Want(o, all)) < MemCapacity) BY <1>0, <1>3, <2>4 DEF M
    <3> QED BY <1>3, <3>1 DEF Pushed
  <2>6. SubSeq(more, 1, M) = SubSeq(all, 1, M)
    <3>1. more = all \o <<r>> BY AppendIsConcat DEF Ids, more
    <3>2. 1 \in 1 .. Len(all) /\ M \in 1 .. Len(all) BY <1>0, <1>1, <1>3 DEF L
    <3>3. <<r>> \in Ids BY DEF Ids
    <3> QED BY <3>1, <3>2, <3>3, SubSeqOfConcat1 DEF Ids
  <2>7. L - M + 1 = Len(more) - M BY <1>0, <1>1
  <2>8. Pushed(o, Want(o, all), r)[1] = Want(o, more)
    <3>1. Want(o, all) = Want(o, more) BY <2>2, <2>3, <2>6, Zenon
    <3> QED BY <2>5, <3>1
  <2>9. Lost(o, all) + Pushed(o, Want(o, all), r)[2] = Lost(o, more) BY <2>2, <2>3, <2>5, <2>7
  <2> QED BY <2>8, <2>9 DEF more
<1>4. CASE o = "DropOldest" /\ ~(L < M)
  <2>1. KeptOf(o, L) = M /\ KeptOf(o, Len(more)) = M BY <1>0, <1>1, <1>4 DEF KeptOf, M
  <2>2. Want(o, all) = SubSeq(all, L - M + 1, L) /\ Lost(o, all) = L - M
    BY <1>4, <2>1 DEF Want, Lost, L
  <2>3. /\ Want(o, more) = SubSeq(more, Len(more) - M + 1, Len(more))
        /\ Lost(o, more) = Len(more) - M
    BY <1>4, <2>1 DEF Want, Lost
  <2> DEFINE m == Len(more) - M + 1
  <2>4. /\ L - M + 1 \in 1 .. Len(all) /\ L \in L - M + 1 .. Len(all) /\ L - M + 1 + 1 = m
        /\ m \in 1 .. Len(more) /\ Len(more) \in m .. Len(more) /\ Len(more) - 1 = L
        /\ m \in Int /\ m >= 1 /\ L - M + 1 \in Int /\ L \in Int
    BY <1>0, <1>1, <1>4 DEF L
  <2> HIDE DEF m
  <2>5. Len(Want(o, all)) = M
    <3>1. \A i \in L - M + 1 .. L : all[i] \in Nat \ {0}
      <4>1. \A i \in L - M + 1 .. L : i \in 1 .. Len(all) BY <1>1, <2>4 DEF L
      <4> QED BY <4>1, ElementOfSeq DEF Ids
    <3>2. Len(SubSeq(all, L - M + 1, L)) = IF L - M + 1 <= L THEN L - (L - M + 1) + 1 ELSE 0
      BY <2>4, <3>1, SubSeqProperties
    <3> QED BY <1>0, <1>1, <2>2, <3>2
  <2>6. Pushed(o, Want(o, all), r) = <<Append(Tail(Want(o, all)), r), 1>>
    <3>1. ~(o = "Unbounded" \/ Len(Want(o, all)) < MemCapacity) BY <1>0, <1>4, <2>5 DEF M
    <3> QED BY <1>4, <3>1 DEF Pushed
  <2>7. Tail(Want(o, all)) = SubSeq(all, m, L)
    <3>1. Tail(SubSeq(all, L - M + 1, L)) = SubSeq(all, L - M + 1 + 1, L)
      BY <2>4, HeadTailOfSubSeq DEF Ids
    <3> QED BY <2>2, <2>4, <3>1
  <2>8. Want(o, more) = SubSeq(more, m, L) \o <<r>>
    <3>1. SubSeq(more, m, Len(more)) = SubSeq(more, m, Len(more) - 1) \o <<more[Len(more)]>>
      BY <1>1, <2>4, SubSeqRecursiveSecond DEF Ids
    <3>2. more[Len(more)] = r BY <1>1
    <3> QED BY <2>3, <2>4, <3>1, <3>2 DEF m
  <2>9. SubSeq(more, m, L) = SubSeq(all, m, L)
    <3>1. CASE m <= L
      <4>1. more = all \o <<r>> BY AppendIsConcat DEF Ids, more
      <4>2. m \in 1 .. Len(all) /\ L \in 1 .. Len(all) BY <1>1, <2>4, <3>1 DEF L
      <4>3. <<r>> \in Ids BY DEF Ids
      <4> QED BY <4>1, <4>2, <4>3, SubSeqOfConcat1 DEF Ids
    <3>2. CASE ~(m <= L)
      <4>1. L < m BY <1>1, <2>4, <3>2
      <4> QED BY <2>4, <4>1, SubSeqEmpty
    <3> QED BY <3>1, <3>2
  <2>10. SubSeq(all, m, L) \in Ids
    <3>1. \A i \in m .. L : all[i] \in Nat \ {0}
      <4>1. \A i \in m .. L : i \in 1 .. Len(all) BY <1>1, <2>4 DEF L
      <4> QED BY <4>1, ElementOfSeq DEF Ids
    <3> QED BY <2>4, <3>1, SubSeqProperties DEF Ids
  <2>11. Append(SubSeq(all, m, L), r) = SubSeq(all, m, L) \o <<r>>
    BY <2>10, AppendIsConcat DEF Ids
  <2>12. Want(o, more) = Append(Tail(Want(o, all)), r) BY <2>7, <2>8, <2>9, <2>11
  <2>13. L - M + 1 = Len(more) - M BY <1>0, <1>1
  <2>14. Pushed(o, Want(o, all), r)[1] = Want(o, more) BY <2>6, <2>12
  <2>15. Lost(o, all) + Pushed(o, Want(o, all), r)[2] = Lost(o, more) BY <2>2, <2>3, <2>6, <2>13
  <2> QED BY <2>14, <2>15 DEF more
<1> QED BY <1>2, <1>3, <1>4 DEF Overflows

\* Nothing is wanted of nothing.
LEMMA WantNone ==
  ASSUME NEW o \in Overflows
  PROVE  Want(o, <<>>) = <<>> /\ Lost(o, <<>>) = 0
<1>1. <<>> \in Ids /\ Len(<<>>) = 0 BY EmptySeq DEF Ids
<1>2. KeptOf(o, 0) = 0 BY SinkAssumption DEF KeptOf
<1> QED BY <1>1, <1>2, WantAll

-----------------------------------------------------------------------------
(* The inductive invariant.                                                 *)

MemoryState == [records : Ids, lines : Ids, dropped_records : Nat, dropped_lines : Nat]

TypeOK ==
  /\ tree \in SinkTrees
  /\ stage \in {"idle", "accept", "flush", "drop", "gone"}
  /\ child \in Nat \ {0}
  /\ current \in [id : Nat, level : {1, 5}]
  /\ sent \in Seq({1, 5})
  /\ writer \in [Leaves -> WriterState]
  /\ memory \in [Leaves -> MemoryState]
  /\ faults \in [Leaves -> Nat]
  /\ accepted \in [Leaves -> Ids]
  /\ offered \in [Leaves -> Ids]

\* The record being accepted is the last one delivered.
CurrentInv ==
  stage = "accept" =>
    Len(sent) > 0 /\ current.id = Len(sent) /\ current.level = sent[Len(sent)]

\* Only a FileSink holds symbols back.
BufferInv == \A l \in Leaves : tree.leaves[l].kind # "file" => writer[l].buf = <<>>

\* The lines of a leaf, and what more is known while none of its writes failed.
LinesInv ==
  \A l \in WritesTo :
    /\ EndsLines(Stream(l), accepted[l])
    /\ faults[l] = 0 => accepted[l] = offered[l] /\ NoRemnant(Stream(l), accepted[l])

\* The buffers behind the flush that precedes the drop are empty.
DropInv ==
  \A l \in Leaves :
    faults[l] = 0 /\ (stage = "gone" \/ (stage = "drop" /\ l < child)) => writer[l].buf = <<>>

\* The records a leaf is given in the end: all at the root, those up to its
\* level in a FanOut.
Given(l) == {n \in DOMAIN sent : tree.fanout => sent[n] <= tree.leaves[l].max_level}

\* What a leaf has been offered: all it is given, but for the record whose turn
\* at this leaf is still to come.
Seen(l) == {n \in Given(l) : ~(stage = "accept" /\ child <= l /\ n = Len(sent))}

DueInv == \A l \in WritesTo : InOrder(offered[l]) /\ ToSet(offered[l]) = Seen(l)

\* The stores of an InMemorySink.
StoreOk(l) ==
  LET o == tree.leaves[l].overflow
      w == Want(o, offered[l])
      d == Lost(o, offered[l])
  IN IF raw_sink
     THEN memory[l].records = w /\ memory[l].dropped_records = d
          /\ memory[l].lines = <<>> /\ memory[l].dropped_lines = 0
     ELSE memory[l].lines = w /\ memory[l].dropped_lines = d
          /\ memory[l].records = <<>> /\ memory[l].dropped_records = 0

StoreInv == \A l \in Leaves : tree.leaves[l].kind = "memory" => StoreOk(l)

IInv == TypeOK /\ CurrentInv /\ BufferInv /\ LinesInv /\ DropInv /\ DueInv /\ StoreInv

Kinds == {"file", "writer", "console", "null", "memory"}

\* A configured tree is a sequence of leaves, one at the root.
LEMMA TreeFacts ==
  ASSUME tree \in SinkTrees
  PROVE  /\ Len(tree.leaves) \in Nat /\ Leaves = 1 .. Len(tree.leaves) /\ tree.fanout \in BOOLEAN
         /\ \A l \in Leaves : /\ tree.leaves[l].kind \in Kinds
                              /\ tree.leaves[l].overflow \in Overflows
                              /\ tree.leaves[l].max_level \in 1 .. 5
         /\ ~tree.fanout => Leaves = {1}
<1>1. tree \in Trees BY SinkAssumption
<1>2. tree.fanout \in BOOLEAN /\ tree.leaves \in Seq(LeafSinks)
      /\ (tree.fanout \/ Len(tree.leaves) = 1)
  BY <1>1 DEF Trees
<1>3. Len(tree.leaves) \in Nat /\ Leaves = 1 .. Len(tree.leaves)
  BY <1>2, LenProperties DEF Leaves
<1>4. ASSUME NEW x \in LeafSinks
      PROVE  x.kind \in Kinds /\ x.overflow \in Overflows /\ x.max_level \in 1 .. 5
  BY <1>4 DEF LeafSinks, MaxLevels, File, Writer, Console, Null, InMemory, Leaf, Kinds, Overflows
<1>5. ASSUME NEW l \in Leaves
      PROVE  tree.leaves[l].kind \in Kinds /\ tree.leaves[l].overflow \in Overflows
             /\ tree.leaves[l].max_level \in 1 .. 5
  <2>1. tree.leaves[l] \in LeafSinks BY <1>2, <1>3, ElementOfSeq
  <2> QED BY <1>4, <2>1
<1>6. ~tree.fanout => Leaves = {1}
  <2>1. 1 .. 1 = {1} OBVIOUS
  <2> QED BY <1>2, <1>3, <2>1, Zenon
<1> QED BY <1>2, <1>3, <1>5, <1>6

\* Steps that leave the leaves alone.
LEMMA LeavesKept ==
  ASSUME IInv, UNCHANGED <<tree, leafVars>>
  PROVE  BufferInv' /\ LinesInv' /\ StoreInv'
<1>1. UNCHANGED <<tree, writer, memory, faults, accepted, offered>> BY DEF leafVars
<1>2. BufferInv' BY <1>1 DEF IInv, BufferInv, Leaves
<1>3. LinesInv' BY <1>1 DEF IInv, LinesInv, WritesTo, Leaves, Stream
<1>4. StoreInv' BY <1>1 DEF IInv, StoreInv, StoreOk, Leaves, raw_sink
<1> QED BY <1>2, <1>3, <1>4

LEMMA IInvInit == SinkInit => IInv
<1> SUFFICES ASSUME SinkInit PROVE IInv OBVIOUS
<1> USE DEF SinkInit
<1>1. tree \in SinkTrees OBVIOUS
<1>2. <<>> \in Ids /\ <<>> \in Symbols /\ Len(<<>>) = 0 /\ <<>> \in Seq({1, 5})
      /\ DOMAIN <<>> = {}
  BY EmptySeq DEF Ids, Symbols
<1>3. Failures \in Nat BY SinkAssumption
<1>4. TypeOK
  <2>1. [out |-> <<>>, buf |-> <<>>, ok |-> TRUE, left |-> Failures] \in WriterState
    BY <1>2, <1>3 DEF WriterState
  <2>2. EmptyState \in MemoryState BY <1>2 DEF EmptyState, MemoryState
  <2> QED BY <1>2, <2>1, <2>2 DEF TypeOK
<1>5. CurrentInv BY DEF CurrentInv
<1>6. BufferInv BY DEF BufferInv
<1>7. LinesInv
  <2> SUFFICES ASSUME NEW l \in Leaves
               PROVE  EndsLines(Stream(l), accepted[l]) /\ accepted[l] = offered[l]
                      /\ NoRemnant(Stream(l), accepted[l])
    BY DEF LinesInv, WritesTo
  <2>1. Stream(l) = <<>> BY <1>2, ConcatEmptySeq DEF Stream, Symbols
  <2>2. accepted[l] = <<>> /\ offered[l] = <<>> OBVIOUS
  <2>3. Ends(<<>>, 0) = 0
    <3>1. Ended(<<>>, 0) = {} BY DEF Ended
    <3> QED BY <3>1, EndedFinite, FS_EmptySet
  <2> QED BY <1>2, <2>1, <2>2, <2>3 DEF EndsLines, NoRemnant
<1>8. DropInv BY DEF DropInv
<1>9. DueInv
  <2>1. \A l \in WritesTo : Given(l) = {} BY <1>2 DEF Given
  <2>2. \A l \in WritesTo : offered[l] = <<>> BY DEF WritesTo
  <2> QED BY <1>2, <2>1, <2>2 DEF DueInv, Seen, InOrder, ToSet
<1>10. StoreInv
  <2> SUFFICES ASSUME NEW l \in Leaves PROVE StoreOk(l) BY DEF StoreInv
  <2>1. memory[l] = EmptyState /\ offered[l] = <<>> OBVIOUS
  <2>2. tree.leaves[l].overflow \in Overflows BY <1>1, TreeFacts
  <2> QED BY <2>1, <2>2, WantNone DEF StoreOk, EmptyState
<1> QED BY <1>4, <1>5, <1>6, <1>7, <1>8, <1>9, <1>10 DEF IInv

-----------------------------------------------------------------------------
(* The steps.                                                               *)

LEMMA DeliverStep == ASSUME IInv, Deliver PROVE IInv'
<1>1. UNCHANGED <<tree, leafVars>> BY DEF Deliver
<1>2. UNCHANGED <<tree, writer, memory, faults, accepted, offered>> BY <1>1 DEF leafVars
<1>3. Leaves' = Leaves /\ WritesTo' = WritesTo BY <1>2 DEF Leaves, WritesTo
<1>4. PICK level \in {1, 5} :
        current' = [id |-> Len(sent) + 1, level |-> level] /\ sent' = Append(sent, level)
  BY DEF Deliver
<1>5. stage = "idle" /\ stage' = "accept" /\ child' = 1 BY DEF Deliver
<1>6. /\ sent \in Seq({1, 5}) /\ Len(sent) \in Nat /\ sent' \in Seq({1, 5})
      /\ Len(sent') = Len(sent) + 1 /\ sent'[Len(sent) + 1] = level
      /\ \A n \in 1 .. Len(sent) : sent'[n] = sent[n]
  <2>1. sent \in Seq({1, 5}) BY DEF IInv, TypeOK
  <2> QED BY <1>4, <2>1, AppendProperties, LenProperties
<1>7. TypeOK' BY <1>2, <1>3, <1>4, <1>5, <1>6 DEF IInv, TypeOK
<1>8. CurrentInv' BY <1>4, <1>6 DEF CurrentInv
<1>9. DropInv' BY <1>5 DEF DropInv
<1>10. DueInv'
  <2> SUFFICES ASSUME NEW l \in WritesTo PROVE Seen(l)' = Seen(l)
    BY <1>2, <1>3 DEF IInv, DueInv, InOrder
  <2>1. l \in Nat /\ l >= 1 BY TreeFacts DEF IInv, TypeOK, WritesTo
  <2>2. DOMAIN sent = 1 .. Len(sent) /\ DOMAIN sent' = 1 .. Len(sent) + 1
    BY <1>6, LenProperties
  <2>3. Seen(l) = Given(l) BY <1>5 DEF Seen
  <2>4. Seen(l)' = {n \in Given(l)' : n # Len(sent) + 1} BY <1>5, <1>6, <2>1 DEF Seen
  <2>5. ASSUME NEW n PROVE n \in Given(l)' /\ n # Len(sent) + 1 <=> n \in Given(l)
    <3>1. n \in DOMAIN sent' /\ n # Len(sent) + 1 <=> n \in DOMAIN sent BY <1>6, <2>2
    <3>2. n \in DOMAIN sent => sent'[n] = sent[n] BY <1>6, <2>2
    <3> QED BY <1>2, <3>1, <3>2 DEF Given
  <2> QED BY <2>3, <2>4, <2>5
<1> QED BY <1>1, <1>7, <1>8, <1>9, <1>10, LeavesKept DEF IInv

LEMMA AcceptDoneStep == ASSUME IInv, AcceptDone PROVE IInv'
<1>1. UNCHANGED <<tree, leafVars>> BY DEF AcceptDone
<1>2. UNCHANGED <<tree, writer, memory, faults, accepted, offered>> BY <1>1 DEF leafVars
<1>3. Leaves' = Leaves /\ WritesTo' = WritesTo BY <1>2 DEF Leaves, WritesTo
<1>4. /\ stage = "accept" /\ child \notin Leaves /\ stage' = "idle"
      /\ UNCHANGED <<child, current, sent>>
  BY DEF AcceptDone
<1>5. TypeOK' BY <1>2, <1>3, <1>4 DEF IInv, TypeOK
<1>6. CurrentInv' BY <1>4 DEF CurrentInv
<1>7. DropInv' BY <1>4 DEF DropInv
<1>8. DueInv'
  <2> SUFFICES ASSUME NEW l \in WritesTo PROVE Seen(l)' = Seen(l)
    BY <1>2, <1>3 DEF IInv, DueInv, InOrder
  <2>1. l \in Leaves BY DEF WritesTo
  <2>2. ~(child <= l) BY <1>4, <2>1, TreeFacts DEF IInv, TypeOK
  <2>3. Given(l)' = Given(l) BY <1>2, <1>4 DEF Given
  <2> QED BY <1>4, <2>2, <2>3 DEF Seen
<1> QED BY <1>1, <1>5, <1>6, <1>7, <1>8, LeavesKept DEF IInv

LEMMA SkippedStep == ASSUME IInv, Skipped PROVE IInv'
<1>1. UNCHANGED <<tree, leafVars>> BY DEF Skipped
<1>2. UNCHANGED <<tree, writer, memory, faults, accepted, offered>> BY <1>1 DEF leafVars
<1>3. Leaves' = Leaves /\ WritesTo' = WritesTo BY <1>2 DEF Leaves, WritesTo
<1>4. /\ stage = "accept" /\ child \in Leaves /\ child' = child + 1
      /\ tree.fanout /\ current.level > tree.leaves[child].max_level
      /\ UNCHANGED <<stage, current, sent>>
  BY DEF Skipped
<1>5. child \in Nat \ {0} BY DEF IInv, TypeOK
<1>6. TypeOK' BY <1>2, <1>3, <1>4, <1>5 DEF IInv, TypeOK
<1>7. CurrentInv' BY <1>4 DEF IInv, CurrentInv
<1>8. DropInv' BY <1>4 DEF DropInv
<1>9. DueInv'
  <2> SUFFICES ASSUME NEW l \in WritesTo PROVE Seen(l)' = Seen(l)
    BY <1>2, <1>3 DEF IInv, DueInv, InOrder
  <2>1. l \in Nat BY TreeFacts DEF IInv, TypeOK, WritesTo
  <2>2. Given(l)' = Given(l) BY <1>2, <1>4 DEF Given
  <2>3. CASE l # child
    <3>1. child <= l <=> child' <= l BY <1>4, <1>5, <2>1, <2>3
    <3> QED BY <1>4, <2>2, <3>1 DEF Seen
  <2>4. CASE l = child
    <3>1. sent[Len(sent)] = current.level BY <1>4 DEF IInv, CurrentInv
    <3>2. Len(sent) \notin Given(l)
      <4>1. current.level \in Nat /\ tree.leaves[child].max_level \in Nat
        <5>1. current.level \in {1, 5} /\ tree \in SinkTrees BY DEF IInv, TypeOK
        <5>2. tree.leaves[child].max_level \in 1 .. 5 BY <1>4, <5>1, TreeFacts
        <5> QED BY <5>1, <5>2
      <4> QED BY <1>4, <2>4, <3>1, <4>1 DEF Given
    <3> QED BY <1>4, <2>2, <3>2 DEF Seen
  <2> QED BY <2>3, <2>4
<1> QED BY <1>1, <1>6, <1>7, <1>8, <1>9, LeavesKept DEF IInv

LEMMA BeginFlushStep == ASSUME IInv, BeginFlush PROVE IInv'
<1>1. UNCHANGED <<tree, leafVars>> BY DEF BeginFlush
<1>2. UNCHANGED <<tree, writer, memory, faults, accepted, offered>> BY <1>1 DEF leafVars
<1>3. Leaves' = Leaves /\ WritesTo' = WritesTo BY <1>2 DEF Leaves, WritesTo
<1>4. stage = "idle" /\ stage' = "flush" /\ child' = 1 /\ UNCHANGED <<current, sent>>
  BY DEF BeginFlush
<1>5. TypeOK' BY <1>2, <1>3, <1>4 DEF IInv, TypeOK
<1>6. CurrentInv' /\ DropInv' BY <1>4 DEF CurrentInv, DropInv
<1>7. DueInv' BY <1>2, <1>3, <1>4 DEF IInv, DueInv, InOrder, Seen, Given
<1> QED BY <1>1, <1>5, <1>6, <1>7, LeavesKept DEF IInv

LEMMA FlushDoneStep == ASSUME IInv, FlushDone PROVE IInv'
<1>1. UNCHANGED <<tree, leafVars>> BY DEF FlushDone
<1>2. UNCHANGED <<tree, writer, memory, faults, accepted, offered>> BY <1>1 DEF leafVars
<1>3. Leaves' = Leaves /\ WritesTo' = WritesTo BY <1>2 DEF Leaves, WritesTo
<1>4. /\ stage \in {"flush", "drop"} /\ child \notin Leaves /\ child' = 1
      /\ stage' \in {"gone", "drop", "idle"} /\ (stage' = "gone" => stage = "drop")
      /\ UNCHANGED <<current, sent>>
  BY DEF FlushDone
<1>5. TypeOK' BY <1>2, <1>3, <1>4 DEF IInv, TypeOK
<1>6. CurrentInv' BY <1>4 DEF CurrentInv
<1>7. DropInv'
  <2> SUFFICES ASSUME NEW l \in Leaves, faults[l] = 0, stage' = "gone" \/ l < 1
               PROVE  writer[l].buf = <<>>
    BY <1>2, <1>3, <1>4 DEF DropInv
  <2>1. l \in 1 .. Len(tree.leaves) /\ Len(tree.leaves) \in Nat /\ child \in Nat \ {0}
        /\ child \notin 1 .. Len(tree.leaves)
    BY <1>4, TreeFacts DEF IInv, TypeOK
  <2>2. l < child /\ ~(l < 1) BY <2>1
  <2> QED BY <1>4, <2>2 DEF IInv, DropInv
<1>8. DueInv' BY <1>2, <1>3, <1>4 DEF IInv, DueInv, InOrder, Seen, Given
<1> QED BY <1>1, <1>5, <1>6, <1>7, <1>8, LeavesKept DEF IInv

\* A line goes to one leaf, that takes a part of it or all.
LEMMA AcceptLineStep == ASSUME IInv, AcceptLine PROVE IInv'
<1>1. /\ stage = "accept" /\ child \in Leaves /\ Wanted /\ Writes(tree.leaves[child].kind)
      /\ offered' = [offered EXCEPT ![child] = Append(@, current.id)]
      /\ UNCHANGED <<tree, stage, current, sent, memory>>
  BY DEF AcceptLine
<1>2. PICK w \in accept(tree.leaves[child].kind, writer[child], Body(current.id)) :
        /\ writer' = [writer EXCEPT ![child] = w]
        /\ faults' = [faults EXCEPT ![child] = @ + (IF w.left < writer[child].left THEN 1 ELSE 0)]
        /\ accepted' = [accepted EXCEPT ![child] = IF w.ok THEN Append(@, current.id) ELSE @]
        /\ child' = NextChild(w.ok)
  BY DEF AcceptLine
<1>3. Leaves' = Leaves /\ WritesTo' = WritesTo BY <1>1 DEF Leaves, WritesTo
<1>4. /\ tree \in SinkTrees /\ child \in Nat \ {0} /\ sent \in Seq({1, 5})
      /\ writer \in [Leaves -> WriterState] /\ faults \in [Leaves -> Nat]
      /\ accepted \in [Leaves -> Ids] /\ offered \in [Leaves -> Ids]
      /\ memory \in [Leaves -> MemoryState] /\ current \in [id : Nat, level : {1, 5}]
  BY DEF IInv, TypeOK
<1>5. child' = child + 1 BY <1>2 DEF NextChild
<1>6. Len(sent) \in Nat \ {0} /\ current.id = Len(sent) /\ current.level = sent[Len(sent)]
  <2>1. Len(sent) > 0 /\ current.id = Len(sent) /\ current.level = sent[Len(sent)]
    BY <1>1 DEF IInv, CurrentInv
  <2>2. Len(sent) \in Nat BY <1>4, LenProperties
  <2> QED BY <2>1, <2>2
<1> DEFINE i == current.id
           v == writer[child]
<1>7. i \in Nat \ {0} /\ v \in WriterState BY <1>1, <1>4, <1>6
<1>8. Took(v, w, LineOf(i)) /\ (tree.leaves[child].kind # "file" => w.buf = <<>>)
  <2>1. tree.leaves[child].kind \in {"file", "writer", "console"} BY <1>1 DEF Writes
  <2>2. tree.leaves[child].kind # "file" => v.buf = <<>> BY <1>1 DEF IInv, BufferInv
  <2> HIDE DEF v, i
  <2>3. w \in accept(tree.leaves[child].kind, v, Body(i)) BY <1>2 DEF v, i
  <2> QED BY <1>7, <2>1, <2>2, <2>3, AcceptEffect
<1>9. /\ w \in WriterState /\ v.left \in Nat /\ w.ok \in BOOLEAN
      /\ w.left = IF w.ok THEN v.left ELSE v.left - 1
  BY <1>7, <1>8 DEF Took, WriterState
<1>10. faults' = [faults EXCEPT ![child] = @ + (IF w.ok THEN 0 ELSE 1)]
  <2>1. (w.left < v.left) <=> ~w.ok BY <1>9
  <2>2. (IF w.left < v.left THEN 1 ELSE 0) = (IF w.ok THEN 0 ELSE 1) BY <2>1
  <2> QED BY <1>2, <2>2
<1>11. \A l \in Leaves : l # child =>
         /\ writer'[l] = writer[l] /\ faults'[l] = faults[l]
         /\ accepted'[l] = accepted[l] /\ offered'[l] = offered[l]
  BY <1>1, <1>2, <1>4
<1>12. /\ writer'[child] = w /\ faults'[child] = faults[child] + (IF w.ok THEN 0 ELSE 1)
       /\ accepted'[child] = IF w.ok THEN Append(accepted[child], i) ELSE accepted[child]
       /\ offered'[child] = Append(offered[child], i)
  BY <1>1, <1>2, <1>4, <1>10
<1>13. Append(accepted[child], i) \in Ids /\ Append(offered[child], i) \in Ids
  <2>1. accepted[child] \in Ids /\ offered[child] \in Ids BY <1>1, <1>4
  <2> QED BY <1>7, <2>1, AppendProperties DEF Ids
<1>14. TypeOK'
  <2>1. writer' \in [Leaves -> WriterState] BY <1>2, <1>4, <1>9
  <2>2. faults' \in [Leaves -> Nat] BY <1>1, <1>4, <1>10
  <2>3. accepted' \in [Leaves -> Ids] BY <1>1, <1>2, <1>4, <1>13
  <2>4. offered' \in [Leaves -> Ids] BY <1>1, <1>4, <1>13
  <2>5. child' \in Nat \ {0} BY <1>4, <1>5
  <2> QED BY <1>1, <1>3, <1>4, <2>1, <2>2, <2>3, <2>4, <2>5 DEF TypeOK
<1>15. CurrentInv' BY <1>1, <1>6 DEF CurrentInv
<1>16. BufferInv'
  <2> SUFFICES ASSUME NEW l \in Leaves, tree.leaves[l].kind # "file" PROVE writer'[l].buf = <<>>
    BY <1>1, <1>3 DEF BufferInv
  <2>1. CASE l = child BY <1>8, <1>12, <2>1
  <2>2. CASE l # child BY <1>11, <2>2 DEF IInv, BufferInv
  <2> QED BY <2>1, <2>2
<1>17. LinesInv'
  <2> SUFFICES ASSUME NEW l \in WritesTo
               PROVE  /\ EndsLines(Stream(l)', accepted'[l])
                      /\ faults'[l] = 0 =>
                           accepted'[l] = offered'[l] /\ NoRemnant(Stream(l)', accepted'[l])
    BY <1>3 DEF LinesInv
  <2>0. l \in Leaves BY DEF WritesTo
  <2>1. /\ EndsLines(Stream(l), accepted[l])
        /\ faults[l] = 0 => accepted[l] = offered[l] /\ NoRemnant(Stream(l), accepted[l])
    BY DEF IInv, LinesInv
  <2>2. CASE l # child
    <3>1. Stream(l)' = Stream(l) BY <1>11, <2>0, <2>2 DEF Stream
    <3> QED BY <1>11, <2>0, <2>1, <2>2, <3>1
  <2>3. CASE l = child
    <3> DEFINE s == StreamOf(v)
    <3>1. Stream(l) = s /\ Stream(l)' = StreamOf(w) BY <1>12, <2>3 DEF Stream, StreamOf
    <3>2. s \in Symbols
      <4>1. v.out \in Symbols /\ v.buf \in Symbols BY <1>7 DEF WriterState
      <4> QED BY <4>1, ConcatProperties DEF StreamOf, Symbols
    <3>3. accepted[child] \in Ids BY <1>1, <1>4
    <3>4. Len(LineOf(i)) = i + 1 /\ LineOf(i) \in Symbols BY <1>7, BodyProperties
    <3>5. PICK k \in 0 .. i + 1 : StreamOf(w) = s \o SubSeq(LineOf(i), 1, k) /\ w.ok = (k = i + 1)
      BY <1>8, <3>4 DEF Took
    <3> HIDE DEF s, v, i
    <3>6. EndsLines(s, accepted[child]) BY <2>1, <2>3, <3>1
    <3>7. CASE k = i + 1
      <4>1. w.ok = TRUE BY <3>5, <3>7
      <4>2. SubSeq(LineOf(i), 1, i + 1) = LineOf(i) BY <3>4, SubSeqFull DEF Symbols
      <4>3. StreamOf(w) = s \o LineOf(i) BY <3>5, <3>7, <4>2
      <4>4. /\ EndsLines(s \o LineOf(i), Append(accepted[child], i))
            /\ NoRemnant(s, accepted[child]) =>
                 NoRemnant(s \o LineOf(i), Append(accepted[child], i))
        BY <1>7, <3>2, <3>3, <3>6, WholeLine
      <4>5. accepted'[child] = Append(accepted[child], i) /\ faults'[child] = faults[child]
        <5>1. faults[child] \in Nat BY <1>1, <1>4
        <5> QED BY <1>12, <4>1, <5>1 DEF i
      <4>6. offered'[child] = Append(offered[child], i) BY <1>12 DEF i
      <4> QED BY <2>1, <2>3, <3>1, <4>3, <4>4, <4>5, <4>6
    <3>8. CASE k # i + 1
      <4>1. w.ok = FALSE BY <3>5, <3>8
      <4>2. k \in 0 .. i BY <1>7, <3>8
      <4>3. EndsLines(s \o SubSeq(LineOf(i), 1, k), accepted[child])
        BY <1>7, <3>2, <3>3, <3>6, <4>2, PartOfLine
      <4>4. accepted'[child] = accepted[child] BY <1>12, <4>1
      <4>5. faults'[child] # 0
        <5>1. faults[child] \in Nat BY <1>1, <1>4
        <5> QED BY <1>12, <4>1, <5>1
      <4> QED BY <2>3, <3>1, <3>5, <4>3, <4>4, <4>5
    <3> QED BY <3>7, <3>8
  <2> QED BY <2>2, <2>3
<1>18. DropInv' BY <1>1 DEF DropInv
<1>19. DueInv'
  <2> SUFFICES ASSUME NEW l \in WritesTo
               PROVE  InOrder(offered'[l]) /\ ToSet(offered'[l]) = Seen(l)'
    BY <1>3 DEF DueInv
  <2>0. l \in Leaves /\ l \in Nat BY <1>4, TreeFacts DEF WritesTo
  <2>1. InOrder(offered[l]) /\ ToSet(offered[l]) = Seen(l) BY DEF IInv, DueInv
  <2>2. Given(l)' = Given(l) BY <1>1 DEF Given
  <2>3. CASE l # child
    <3>1. child <= l <=> child' <= l BY <1>4, <1>5, <2>0, <2>3
    <3>2. Seen(l)' = Seen(l) BY <1>1, <2>2, <3>1 DEF Seen
    <3> QED BY <1>11, <2>0, <2>1, <2>3, <3>2
  <2>4. CASE l = child
    <3>1. i \in Given(l)
      <4>1. i \in DOMAIN sent BY <1>4, <1>6, LenProperties
      <4> QED BY <1>1, <1>6, <2>4, <4>1 DEF Given, Wanted
    <3>2. Seen(l)' = Given(l) BY <1>1, <1>4, <1>5, <2>2, <2>4 DEF Seen
    <3>3. Seen(l) = Given(l) \ {i}
      <4>1. child <= l BY <1>4, <2>4
      <4> QED BY <1>1, <1>6, <4>1 DEF Seen
    <3>4. offered'[l] = Append(offered[l], i) /\ offered[l] \in Ids /\ Len(offered[l]) \in Nat
      <4>1. offered[l] \in Ids BY <1>4, <2>0
      <4> QED BY <1>12, <2>4, <4>1, LenProperties DEF Ids
    <3>5. /\ DOMAIN offered[l] = 1 .. Len(offered[l])
          /\ DOMAIN offered'[l] = 1 .. Len(offered[l]) + 1
          /\ offered'[l][Len(offered[l]) + 1] = i
          /\ \A n \in 1 .. Len(offered[l]) : offered'[l][n] = offered[l][n]
      <4>1. Append(offered[l], i) \in Ids /\ Len(Append(offered[l], i)) = Len(offered[l]) + 1
            /\ Append(offered[l], i)[Len(offered[l]) + 1] = i
            /\ \A n \in 1 .. Len(offered[l]) : Append(offered[l], i)[n] = offered[l][n]
        BY <1>7, <3>4, AppendProperties DEF Ids
      <4> QED BY <3>4, <4>1, LenProperties DEF Ids
    <3>6. \A n \in 1 .. Len(offered[l]) : offered[l][n] \in Nat /\ offered[l][n] < i
      <4> SUFFICES ASSUME NEW n \in 1 .. Len(offered[l])
                   PROVE  offered[l][n] \in Nat /\ offered[l][n] < i
        OBVIOUS
      <4>1. offered[l][n] \in Given(l) \ {i} BY <2>1, <3>3, <3>5 DEF ToSet
      <4>2. offered[l][n] \in 1 .. Len(sent) BY <1>4, <4>1, LenProperties DEF Given
      <4> QED BY <1>6, <4>1, <4>2
    <3> HIDE DEF i
    <3>7. InOrder(offered'[l])
      <4> SUFFICES ASSUME NEW m \in DOMAIN offered'[l], NEW n \in DOMAIN offered'[l], m < n
                   PROVE  offered'[l][m] < offered'[l][n]
        BY DEF InOrder
      <4>1. m \in 1 .. Len(offered[l]) BY <3>4, <3>5
      <4>2. CASE n \in 1 .. Len(offered[l])
        <5>1. offered[l][m] < offered[l][n] BY <2>1, <3>5, <4>1, <4>2 DEF InOrder
        <5> QED BY <3>5, <4>1, <4>2, <5>1
      <4>3. CASE n = Len(offered[l]) + 1
        BY <3>5, <3>6, <4>1, <4>3
      <4> QED BY <3>4, <3>5, <4>2, <4>3
    <3>8. ToSet(offered'[l]) = ToSet(offered[l]) \cup {i}
      <4>1. 1 .. Len(offered[l]) + 1 = (1 .. Len(offered[l])) \cup {Len(offered[l]) + 1}
        BY <3>4
      <4> QED BY <3>5, <4>1 DEF ToSet
    <3> QED BY <2>1, <3>1, <3>2, <3>3, <3>7, <3>8
  <2> QED BY <2>3, <2>4
<1>20. StoreInv'
  <2> SUFFICES ASSUME NEW l \in Leaves, tree.leaves[l].kind = "memory" PROVE StoreOk(l)'
    BY <1>1, <1>3 DEF StoreInv
  <2>1. l # child BY <1>1 DEF Writes
  <2>2. StoreOk(l) BY DEF IInv, StoreInv
  <2>3. offered'[l] = offered[l] /\ raw_sink' = raw_sink BY <1>1, <1>11, <2>1 DEF raw_sink
  <2> QED BY <1>1, <2>2, <2>3 DEF StoreOk
<1> QED BY <1>14, <1>15, <1>16, <1>17, <1>18, <1>19, <1>20 DEF IInv

\* A record goes to one leaf that captures or discards it.
LEMMA AcceptCaptureStep == ASSUME IInv, AcceptCapture PROVE IInv'
<1> DEFINE leaf == tree.leaves[child]
           i == current.id
           pushed == IF leaf.kind = "null" THEN memory[child]
                     ELSE IF raw_sink THEN push_record(leaf.overflow, memory[child], i)
                     ELSE push_line(leaf.overflow, memory[child], i)
<1>1. /\ stage = "accept" /\ child \in Leaves /\ ~Writes(leaf.kind)
      /\ memory' = [memory EXCEPT ![child] = pushed]
      /\ offered' = [offered EXCEPT ![child] = Append(@, i)]
      /\ child' = child + 1
      /\ UNCHANGED <<tree, stage, current, sent, writer, faults, accepted>>
  BY DEF AcceptCapture, NextChild
<1>2. /\ Leaves' = Leaves /\ WritesTo' = WritesTo /\ raw_sink' = raw_sink
      /\ \A l \in WritesTo : l # child
  BY <1>1 DEF Leaves, WritesTo, raw_sink
<1>3. /\ tree \in SinkTrees /\ child \in Nat \ {0}
      /\ memory \in [Leaves -> MemoryState] /\ offered \in [Leaves -> Ids]
  BY DEF IInv, TypeOK
<1>4. i \in Nat \ {0}
  <2>1. Len(sent) > 0 /\ i = Len(sent) /\ sent \in Seq({1, 5})
    BY <1>1 DEF IInv, TypeOK, CurrentInv
  <2> QED BY <2>1, LenProperties
<1> DEFINE all == offered[child]
<1>5. all \in Ids /\ leaf.overflow \in Overflows /\ leaf.kind \in {"null", "memory"}
      /\ memory[child] \in MemoryState
  <2>1. leaf.kind \in Kinds /\ leaf.overflow \in Overflows BY <1>1, <1>3, TreeFacts
  <2> QED BY <1>1, <1>3, <2>1 DEF Kinds, Writes
<1>6. Append(all, i) \in Ids BY <1>4, <1>5, AppendProperties DEF Ids
<1>7. offered' \in [Leaves -> Ids] BY <1>1, <1>3, <1>6
<1>8. \A l \in Leaves : l # child => memory'[l] = memory[l] /\ offered'[l] = offered[l]
  BY <1>1, <1>3
<1>9. memory'[child] = pushed /\ offered'[child] = Append(all, i) BY <1>1, <1>3
<1> HIDE DEF all, i, pushed
<1>10. leaf.kind = "memory" =>
         /\ Pushed(leaf.overflow, Want(leaf.overflow, all), i)[1] = Want(leaf.overflow, Append(all, i))
         /\ Lost(leaf.overflow, all) + Pushed(leaf.overflow, Want(leaf.overflow, all), i)[2]
              = Lost(leaf.overflow, Append(all, i))
  BY <1>4, <1>5, PushedKeeps
<1>11. leaf.kind = "memory" => StoreOk(child)
  BY <1>1 DEF IInv, StoreInv
<1> DEFINE o == leaf.overflow
           want == Want(o, Append(all, i))
           lost == Lost(o, Append(all, i))
<1>12. leaf.kind = "memory" =>
         pushed = IF raw_sink
                  THEN [records |-> want, dropped_records |-> lost, lines |-> <<>>, dropped_lines |-> 0]
                  ELSE [records |-> <<>>, dropped_records |-> 0, lines |-> want, dropped_lines |-> lost]
  <2> SUFFICES ASSUME leaf.kind = "memory"
               PROVE  pushed = IF raw_sink
                               THEN [records |-> want, dropped_records |-> lost,
                                     lines |-> <<>>, dropped_lines |-> 0]
                               ELSE [records |-> <<>>, dropped_records |-> 0,
                                     lines |-> want, dropped_lines |-> lost]
    OBVIOUS
  <2>1. memory[child] = [records |-> memory[child].records, lines |-> memory[child].lines,
                         dropped_records |-> memory[child].dropped_records,
                         dropped_lines |-> memory[child].dropped_lines]
    BY <1>5 DEF MemoryState
  <2> DEFINE p == Pushed(o, Want(o, all), i)
  <2>2. p[1] = want /\ Lost(o, all) + p[2] = lost BY <1>10
  <2> HIDE DEF p, want, lost
  <2>3. CASE raw_sink
    <3>1. /\ memory[child].records = Want(o, all) /\ memory[child].dropped_records = Lost(o, all)
          /\ memory[child].lines = <<>> /\ memory[child].dropped_lines = 0
      BY <1>11, <2>3 DEF StoreOk, all
    <3>2. pushed = [memory[child] EXCEPT !.records = p[1], !.dropped_records = @ + p[2]]
      BY <2>3, <3>1 DEF pushed, push_record, p
    <3>3. pushed = [records |-> p[1], lines |-> memory[child].lines,
                    dropped_records |-> memory[child].dropped_records + p[2],
                    dropped_lines |-> memory[child].dropped_lines]
      BY <2>1, <3>2
    <3> QED BY <2>2, <2>3, <3>1, <3>3
  <2>4. CASE ~raw_sink
    <3>1. /\ memory[child].lines = Want(o, all) /\ memory[child].dropped_lines = Lost(o, all)
          /\ memory[child].records = <<>> /\ memory[child].dropped_records = 0
      BY <1>11, <2>4 DEF StoreOk, all
    <3>2. pushed = [memory[child] EXCEPT !.lines = p[1], !.dropped_lines = @ + p[2]]
      BY <2>4, <3>1 DEF pushed, push_line, p
    <3>3. pushed = [records |-> memory[child].records, lines |-> p[1],
                    dropped_records |-> memory[child].dropped_records,
                    dropped_lines |-> memory[child].dropped_lines + p[2]]
      BY <2>1, <3>2
    <3> QED BY <2>2, <2>4, <3>1, <3>3
  <2> QED BY <2>3, <2>4
<1>13. want \in Ids /\ lost \in Nat BY <1>5, <1>6, WantType
<1>14. pushed \in MemoryState
  <2>1. CASE leaf.kind = "null" BY <1>5, <2>1 DEF pushed
  <2>2. CASE leaf.kind = "memory"
    <3> HIDE DEF want, lost
    <3>1. <<>> \in Ids BY EmptySeq DEF Ids
    <3> QED BY <1>12, <1>13, <2>2, <3>1 DEF MemoryState
  <2> QED BY <1>5, <2>1, <2>2
<1>15. TypeOK'
  <2>1. memory' \in [Leaves -> MemoryState] BY <1>1, <1>3, <1>14
  <2>2. child' \in Nat \ {0} BY <1>1, <1>3
  <2> QED BY <1>1, <1>2, <1>7, <2>1, <2>2 DEF IInv, TypeOK
<1>16. CurrentInv' BY <1>1 DEF IInv, CurrentInv
<1>17. BufferInv' BY <1>1, <1>2 DEF IInv, BufferInv
<1>18. LinesInv'
  <2> SUFFICES ASSUME NEW l \in WritesTo
               PROVE  /\ EndsLines(Stream(l)', accepted'[l])
                      /\ faults'[l] = 0 =>
                           accepted'[l] = offered'[l] /\ NoRemnant(Stream(l)', accepted'[l])
    BY <1>2 DEF LinesInv
  <2>1. l \in Leaves /\ l # child BY <1>2 DEF WritesTo
  <2>2. Stream(l)' = Stream(l) /\ accepted'[l] = accepted[l] /\ faults'[l] = faults[l]
        /\ offered'[l] = offered[l]
    BY <1>1, <1>8, <2>1 DEF Stream
  <2> QED BY <2>2 DEF IInv, LinesInv
<1>19. DropInv' BY <1>1 DEF DropInv
<1>20. DueInv'
  <2> SUFFICES ASSUME NEW l \in WritesTo
               PROVE  InOrder(offered'[l]) /\ ToSet(offered'[l]) = Seen(l)'
    BY <1>2 DEF DueInv
  <2>1. l \in Leaves /\ l # child /\ l \in Nat BY <1>2, <1>3, TreeFacts DEF WritesTo
  <2>2. child <= l <=> child' <= l BY <1>1, <1>3, <2>1
  <2>3. Seen(l)' = Seen(l) BY <1>1, <2>2 DEF Seen, Given
  <2>4. offered'[l] = offered[l] BY <1>8, <2>1
  <2> QED BY <2>3, <2>4 DEF IInv, DueInv
<1>21. StoreInv'
  <2> SUFFICES ASSUME NEW l \in Leaves, tree.leaves[l].kind = "memory" PROVE StoreOk(l)'
    BY <1>1, <1>2 DEF StoreInv
  <2>1. CASE l # child
    <3>1. memory'[l] = memory[l] /\ offered'[l] = offered[l] BY <1>8, <2>1
    <3>2. StoreOk(l) BY DEF IInv, StoreInv
    <3> QED BY <1>1, <1>2, <3>1, <3>2 DEF StoreOk
  <2>2. CASE l = child
    <3>1. Want(tree.leaves[l].overflow, offered'[l]) = want
          /\ Lost(tree.leaves[l].overflow, offered'[l]) = lost
      BY <1>9, <2>2
    <3>2. memory'[l] = pushed BY <1>9, <2>2
    <3> HIDE DEF want, lost
    <3> QED BY <1>1, <1>2, <1>12, <2>2, <3>1, <3>2 DEF StoreOk
  <2> QED BY <2>1, <2>2
<1> QED BY <1>15, <1>16, <1>17, <1>18, <1>19, <1>20, <1>21 DEF IInv

\* Flushing a leaf moves symbols within its stream.
LEMMA FlushLeafStep == ASSUME IInv, FlushLeaf PROVE IInv'
<1>1. /\ stage \in {"flush", "drop"} /\ child \in Leaves /\ child' = child + 1
      /\ UNCHANGED <<tree, stage, current, sent, memory, accepted, offered>>
  BY DEF FlushLeaf
<1>2. PICK w \in IF stage = "drop" THEN Emptied(tree.leaves[child].kind, writer[child])
               ELSE flush(tree.leaves[child].kind, writer[child]) :
        /\ writer' = [writer EXCEPT ![child] = w]
        /\ faults' = [faults EXCEPT ![child] = @ + (IF w.ok THEN 0 ELSE 1)]
  BY DEF FlushLeaf
<1>3. Leaves' = Leaves /\ WritesTo' = WritesTo BY <1>1 DEF Leaves, WritesTo
<1>4. /\ tree \in SinkTrees /\ child \in Nat \ {0}
      /\ writer \in [Leaves -> WriterState] /\ faults \in [Leaves -> Nat]
  BY DEF IInv, TypeOK
<1> DEFINE v == writer[child]
<1>5. v \in WriterState BY <1>1, <1>4
<1>6. /\ w \in WriterState /\ StreamOf(w) = StreamOf(v) /\ w.ok \in BOOLEAN
      /\ w.ok => w.buf = <<>>
      /\ tree.leaves[child].kind # "file" => w.buf = <<>>
  <2>0. \/ w \in Emptied(tree.leaves[child].kind, v)
        \/ /\ tree.leaves[child].kind \in {"writer", "console"} /\ v.left > 0
           /\ w = [v EXCEPT !.ok = FALSE, !.left = @ - 1]
    BY <1>2 DEF flush
  <2>1. CASE tree.leaves[child].kind = "file"
    <3> HIDE DEF v
    <3>1. w \in FlushBuf(v) BY <2>0, <2>1 DEF Emptied
    <3>2. w \in WriterState /\ StreamOf(w) = StreamOf(v) /\ (w.ok => w.buf = <<>>)
      BY <1>5, <3>1, FlushBufEffect
    <3> QED BY <2>1, <3>2 DEF WriterState
  <2>2. CASE tree.leaves[child].kind # "file"
    <3>1. \/ w = [v EXCEPT !.ok = TRUE]
          \/ v.left > 0 /\ w = [v EXCEPT !.ok = FALSE, !.left = @ - 1]
      BY <2>0, <2>2 DEF Emptied
    <3>2. v.buf = <<>> BY <1>1, <2>2 DEF IInv, BufferInv
    <3> HIDE DEF v
    <3>3. v = [out |-> v.out, buf |-> v.buf, ok |-> v.ok, left |-> v.left] BY <1>5 DEF WriterState
    <3>4. \/ w = [out |-> v.out, buf |-> v.buf, ok |-> TRUE, left |-> v.left]
          \/ v.left > 0 /\ w = [out |-> v.out, buf |-> v.buf, ok |-> FALSE, left |-> v.left - 1]
      BY <3>1, <3>3
    <3>5. v.out \in Symbols /\ v.buf \in Symbols /\ v.left \in Nat BY <1>5 DEF WriterState
    <3>6. /\ w.out = v.out /\ w.buf = v.buf /\ w.ok \in BOOLEAN /\ w \in WriterState
      <4>1. CASE w = [out |-> v.out, buf |-> v.buf, ok |-> TRUE, left |-> v.left]
        BY <3>5, <4>1 DEF WriterState
      <4>2. CASE v.left > 0 /\ w = [out |-> v.out, buf |-> v.buf, ok |-> FALSE, left |-> v.left - 1]
        <5>1. v.left - 1 \in Nat BY <3>5, <4>2
        <5> QED BY <3>5, <4>2, <5>1 DEF WriterState
      <4> QED BY <3>4, <4>1, <4>2
    <3> QED BY <3>2, <3>6 DEF StreamOf
  <2> QED BY <2>1, <2>2
<1>7. \A l \in Leaves : l # child => writer'[l] = writer[l] /\ faults'[l] = faults[l]
  BY <1>2, <1>4
<1>8. writer'[child] = w /\ faults'[child] = faults[child] + (IF w.ok THEN 0 ELSE 1)
      /\ faults[child] \in Nat
  BY <1>1, <1>2, <1>4
<1>9. faults'[child] = 0 => w.ok /\ faults[child] = 0 BY <1>8
<1>10. \A l \in Leaves : Stream(l)' = Stream(l)
  BY <1>6, <1>7, <1>8 DEF Stream, StreamOf
<1>11. TypeOK'
  <2>1. writer' \in [Leaves -> WriterState] BY <1>2, <1>4, <1>6
  <2>2. faults' \in [Leaves -> Nat] BY <1>1, <1>2, <1>4
  <2>3. child' \in Nat \ {0} BY <1>1, <1>4
  <2> QED BY <1>1, <1>3, <2>1, <2>2, <2>3 DEF IInv, TypeOK
<1>12. CurrentInv' BY <1>1 DEF CurrentInv
<1>13. BufferInv' BY <1>1, <1>3, <1>6, <1>7, <1>8 DEF IInv, BufferInv
<1>14. LinesInv'
  <2> SUFFICES ASSUME NEW l \in WritesTo
               PROVE  /\ EndsLines(Stream(l)', accepted'[l])
                      /\ faults'[l] = 0 =>
                           accepted'[l] = offered'[l] /\ NoRemnant(Stream(l)', accepted'[l])
    BY <1>3 DEF LinesInv
  <2>1. l \in Leaves BY DEF WritesTo
  <2>2. Stream(l)' = Stream(l) /\ (faults'[l] = 0 => faults[l] = 0)
    BY <1>7, <1>9, <1>10, <2>1
  <2> QED BY <1>1, <2>2 DEF IInv, LinesInv
<1>15. DropInv'
  <2> SUFFICES ASSUME NEW l \in Leaves, faults'[l] = 0, stage = "drop", l < child + 1
               PROVE  writer'[l].buf = <<>>
    BY <1>1, <1>3 DEF DropInv
  <2>1. CASE l = child BY <1>6, <1>8, <1>9, <2>1
  <2>2. CASE l # child
    <3>1. l \in Nat BY <1>4, TreeFacts
    <3>2. l < child BY <1>4, <2>2, <3>1
    <3> QED BY <1>7, <2>2, <3>2 DEF IInv, DropInv
  <2> QED BY <2>1, <2>2
<1>16. DueInv' BY <1>1, <1>3 DEF IInv, DueInv, InOrder, Seen, Given
<1>17. StoreInv' BY <1>1, <1>3 DEF IInv, StoreInv, StoreOk, raw_sink
<1> QED BY <1>11, <1>12, <1>13, <1>14, <1>15, <1>16, <1>17 DEF IInv

\* A clear empties one store and starts its history anew.
LEMMA ClearStep == ASSUME IInv, clear PROVE IInv'
<1>1. UNCHANGED <<tree, stage, child, current, sent, writer, faults, accepted>> BY DEF clear
<1>2. PICK c \in Leaves :
        /\ tree.leaves[c].kind = "memory"
        /\ memory' = [memory EXCEPT ![c] = EmptyState]
        /\ offered' = [offered EXCEPT ![c] = <<>>]
  BY DEF clear
<1>3. Leaves' = Leaves /\ WritesTo' = WritesTo /\ raw_sink' = raw_sink
  BY <1>1 DEF Leaves, WritesTo, raw_sink
<1>4. tree \in SinkTrees /\ memory \in [Leaves -> MemoryState] /\ offered \in [Leaves -> Ids]
  BY DEF IInv, TypeOK
<1>5. \A l \in Leaves : l # c => memory'[l] = memory[l] /\ offered'[l] = offered[l]
  BY <1>2, <1>4
<1>6. memory'[c] = EmptyState /\ offered'[c] = <<>> BY <1>2, <1>4
<1>7. \A l \in WritesTo : l \in Leaves /\ l # c BY <1>2 DEF WritesTo, Writes
<1>8. TypeOK'
  <2>1. <<>> \in Ids BY EmptySeq DEF Ids
  <2>2. EmptyState \in MemoryState BY <2>1 DEF EmptyState, MemoryState
  <2>3. memory' \in [Leaves -> MemoryState] /\ offered' \in [Leaves -> Ids]
    BY <1>2, <1>4, <2>1, <2>2
  <2> QED BY <1>1, <1>3, <2>3 DEF IInv, TypeOK
<1>9. CurrentInv' /\ BufferInv' /\ DropInv'
  BY <1>1, <1>3 DEF IInv, CurrentInv, BufferInv, DropInv
<1>10. LinesInv'
  <2>1. \A l \in WritesTo : Stream(l)' = Stream(l) /\ offered'[l] = offered[l]
    BY <1>1, <1>5, <1>7 DEF Stream
  <2> QED BY <1>1, <1>3, <2>1 DEF IInv, LinesInv
<1>11. DueInv'
  <2>1. \A l \in WritesTo : offered'[l] = offered[l] /\ Seen(l)' = Seen(l)
    BY <1>1, <1>5, <1>7 DEF Seen, Given
  <2> QED BY <1>3, <2>1 DEF IInv, DueInv, InOrder
<1>12. StoreInv'
  <2> SUFFICES ASSUME NEW l \in Leaves, tree.leaves[l].kind = "memory" PROVE StoreOk(l)'
    BY <1>1, <1>3 DEF StoreInv
  <2>1. CASE l # c BY <1>1, <1>3, <1>5, <2>1 DEF IInv, StoreInv, StoreOk
  <2>2. CASE l = c
    <3>1. tree.leaves[l].overflow \in Overflows BY <1>4, TreeFacts
    <3> QED BY <1>1, <1>6, <2>2, <3>1, WantNone DEF StoreOk, EmptyState
  <2> QED BY <2>1, <2>2
<1> QED BY <1>8, <1>9, <1>10, <1>11, <1>12 DEF IInv

LEMMA IInvStep == IInv /\ [SinkNext]_sinkVars => IInv'
<1> SUFFICES ASSUME IInv, [SinkNext]_sinkVars PROVE IInv'
  OBVIOUS
<1>1. CASE UNCHANGED sinkVars
  <2>1. UNCHANGED <<tree, leafVars>> /\ UNCHANGED <<tree, stage, child, current, sent, writer,
                    memory, faults, accepted, offered>>
    BY <1>1 DEF sinkVars, leafVars
  <2>2. TypeOK' /\ CurrentInv' BY <2>1 DEF IInv, TypeOK, CurrentInv, Leaves
  <2>3. DropInv' BY <2>1 DEF IInv, DropInv, Leaves
  <2>4. DueInv' BY <2>1 DEF IInv, DueInv, InOrder, Seen, Given, WritesTo, Leaves
  <2> QED BY <2>1, <2>2, <2>3, <2>4, LeavesKept DEF IInv
<1>2. CASE SinkNext
  BY <1>2, DeliverStep, AcceptDoneStep, SkippedStep, AcceptLineStep, AcceptCaptureStep,
     BeginFlushStep, FlushLeafStep, FlushDoneStep, ClearStep DEF SinkNext
<1> QED BY <1>1, <1>2

-----------------------------------------------------------------------------
(* The theorems.                                                            *)

\* FlushOnlyDelays, whatever fails and when: a line accept said Ok to is held
\* whole, once and in order, and no other line is ever ended (FileSink,
\* WriterSink and ConsoleSink::accept, BufWriter, flush_sink).
THEOREM SinksFlushOnlyDelays == SinkSpec => []FlushOnlyDelays
<1>1. IInv => FlushOnlyDelays BY DEF IInv, LinesInv, FlushOnlyDelays
<1> QED BY <1>1, IInvInit, IInvStep, PTL DEF SinkSpec

\* FanOutIsolation, for any tree: a leaf whose own writes and flushes all
\* succeeded is offered every record up to its level, and in a FanOut no other,
\* holds exactly the lines offered, whatever its siblings ran into, and has all
\* of it at the destination once the drain is gone (FanOut::accept,
\* FanOut::flush).
THEOREM SinksFanOutIsolation == SinkSpec => []FanOutIsolation
<1>1. IInv => FanOutIsolation
  <2> SUFFICES ASSUME IInv, NEW l \in WritesTo, faults[l] = 0
               PROVE  /\ EndsLines(Stream(l), offered[l]) /\ NoRemnant(Stream(l), offered[l])
                      /\ stage = "gone" => writer[l].buf = <<>>
                      /\ InOrder(offered[l])
                      /\ stage = "idle" => Due(l) \subseteq ToSet(offered[l])
                      /\ stage = "idle" /\ tree.fanout => ToSet(offered[l]) \subseteq Due(l)
    BY DEF FanOutIsolation
  <2>1. l \in Leaves BY DEF WritesTo
  <2>2. EndsLines(Stream(l), offered[l]) /\ NoRemnant(Stream(l), offered[l])
    BY DEF IInv, LinesInv
  <2>3. stage = "gone" => writer[l].buf = <<>> BY <2>1 DEF IInv, DropInv
  <2>4. InOrder(offered[l]) /\ ToSet(offered[l]) = Seen(l) BY DEF IInv, DueInv
  <2>5. stage = "idle" => Seen(l) = Given(l) BY DEF Seen
  <2>6. Due(l) \subseteq Given(l) /\ (tree.fanout => Given(l) = Due(l)) BY DEF Due, Given
  <2> QED BY <2>2, <2>3, <2>4, <2>5, <2>6
<1> QED BY <1>1, IInvInit, IInvStep, PTL DEF SinkSpec

\* RetentionHolds, for any capacity: an InMemorySink keeps of the records
\* since the last clear the first, the last or all, as its policy says, and
\* counts exactly the others (push_record, push_line, clear).
THEOREM SinksRetentionHolds == SinkSpec => []RetentionHolds
<1>1. IInv => RetentionHolds
  <2> SUFFICES ASSUME StoreInv PROVE RetentionHolds
    BY DEF IInv
  <2> QED BY DEF StoreInv, StoreOk, Want, Lost, KeptOf, RetentionHolds
<1> QED BY <1>1, IInvInit, IInvStep, PTL DEF SinkSpec
=============================================================================
