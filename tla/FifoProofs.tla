----------------------------- MODULE FifoProofs -----------------------------
(***************************************************************************)
(* Proofs about Fifo for all four backends, both policies, every capacity,  *)
(* every set of record sizes, every chunk size and any number of calls.     *)
(*                                                                          *)
(* That a pop yields whole records is not inductive: it needs the byte      *)
(* stream from the drain's position through its staging buffer, the FIFO    *)
(* and rtrb's chunk to be cut into consecutive records, with a cut at each  *)
(* of the two borders.  IInv states that, with the room a reservation has   *)
(* been promised.                                                           *)
(***************************************************************************)
EXTENDS Fifo, Lemmas, SequenceTheorems, TLAPS

(* The inductive invariant.                                                 *)

TypeOK ==
  /\ backend \in {"ringbuffer", "ringbuf", "rtrb", "triple-buffer"}
  /\ policy \in {"Drop", "Block"}
  /\ chunk_size \in Nat \ {0}
  /\ fifo \in Seq(Cell) /\ staged \in Seq(Cell) /\ staged_records \in Nat
  /\ live \in BOOLEAN
  /\ ppc \in {"idle", "waiting", "reserved"} /\ psize \in Nat
  /\ calls \in Nat /\ panicked \in BOOLEAN
  /\ dpc \in {"idle", "walk"} /\ staging \in Seq(Cell) /\ pos \in Nat
  /\ written \in Nat /\ delivered \in Seq(Nat)

\* From its p-th byte on, s is the records a + 1 to b, each whole: cut[r] is
\* where record r ends.
Cut(cut, s, p, a, b) ==
  /\ cut[a] = p /\ cut[b] = Len(s)
  /\ \A q, r \in a .. b : q <= r => r - q <= cut[r] - cut[q]
  /\ \A r \in a .. b - 1 :
       \A m \in 1 .. cut[r + 1] - cut[r] :
         s[cut[r] + m] = [rec |-> r + 1, k |-> m, n |-> cut[r + 1] - cut[r]]

Whole(s, p, a, b) ==
  /\ a <= b
  /\ \E cut \in [a .. b -> 0 .. Len(s)] : Cut(cut, s, p, a, b)

\* The last record of the FIFO, and the one before its first.
LastVisible == written - staged_records

StreamInv ==
  /\ staged_records <= written
  /\ Whole(staged, 0, LastVisible, written)
  /\ \E x \in 0 .. LastVisible :
       /\ Whole(staging, pos, Len(delivered), x)
       /\ Whole(fifo, 0, x, LastVisible)
       /\ backend = "triple-buffer" => /\ x - Len(delivered) <= 1
                                       /\ LastVisible - x <= 1

\* Only rtrb stages, and fewer records than a chunk.
StagedInv ==
  /\ staged_records < chunk_size
  /\ backend # "rtrb" => chunk_size = 1

\* What is in the FIFO and the chunk leaves the byte that reserve keeps free,
\* and a reservation still finds the room it was given.
RoomInv ==
  /\ ppc # "idle" => psize \in Sizes
  /\ ppc = "reserved" => HasRoom(psize)
  /\ backend # "triple-buffer" => /\ Len(fifo) + Len(staged) <= Capacity
                                  /\ Len(staging) <= Capacity
  /\ ~panicked

\* The drain delivers in order, and between passes its buffer is empty.
DrainInv ==
  /\ dpc = "idle" => staging = <<>> /\ pos = 0
  /\ pos <= Len(staging)
  /\ \A i \in 1 .. Len(delivered) : delivered[i] = i

IInv == TypeOK /\ StreamInv /\ StagedInv /\ RoomInv /\ DrainInv
-----------------------------------------------------------------------------
(* Sequences of whole records.                                              *)

\* Nothing is a sequence of no records.
LEMMA WholeEmpty ==
  ASSUME NEW s \in Seq(Cell), NEW a \in Nat
  PROVE  Whole(s, Len(s), a, a)
<1> DEFINE cut == [r \in a .. a |-> Len(s)]
<1>1. cut \in [a .. a -> 0 .. Len(s)]
  OBVIOUS
<1>2. \A r \in a .. a : r = a /\ cut[r] = Len(s)
  OBVIOUS
<1>3. a .. a - 1 = {} /\ a \in a .. a
  OBVIOUS
<1> HIDE DEF cut
<1>4. Cut(cut, s, Len(s), a, a)
  BY <1>2, <1>3 DEF Cut
<1> QED BY <1>1, <1>4 DEF Whole

\* A record takes at least a byte.
LEMMA WholeCount ==
  ASSUME NEW s \in Seq(Cell), NEW p \in Nat, NEW a \in Nat, NEW b \in Nat,
         Whole(s, p, a, b)
  PROVE  b - a <= Len(s) - p
<1>1. PICK cut \in [a .. b -> 0 .. Len(s)] : Cut(cut, s, p, a, b)
  BY DEF Whole
<1>2. a \in a .. b /\ b \in a .. b /\ a <= b
  BY DEF Whole
<1> QED BY <1>1, <1>2 DEF Cut

\* No records, no bytes.
LEMMA WholeNone ==
  ASSUME NEW s \in Seq(Cell), NEW p \in Nat, NEW a \in Nat, Whole(s, p, a, a)
  PROVE  p = Len(s)
  BY DEF Whole, Cut

\* No bytes, no records.
LEMMA WholeNothing ==
  ASSUME NEW s \in Seq(Cell), NEW a \in Nat, NEW b \in Nat,
         Whole(s, Len(s), a, b)
  PROVE  a = b
<1>1. Len(s) \in Nat /\ a <= b
  BY DEF Whole
<1>2. b - a <= Len(s) - Len(s)
  BY <1>1, WholeCount
<1> QED BY <1>1, <1>2

\* The bytes of one record are whole.
LEMMA WholeBytes ==
  ASSUME NEW r \in Nat, NEW n \in Nat \ {0}
  PROVE  /\ Bytes(r + 1, n) \in Seq(Cell) /\ Len(Bytes(r + 1, n)) = n
         /\ Whole(Bytes(r + 1, n), 0, r, r + 1)
<1> DEFINE s == Bytes(r + 1, n)
           cut == [q \in r .. r + 1 |-> IF q = r THEN 0 ELSE n]
<1>1. s \in Seq(Cell) /\ Len(s) = n
  BY DEF Bytes, Cell
<1>2. \A m \in 1 .. n : s[m] = [rec |-> r + 1, k |-> m, n |-> n]
  BY DEF Bytes
<1> HIDE DEF s
<1>3. cut[r] = 0 /\ cut[r + 1] = n
  OBVIOUS
<1>4. cut \in [r .. r + 1 -> 0 .. Len(s)]
  BY <1>1
<1> HIDE DEF cut
<1>5. Cut(cut, s, 0, r, r + 1)
  <2>1. \A q \in r .. r + 1 : q = r \/ q = r + 1
    OBVIOUS
  <2>2. \A q, u \in r .. r + 1 : q <= u => u - q <= cut[u] - cut[q]
    BY <1>3, <2>1
  <2>3. \A q \in r .. (r + 1) - 1 : q = r
    OBVIOUS
  <2>4. \A m \in 1 .. cut[r + 1] - cut[r] :
          s[cut[r] + m] = [rec |-> r + 1, k |-> m, n |-> cut[r + 1] - cut[r]]
    BY <1>2, <1>3
  <2> QED BY <1>1, <1>3, <2>2, <2>3, <2>4 DEF Cut
<1> QED BY <1>1, <1>4, <1>5 DEF Whole, s

\* Distances between cuts: two in a row add up, and a byte of a record that
\* ends within l bytes is one of them.
LEMMA CutDistances ==
  /\ \A q, b, r, x, y, l \in Nat :
       b - q <= l - x /\ r - b <= y => r - q <= (l + y) - x
  /\ \A x, y, l \in Nat : (l + y) - (l + x) = y - x
  /\ \A x, y, m, l \in Nat : m \in 1 .. y - x /\ y <= l => x + m \in 1 .. l
  /\ \A x, p, l \in Nat : 1 <= x - p /\ x <= l =>
       x - p \in Nat \ {0} /\ p + (x - p) = x /\ p + (x - p) <= l
OBVIOUS

\* Whole records followed by whole records are whole records.
LEMMA WholeConcat ==
  ASSUME NEW s \in Seq(Cell), NEW u \in Seq(Cell),
         NEW a \in Nat, NEW b \in Nat, NEW c \in Nat,
         Whole(s, 0, a, b), Whole(u, 0, b, c)
  PROVE  Whole(s \o u, 0, a, c)
<1>1. PICK f \in [a .. b -> 0 .. Len(s)] : Cut(f, s, 0, a, b)
  BY DEF Whole
<1>2. PICK g \in [b .. c -> 0 .. Len(u)] : Cut(g, u, 0, b, c)
  BY DEF Whole
<1>3. a <= b /\ b <= c
  BY DEF Whole
<1> DEFINE S == s \o u
           cut == [r \in a .. c |-> IF r <= b THEN f[r] ELSE Len(s) + g[r]]
<1>4. Len(s) \in Nat /\ Len(u) \in Nat /\ Len(S) = Len(s) + Len(u)
  OBVIOUS
<1>e. /\ \A i \in 1 .. Len(s) : S[i] = s[i]
      /\ \A i \in 1 .. Len(u) : S[Len(s) + i] = u[i]
  OBVIOUS
<1> HIDE DEF S
<1>5. /\ \A r \in a .. b : f[r] \in 0 .. Len(s)
      /\ \A r \in b .. c : g[r] \in 0 .. Len(u)
      /\ f[a] = 0 /\ f[b] = Len(s) /\ g[b] = 0 /\ g[c] = Len(u)
  BY <1>1, <1>2 DEF Cut
<1>6. /\ \A r \in a .. b : r \in a .. c /\ cut[r] = f[r]
      /\ \A r \in b .. c : r \in a .. c /\ cut[r] = Len(s) + g[r]
  BY <1>3, <1>4, <1>5
<1>7. cut \in [a .. c -> 0 .. Len(S)]
  BY <1>3, <1>4, <1>5
<1> HIDE DEF cut
<1>8. cut[a] = 0 /\ cut[c] = Len(S)
  <2>1. a \in a .. b /\ c \in b .. c
    BY <1>3
  <2> QED BY <1>4, <1>5, <1>6, <2>1
<1>c. /\ \A q, r \in a .. b : q <= r => r - q <= f[r] - f[q]
      /\ \A q, r \in b .. c : q <= r => r - q <= g[r] - g[q]
  BY <1>1, <1>2 DEF Cut
<1>9. ASSUME NEW q \in a .. c, NEW r \in a .. c, q <= r
      PROVE  r - q <= cut[r] - cut[q]
  <2>1. CASE r <= b
    <3>1. q \in a .. b /\ r \in a .. b
      BY <1>9, <2>1
    <3> QED BY <1>6, <1>9, <1>c, <3>1
  <2>2. CASE q >= b
    <3>1. q \in b .. c /\ r \in b .. c
      BY <1>9, <2>2
    <3>2. r - q <= g[r] - g[q]
      BY <1>9, <1>c, <3>1
    <3>3. /\ cut[q] = Len(s) + g[q] /\ cut[r] = Len(s) + g[r]
          /\ g[q] \in Nat /\ g[r] \in Nat
      BY <1>4, <1>5, <1>6, <3>1
    <3>4. q \in Nat /\ r \in Nat /\ Len(s) \in Nat
      BY <1>4, <3>1
    <3>5. (Len(s) + g[r]) - (Len(s) + g[q]) = g[r] - g[q]
      BY <3>3, <3>4, CutDistances
    <3> QED BY <3>2, <3>3, <3>5
  <2>3. CASE q < b /\ b < r
    <3>1. q \in a .. b /\ r \in b .. c /\ b \in a .. b /\ b \in b .. c
      BY <1>3, <2>3
    <3>0. q <= b /\ b <= r
      BY <2>3, <3>1
    <3>2. b - q <= f[b] - f[q]
      BY <1>c, <3>0, <3>1
    <3>3. r - b <= g[r] - g[b]
      BY <1>c, <3>0, <3>1
    <3>4. /\ cut[q] = f[q] /\ cut[r] = Len(s) + g[r]
          /\ f[q] \in Nat /\ g[r] \in Nat
      BY <1>4, <1>5, <1>6, <3>1
    <3>5. q \in Nat /\ r \in Nat /\ Len(s) \in Nat /\ f[b] = Len(s) /\ g[b] = 0
      BY <1>4, <1>5, <3>1
    <3>6. b - q <= Len(s) - f[q] /\ r - b <= g[r]
      BY <3>2, <3>3, <3>4, <3>5
    <3>7. r - q <= (Len(s) + g[r]) - f[q]
      BY <3>4, <3>5, <3>6, CutDistances
    <3> QED BY <3>4, <3>7
  <2> QED BY <2>1, <2>2, <2>3
<1>10. ASSUME NEW r \in a .. c - 1, NEW m \in 1 .. cut[r + 1] - cut[r]
       PROVE  S[cut[r] + m]
                = [rec |-> r + 1, k |-> m, n |-> cut[r + 1] - cut[r]]
  <2>1. CASE r < b
    <3>1. r \in a .. b - 1 /\ r \in a .. b /\ r + 1 \in a .. b
      BY <2>1
    <3>2. cut[r] = f[r] /\ cut[r + 1] = f[r + 1]
      BY <1>6, <3>1
    <3>3. s[f[r] + m] = [rec |-> r + 1, k |-> m, n |-> f[r + 1] - f[r]]
      BY <1>1, <1>10, <3>1, <3>2 DEF Cut
    <3>4. f[r] + m \in 1 .. Len(s)
      <4>1. f[r] \in 0 .. Len(s) /\ f[r + 1] \in 0 .. Len(s)
        BY <1>5, <3>1
      <4>2. m \in 1 .. f[r + 1] - f[r]
        BY <1>10, <3>2
      <4> QED BY <1>4, <3>1, <4>1, <4>2
    <3> QED BY <1>e, <3>2, <3>3, <3>4
  <2>2. CASE r >= b
    <3>1. r \in b .. c - 1 /\ r \in b .. c /\ r + 1 \in b .. c
      BY <2>2
    <3>2. cut[r] = Len(s) + g[r] /\ cut[r + 1] = Len(s) + g[r + 1]
      BY <1>6, <3>1
    <3>3. cut[r + 1] - cut[r] = g[r + 1] - g[r]
      BY <1>4, <1>5, <3>1, <3>2
    <3>4. u[g[r] + m] = [rec |-> r + 1, k |-> m, n |-> g[r + 1] - g[r]]
      BY <1>2, <1>10, <3>1, <3>3 DEF Cut
    <3>5. g[r] + m \in 1 .. Len(u) /\ cut[r] + m = Len(s) + (g[r] + m)
      <4>1. g[r] \in 0 .. Len(u) /\ g[r + 1] \in 0 .. Len(u)
        BY <1>5, <3>1
      <4>2. m \in 1 .. g[r + 1] - g[r]
        BY <1>10, <3>3
      <4>3. g[r] + m \in 1 .. Len(u)
        <5>1. g[r] \in Nat /\ g[r + 1] \in Nat /\ g[r + 1] <= Len(u) /\ m \in Nat
          BY <1>4, <4>1, <4>2
        <5> QED BY <1>4, <4>2, <5>1, CutDistances
      <4>4. (Len(s) + g[r]) + m = Len(s) + (g[r] + m)
        BY <1>4, <4>1, <4>2
      <4> QED BY <3>2, <4>3, <4>4
    <3> QED BY <1>e, <3>3, <3>4, <3>5
  <2> QED BY <2>1, <2>2
<1>11. Cut(cut, S, 0, a, c)
  BY <1>8, <1>9, <1>10 DEF Cut
<1>12. Whole(S, 0, a, c)
  <2>1. a <= c
    BY <1>3
  <2> QED BY <1>7, <1>11, <2>1 DEF Whole
<1> QED BY <1>12 DEF S

\* The byte at a cut starts a whole record, and whole records follow it.
LEMMA WholeFirst ==
  ASSUME NEW s \in Seq(Cell), NEW p \in Nat, NEW a \in Nat, NEW b \in Nat,
         Whole(s, p, a, b), p < Len(s)
  PROVE  \E n \in Nat \ {0} :
           /\ p + n <= Len(s)
           /\ \A m \in 1 .. n : s[p + m] = [rec |-> a + 1, k |-> m, n |-> n]
           /\ a + 1 <= b /\ Whole(s, p + n, a + 1, b)
<1>1. PICK f \in [a .. b -> 0 .. Len(s)] : Cut(f, s, p, a, b)
  BY DEF Whole
<1>2. a <= b /\ a # b
  <2>1. a <= b
    BY DEF Whole
  <2>2. a # b
    BY WholeNone
  <2> QED BY <2>1, <2>2
<1>3. a \in a .. b /\ a + 1 \in a .. b /\ b \in a .. b /\ a \in a .. b - 1
  BY <1>2
<1>4. /\ f[a] = p /\ f[b] = Len(s)
      /\ (a + 1) - a <= f[a + 1] - f[a]
      /\ b - (a + 1) <= f[b] - f[a + 1]
      /\ f[a + 1] \in Nat /\ Len(s) \in Nat
  <2>1. /\ f[a] = p /\ f[b] = Len(s)
        /\ \A q, r \in a .. b : q <= r => r - q <= f[r] - f[q]
    BY <1>1 DEF Cut
  <2>2. a <= a + 1 /\ a + 1 <= b
    BY <1>2
  <2>3. f[a + 1] \in Nat /\ Len(s) \in Nat
    BY <1>1, <1>3
  <2> QED BY <1>3, <2>1, <2>2, <2>3
<1> DEFINE n == f[a + 1] - p
<1>5. n \in Nat \ {0} /\ p + n <= Len(s) /\ p + n = f[a + 1]
  <2>1. 1 <= f[a + 1] - p /\ f[a + 1] <= Len(s)
    BY <1>2, <1>4
  <2> QED BY <1>4, <2>1, CutDistances
<1>6. \A m \in 1 .. n : s[p + m] = [rec |-> a + 1, k |-> m, n |-> n]
  BY <1>1, <1>3, <1>4 DEF Cut
<1> HIDE DEF n
<1> DEFINE cut == [r \in a + 1 .. b |-> f[r]]
<1>7. /\ cut \in [a + 1 .. b -> 0 .. Len(s)]
      /\ \A r \in a + 1 .. b : cut[r] = f[r] /\ r \in a .. b
  BY <1>2
<1> HIDE DEF cut
<1>8. Cut(cut, s, p + n, a + 1, b)
  <2>1. a + 1 \in a + 1 .. b /\ b \in a + 1 .. b
    BY <1>2
  <2>2. cut[a + 1] = p + n /\ cut[b] = Len(s)
    BY <1>4, <1>5, <1>7, <2>1
  <2>3. \A q, r \in a + 1 .. b : q <= r => r - q <= cut[r] - cut[q]
    BY <1>1, <1>7 DEF Cut
  <2>4. \A r \in a + 1 .. b - 1 :
          /\ r \in a .. b - 1 /\ r \in a + 1 .. b /\ r + 1 \in a + 1 .. b
    OBVIOUS
  <2>5. \A r \in a + 1 .. b - 1 : \A m \in 1 .. cut[r + 1] - cut[r] :
          s[cut[r] + m] = [rec |-> r + 1, k |-> m, n |-> cut[r + 1] - cut[r]]
    <3>1. \A r \in a .. b - 1 : \A m \in 1 .. f[r + 1] - f[r] :
            s[f[r] + m] = [rec |-> r + 1, k |-> m, n |-> f[r + 1] - f[r]]
      BY <1>1 DEF Cut
    <3>2. \A r \in a + 1 .. b - 1 : cut[r] = f[r] /\ cut[r + 1] = f[r + 1]
      BY <1>7, <2>4
    <3> QED BY <2>4, <3>1, <3>2
  <2> QED BY <2>2, <2>3, <2>5 DEF Cut
<1>9. a + 1 <= b /\ Whole(s, p + n, a + 1, b)
  <2>1. a + 1 <= b
    BY <1>2
  <2>2. cut \in [a + 1 .. b -> 0 .. Len(s)]
    BY <1>7
  <2> QED BY <1>8, <2>1, <2>2, Zenon DEF Whole
<1> QED BY <1>5, <1>6, <1>9
-----------------------------------------------------------------------------
(* The producer.                                                            *)

\* What reserve has tested, backend by backend.
LEMMA RoomMeans ==
  ASSUME TypeOK, NEW n \in Nat
  PROVE  HasRoom(n) <=>
           /\ backend \in {"ringbuffer", "ringbuf"} => Len(fifo) + n < Capacity
           /\ backend = "rtrb" => Len(fifo) + Len(staged) + n < Capacity - 1
           /\ backend = "triple-buffer" => fifo = <<>>
  BY DEF TypeOK, HasRoom, RingbufferRoom, RingbufRoom, RtrbRoom, Usable,
         TripleBufferRoom

\* Without rtrb nothing is ever staged.
LEMMA NothingStaged ==
  ASSUME IInv, backend # "rtrb"
  PROVE  /\ staged_records = 0 /\ LastVisible = written
         /\ staged = <<>> /\ Len(staged) = 0
<1>1. /\ staged_records = 0 /\ written \in Nat /\ staged \in Seq(Cell)
      /\ Len(staged) \in Nat
  BY DEF IInv, TypeOK, StagedInv
<1>2. LastVisible = written
  BY <1>1 DEF LastVisible
<1>3. Whole(staged, 0, written, written)
  BY <1>2 DEF IInv, StreamInv
<1>4. Len(staged) = 0
  BY <1>1, <1>3, WholeNone
<1> QED BY <1>1, <1>2, <1>4, EmptySeq

\* The bytes write_record assembles behind those staged: whole records.
LEMMA ChunkWhole ==
  ASSUME IInv, ppc = "reserved"
  PROVE  LET chunk == staged \o Bytes(written + 1, psize)
         IN  /\ chunk \in Seq(Cell) /\ Len(chunk) = Len(staged) + psize
             /\ Whole(chunk, 0, LastVisible, written + 1)
<1>1. /\ staged \in Seq(Cell) /\ written \in Nat /\ psize \in Nat \ {0}
      /\ LastVisible \in Nat
  BY FifoAssumption DEF IInv, TypeOK, RoomInv, StreamInv, LastVisible
<1> DEFINE s == Bytes(written + 1, psize)
<1>2. s \in Seq(Cell) /\ Len(s) = psize /\ Whole(s, 0, written, written + 1)
  BY <1>1, WholeBytes
<1> HIDE DEF s
<1>3. Whole(staged, 0, LastVisible, written)
  BY DEF IInv, StreamInv
<1>4. Whole(staged \o s, 0, LastVisible, written + 1)
  BY <1>1, <1>2, <1>3, WholeConcat
<1>5. staged \o s \in Seq(Cell) /\ Len(staged \o s) = Len(staged) + psize
  BY <1>1, <1>2
<1> QED BY <1>4, <1>5 DEF s

\* The reservation made before the bytes were staged still holds when they are
\* flushed: no byte is overwritten, cut off or refused.
LEMMA CommitAppends ==
  ASSUME IInv, ppc = "reserved", NEW chunk \in Seq(Cell),
         Len(chunk) = Len(staged) + psize
  PROVE  /\ ~Overruns(chunk) /\ Commit(chunk) = fifo \o chunk
         /\ fifo \o chunk \in Seq(Cell)
         /\ backend # "triple-buffer" => Len(fifo \o chunk) <= Capacity
<1>1. /\ fifo \in Seq(Cell) /\ psize \in Nat /\ Capacity \in Nat
      /\ Len(fifo) \in Nat /\ Len(staged) \in Nat
      /\ backend \in {"ringbuffer", "ringbuf", "rtrb", "triple-buffer"}
  BY FifoAssumption DEF IInv, TypeOK
<1>2. HasRoom(psize)
  BY DEF IInv, RoomInv
<1>3. /\ backend \in {"ringbuffer", "ringbuf"} => Len(fifo) + psize < Capacity
      /\ backend = "rtrb" => Len(fifo) + Len(staged) + psize < Capacity - 1
      /\ backend = "triple-buffer" => fifo = <<>>
  BY <1>1, <1>2, RoomMeans DEF IInv
<1>4. /\ fifo \o chunk \in Seq(Cell)
      /\ Len(fifo \o chunk) = Len(fifo) + (Len(staged) + psize)
  BY <1>1
<1>5. backend # "rtrb" => Len(staged) = 0
  BY NothingStaged
<1>6. backend # "triple-buffer" => Len(fifo \o chunk) <= Capacity
  BY <1>1, <1>3, <1>4, <1>5
<1>7. ~Overruns(chunk)
  BY <1>1, <1>3, <1>4 DEF Overruns, Usable
<1>8. backend = "triple-buffer" => fifo \o chunk = chunk
  BY <1>3
<1>9. Commit(chunk) = fifo \o chunk
  BY <1>1, <1>4, <1>6, <1>8
     DEF Commit, RingbufferCommit, RingbufCommit, TripleBufferCommit
<1> QED BY <1>4, <1>6, <1>7, <1>9

\* write_record keeps the stream whole, whether it flushes the chunk or not.
LEMMA WriteRecordStep == ASSUME IInv, WriteRecord PROVE IInv'
<1> DEFINE chunk == staged \o Bytes(written + 1, psize)
           full  == staged_records + 1 >= chunk_size
<1>1. /\ ppc = "reserved" /\ written' = written + 1
      /\ panicked' = (panicked \/ (full /\ Overruns(chunk)))
      /\ IF full /\ ~Overruns(chunk)
         THEN /\ fifo' = Commit(chunk)
              /\ staged' = <<>> /\ staged_records' = 0
         ELSE /\ staged' = chunk /\ staged_records' = staged_records + 1
              /\ UNCHANGED fifo
      /\ ppc' = "idle"
      /\ UNCHANGED <<backend, policy, chunk_size, live, psize, calls, dpc,
                     staging, pos, delivered>>
  BY DEF WriteRecord, config, drainVars
<1>2. /\ chunk \in Seq(Cell) /\ Len(chunk) = Len(staged) + psize
      /\ Whole(chunk, 0, LastVisible, written + 1)
  BY <1>1, ChunkWhole
<1> HIDE DEF chunk
<1>3. /\ ~Overruns(chunk) /\ Commit(chunk) = fifo \o chunk
      /\ fifo \o chunk \in Seq(Cell)
      /\ backend # "triple-buffer" => Len(fifo \o chunk) <= Capacity
  BY <1>1, <1>2, CommitAppends
<1>t. /\ TypeOK /\ chunk_size \in Nat \ {0} /\ staged_records \in Nat
      /\ written \in Nat /\ psize \in Nat /\ staged_records <= written
      /\ fifo \in Seq(Cell) /\ staged \in Seq(Cell) /\ LastVisible \in Nat
      /\ staged_records < chunk_size
      /\ Len(fifo) \in Nat /\ Len(staged) \in Nat /\ Capacity \in Nat
  BY FifoAssumption DEF IInv, TypeOK, StreamInv, StagedInv, LastVisible
<1>4. PICK x \in 0 .. LastVisible :
        /\ Whole(staging, pos, Len(delivered), x)
        /\ Whole(fifo, 0, x, LastVisible)
        /\ backend = "triple-buffer" => /\ x - Len(delivered) <= 1
                                        /\ LastVisible - x <= 1
  BY DEF IInv, StreamInv
<1>5. DrainInv'
  BY <1>1 DEF IInv, DrainInv
<1>6. panicked' = FALSE
  BY <1>1, <1>3 DEF IInv, RoomInv, TypeOK
<1>e. <<>> \in Seq(Cell) /\ Len(<<>>) = 0
  OBVIOUS
<1>7. CASE full
  <2>1. fifo' = fifo \o chunk /\ staged' = <<>> /\ staged_records' = 0
    BY <1>1, <1>3, <1>7
  <2>2. TypeOK'
    BY <1>t, <1>1, <1>3, <1>6, <1>e, <2>1 DEF TypeOK
  <2>3. LastVisible' = written + 1 /\ written + 1 \in Nat
    BY <1>t, <1>1, <2>1 DEF LastVisible
  <2>4. StagedInv'
    BY <1>t, <1>1, <2>1 DEF IInv, StagedInv
  <2>5. Whole(<<>>, 0, written + 1, written + 1)
    BY <1>e, <2>3, WholeEmpty
  <2>6. Whole(fifo \o chunk, 0, x, written + 1)
    BY <1>t, <1>2, <1>4, <2>3, WholeConcat
  <2>7. backend = "triple-buffer" => x = written
    <3> SUFFICES ASSUME backend = "triple-buffer" PROVE x = written
      OBVIOUS
    <3>1. fifo = <<>> /\ LastVisible = written
      BY <1>t, <1>1, RoomMeans, NothingStaged DEF IInv, RoomInv
    <3>2. Whole(fifo, Len(fifo), x, written)
      BY <1>4, <3>1
    <3>3. x \in Nat /\ fifo \in Seq(Cell) /\ written \in Nat
      BY <1>t
    <3> QED BY <3>2, <3>3, WholeNothing
  <2>8. StreamInv'
    <3>1. x \in 0 .. written + 1 /\ LastVisible <= written
      BY <1>t, <1>4 DEF LastVisible
    <3>2. /\ Whole(staging', pos', Len(delivered'), x)
          /\ Whole(fifo', 0, x, LastVisible')
          /\ backend' = "triple-buffer" => /\ x - Len(delivered') <= 1
                                           /\ LastVisible' - x <= 1
      BY <1>t, <1>1, <1>4, <2>1, <2>3, <2>6, <2>7
    <3>3. staged_records' <= written' /\ Whole(staged', 0, LastVisible', written')
      BY <1>t, <1>1, <2>1, <2>3, <2>5
    <3> QED BY <2>3, <3>1, <3>2, <3>3 DEF StreamInv
  <2>9. RoomInv'
    BY <1>1, <1>3, <1>6, <1>e, <1>t, <2>1, <2>2 DEF IInv, RoomInv, TypeOK
  <2> QED BY <1>5, <2>2, <2>4, <2>8, <2>9 DEF IInv
<1>8. CASE ~full
  <2>1. fifo' = fifo /\ staged' = chunk /\ staged_records' = staged_records + 1
    BY <1>1, <1>8
  <2>2. TypeOK'
    BY <1>t, <1>1, <1>2, <1>6, <2>1 DEF TypeOK
  <2>3. LastVisible' = LastVisible
    BY <1>t, <1>1, <2>1 DEF LastVisible
  <2>4. StagedInv'
    BY <1>t, <1>1, <1>8, <2>1 DEF IInv, StagedInv
  <2>5. StreamInv'
    <3>1. /\ Whole(staging', pos', Len(delivered'), x)
          /\ Whole(fifo', 0, x, LastVisible')
          /\ backend' = "triple-buffer" => /\ x - Len(delivered') <= 1
                                           /\ LastVisible' - x <= 1
      BY <1>1, <1>4, <2>1, <2>3
    <3>2. staged_records' <= written' /\ Whole(staged', 0, LastVisible', written')
      BY <1>t, <1>1, <1>2, <2>1, <2>3
    <3> QED BY <1>4, <2>3, <3>1, <3>2 DEF StreamInv
  <2>6. backend # "triple-buffer" => Len(fifo') + Len(staged') <= Capacity
    BY <1>t, <1>2, <1>3, <2>1
  <2>7. RoomInv'
    BY <1>1, <1>6, <2>6 DEF IInv, RoomInv
  <2> QED BY <1>5, <2>2, <2>4, <2>5, <2>7 DEF IInv
<1> QED BY <1>7, <1>8

\* The other steps of the thread leave every byte where it is.
LEMMA ThreadStep ==
  ASSUME IInv, (\E n \in Sizes : Reserve(n)) \/ Spin \/ Abandon \/ SetDead
  PROVE  IInv'
<1>1. UNCHANGED <<backend, policy, chunk_size, fifo, staged, staged_records,
                  panicked, dpc, staging, pos, written, delivered>>
  BY DEF Reserve, Spin, Abandon, SetDead, config, producerVars, drainVars
<1>2. StreamInv' /\ StagedInv' /\ DrainInv'
  <2>1. LastVisible' = LastVisible
    BY <1>1 DEF LastVisible
  <2> QED BY <1>1, <2>1 DEF IInv, StreamInv, StagedInv, DrainInv
<1>3. \A n : HasRoom(n)' = HasRoom(n)
  BY <1>1 DEF HasRoom, RingbufferRoom, RingbufRoom, RtrbRoom, Usable,
              TripleBufferRoom
<1> DEFINE CallInv == /\ psize' \in Nat /\ (ppc' # "idle" => psize' \in Sizes)
                      /\ ppc' \in {"idle", "waiting", "reserved"}
                      /\ ppc' = "reserved" => HasRoom(psize')
                      /\ live' \in BOOLEAN /\ calls' \in Nat
<1>4. CallInv
  <2>1. ASSUME NEW n \in Sizes, Reserve(n) PROVE CallInv
    BY <2>1, FifoAssumption DEF Reserve, IInv, TypeOK
  <2>2. CASE Spin
    BY <2>2 DEF Spin, IInv, TypeOK, RoomInv
  <2>3. CASE Abandon
    BY <2>3 DEF Abandon, IInv, TypeOK, RoomInv
  <2>4. CASE SetDead
    BY <2>4 DEF SetDead, producerVars, IInv, TypeOK, RoomInv
  <2> QED BY <2>1, <2>2, <2>3, <2>4
<1>5. TypeOK'
  BY <1>1, <1>4 DEF IInv, TypeOK
<1>6. RoomInv'
  BY <1>1, <1>3, <1>4 DEF IInv, RoomInv
<1> QED BY <1>2, <1>5, <1>6 DEF IInv
-----------------------------------------------------------------------------
(* The drain.                                                               *)

\* A shorter FIFO has room for what fitted before.
LEMMA RoomGrows ==
  ASSUME TypeOK, TypeOK', UNCHANGED <<backend, staged, psize>>, fifo' = <<>>,
         HasRoom(psize)
  PROVE  HasRoom(psize)'
<1>1. /\ Len(fifo) \in Nat /\ Len(staged) \in Nat /\ psize \in Nat
      /\ Len(fifo') = 0 /\ Capacity \in Nat
  BY FifoAssumption DEF TypeOK
<1>2. /\ backend \in {"ringbuffer", "ringbuf"} => Len(fifo) + psize < Capacity
      /\ backend = "rtrb" => Len(fifo) + Len(staged) + psize < Capacity - 1
  BY <1>1, RoomMeans
<1>3. /\ backend' \in {"ringbuffer", "ringbuf"} =>
           Len(fifo') + psize' < Capacity
      /\ backend' = "rtrb" =>
           Len(fifo') + Len(staged') + psize' < Capacity - 1
  BY <1>1, <1>2
<1> QED
  BY <1>3 DEF TypeOK, HasRoom, RingbufferRoom, RingbufRoom, RtrbRoom, Usable,
              TripleBufferRoom

\* A pop takes the whole FIFO, which ends with a whole record.
LEMMA PopAvailableStep == ASSUME IInv, PopAvailable PROVE IInv'
<1>1. /\ dpc = "idle" /\ staging' = fifo /\ fifo' = <<>> /\ dpc' = "walk"
      /\ UNCHANGED <<backend, policy, chunk_size, live, staged, staged_records,
                     ppc, psize, calls, panicked, written, pos, delivered>>
  BY DEF PopAvailable, config, producerVars
<1>2. staging = <<>> /\ pos = 0 /\ pos' = 0
  BY <1>1 DEF IInv, DrainInv
<1>t. /\ TypeOK /\ fifo \in Seq(Cell) /\ Len(fifo) \in Nat
      /\ LastVisible \in Nat /\ LastVisible' = LastVisible
      /\ Len(delivered) \in Nat /\ <<>> \in Seq(Cell) /\ Len(<<>>) = 0
      /\ Capacity \in Nat /\ Len(staged) \in Nat
  BY <1>1, FifoAssumption DEF IInv, TypeOK, StreamInv, LastVisible
<1>3. PICK x \in 0 .. LastVisible :
        /\ Whole(staging, pos, Len(delivered), x)
        /\ Whole(fifo, 0, x, LastVisible)
        /\ backend = "triple-buffer" => /\ x - Len(delivered) <= 1
                                        /\ LastVisible - x <= 1
  BY DEF IInv, StreamInv
<1>4. x = Len(delivered)
  <2>1. Whole(<<>>, Len(<<>>), Len(delivered), x) /\ x \in Nat
    BY <1>2, <1>3, <1>t
  <2> QED BY <1>t, <2>1, WholeNothing
<1>5. TypeOK'
  BY <1>1, <1>t DEF TypeOK
<1>6. StreamInv'
  <2>1. Whole(<<>>, 0, LastVisible, LastVisible)
    BY <1>t, WholeEmpty
  <2>2. LastVisible \in 0 .. LastVisible
    BY <1>t
  <2>3. /\ Whole(staging', pos', Len(delivered'), LastVisible)
        /\ Whole(fifo', 0, LastVisible, LastVisible')
        /\ backend' = "triple-buffer" => /\ LastVisible - Len(delivered') <= 1
                                         /\ LastVisible' - LastVisible <= 1
    BY <1>1, <1>2, <1>3, <1>4, <1>t, <2>1
  <2>4. staged_records' <= written' /\ Whole(staged', 0, LastVisible', written')
    BY <1>1, <1>t DEF IInv, StreamInv
  <2> QED BY <1>t, <2>2, <2>3, <2>4 DEF StreamInv
<1>7. StagedInv' /\ DrainInv'
  BY <1>1, <1>2, <1>t DEF IInv, StagedInv, DrainInv
<1>8. RoomInv'
  <2>1. ppc' = "reserved" => HasRoom(psize)'
    BY <1>1, <1>5, RoomGrows DEF IInv, RoomInv
  <2>2. ppc' # "idle" => psize' \in Sizes
    BY <1>1 DEF IInv, RoomInv
  <2>3. backend' # "triple-buffer" => /\ Len(fifo') + Len(staged') <= Capacity
                                      /\ Len(staging') <= Capacity
    BY <1>1, <1>t DEF IInv, RoomInv
  <2> QED BY <1>1, <2>1, <2>2, <2>3 DEF IInv, RoomInv
<1> QED BY <1>5, <1>6, <1>7, <1>8 DEF IInv

\* The record at the drain's position is whole and the next one due.
LEMMA WalkDelivers ==
  ASSUME IInv, dpc = "walk", pos < Len(staging)
  PROVE  /\ staging[pos + 1].k = 1 /\ ~Partial
         /\ staging[pos + 1].n \in Nat \ {0}
         /\ Contents(staging[pos + 1].n) = Len(delivered) + 1
         /\ pos + staging[pos + 1].n <= Len(staging)
         /\ \E x \in 0 .. LastVisible :
              /\ Whole(staging, pos + staging[pos + 1].n, Len(delivered) + 1, x)
              /\ Whole(fifo, 0, x, LastVisible)
              /\ Len(delivered) + 1 <= x
              /\ backend = "triple-buffer" => /\ x - Len(delivered) <= 1
                                              /\ LastVisible - x <= 1
<1>t. /\ staging \in Seq(Cell) /\ pos \in Nat /\ Len(delivered) \in Nat
      /\ LastVisible \in Nat /\ Len(staging) \in Nat
  BY DEF IInv, TypeOK, StreamInv, LastVisible
<1>1. PICK x \in 0 .. LastVisible :
        /\ Whole(staging, pos, Len(delivered), x)
        /\ Whole(fifo, 0, x, LastVisible)
        /\ backend = "triple-buffer" => /\ x - Len(delivered) <= 1
                                        /\ LastVisible - x <= 1
  BY DEF IInv, StreamInv
<1>2. x \in Nat
  BY <1>t
<1> DEFINE d == Len(delivered)
<1>3. PICK n \in Nat \ {0} :
        /\ pos + n <= Len(staging)
        /\ \A m \in 1 .. n :
             staging[pos + m] = [rec |-> d + 1, k |-> m, n |-> n]
        /\ d + 1 <= x /\ Whole(staging, pos + n, d + 1, x)
  BY <1>t, <1>1, <1>2, WholeFirst
<1>4. staging[pos + 1] = [rec |-> d + 1, k |-> 1, n |-> n]
  <2>1. 1 \in 1 .. n
    OBVIOUS
  <2> QED BY <1>3, <2>1
<1>5. /\ staging[pos + 1].k = 1 /\ staging[pos + 1].n = n
      /\ staging[pos + 1].rec = d + 1
  BY <1>4
<1>6. SubSeq(staging, pos + 1, pos + n) = Bytes(d + 1, n)
  <2> DEFINE u == SubSeq(staging, pos + 1, pos + n)
             v == Bytes(d + 1, n)
  <2>1. u \in Seq(Cell) /\ Len(u) = n
    BY <1>t, <1>3
  <2>2. \A i \in 1 .. n : u[i] = staging[pos + i]
    <3>1. pos \in Nat /\ \A j \in pos + 1 .. pos + n : staging[j] \in Cell
      BY <1>t, <1>3
    <3>2. ASSUME NEW i \in 1 .. n PROVE u[i] = staging[pos + i]
      <4>1. (pos + n) - (pos + 1) + 1 = n /\ (pos + 1) + i - 1 = pos + i
        BY <3>1
      <4>2. \A j \in 1 .. (pos + n) - (pos + 1) + 1 : u[j] = staging[(pos + 1) + j - 1]
        BY <3>1, SubSeqProperties
      <4> QED BY <4>1, <4>2
    <3> QED BY <3>2
  <2>3. v \in Seq(Cell) /\ Len(v) = n
    BY <1>t, WholeBytes
  <2>4. \A i \in 1 .. n : v[i] = [rec |-> d + 1, k |-> i, n |-> n]
    BY DEF Bytes
  <2> HIDE DEF u, v
  <2>5. \A i \in 1 .. Len(u) : u[i] = v[i]
    BY <1>3, <2>1, <2>2, <2>4
  <2>6. u = v
    BY <2>1, <2>3, <2>5, SeqEqual
  <2> QED BY <2>6 DEF u, v
<1>7. Contents(n) = d + 1
  BY <1>5, <1>6 DEF Contents
<1>8. ~Partial
  BY <1>t, <1>3, <1>5 DEF Partial
<1> QED BY <1>1, <1>3, <1>5, <1>7, <1>8

\* Walk hands the next record to the sink.
LEMMA WalkStep ==
  ASSUME IInv, Walk
  PROVE  IInv' /\ delivered' = Append(delivered, Len(delivered) + 1)
               /\ Len(delivered) < written
<1> DEFINE n == staging[pos + 1].n
<1>1. /\ dpc = "walk" /\ pos < Len(staging)
      /\ pos' = IF staging[pos + 1].k = 1 THEN pos + n ELSE pos + 1
      /\ delivered' = IF staging[pos + 1].k = 1
                      THEN Append(delivered, Contents(n)) ELSE delivered
      /\ UNCHANGED <<backend, policy, chunk_size, fifo, live, staged,
                     staged_records, ppc, psize, calls, panicked, written, dpc,
                     staging>>
  BY DEF Walk, config, producerVars
<1>2. /\ staging[pos + 1].k = 1 /\ n \in Nat \ {0}
      /\ Contents(n) = Len(delivered) + 1 /\ pos + n <= Len(staging)
  BY <1>1, WalkDelivers
<1>3. PICK x \in 0 .. LastVisible :
        /\ Whole(staging, pos + n, Len(delivered) + 1, x)
        /\ Whole(fifo, 0, x, LastVisible)
        /\ Len(delivered) + 1 <= x
        /\ backend = "triple-buffer" => /\ x - Len(delivered) <= 1
                                        /\ LastVisible - x <= 1
  BY <1>1, WalkDelivers
<1> HIDE DEF n
<1>t. /\ TypeOK /\ delivered \in Seq(Nat) /\ Len(delivered) \in Nat
      /\ pos \in Nat /\ LastVisible \in Nat /\ LastVisible <= written
      /\ written \in Nat
  BY DEF IInv, TypeOK, StreamInv, LastVisible
<1>4. pos' = pos + n /\ delivered' = Append(delivered, Len(delivered) + 1)
  BY <1>1, <1>2
<1>5. /\ delivered' \in Seq(Nat) /\ Len(delivered') = Len(delivered) + 1
      /\ \A i \in 1 .. Len(delivered) : delivered'[i] = delivered[i]
      /\ delivered'[Len(delivered) + 1] = Len(delivered) + 1
  BY <1>4, <1>t
<1>6. TypeOK'
  BY <1>1, <1>2, <1>4, <1>5, <1>t DEF TypeOK
<1>7. LastVisible' = LastVisible
  BY <1>1 DEF LastVisible
<1>8. StreamInv'
  <2>1. /\ Whole(staging', pos', Len(delivered'), x)
        /\ Whole(fifo', 0, x, LastVisible')
        /\ backend' = "triple-buffer" => /\ x - Len(delivered') <= 1
                                         /\ LastVisible' - x <= 1
    BY <1>1, <1>3, <1>4, <1>5, <1>7, <1>t
  <2>2. staged_records' <= written' /\ Whole(staged', 0, LastVisible', written')
    BY <1>1, <1>7 DEF IInv, StreamInv
  <2> QED BY <1>3, <1>7, <2>1, <2>2 DEF StreamInv
<1>9. DrainInv'
  <2>1. \A i \in 1 .. Len(delivered') : delivered'[i] = i
    BY <1>5, <1>t DEF IInv, DrainInv
  <2> QED BY <1>1, <1>2, <1>4, <2>1 DEF DrainInv
<1>10. RoomInv' /\ StagedInv'
  BY <1>1 DEF IInv, RoomInv, StagedInv, HasRoom, RingbufferRoom, RingbufRoom,
              RtrbRoom, Usable, TripleBufferRoom
<1>11. Len(delivered) < written
  BY <1>3, <1>t
<1> QED BY <1>4, <1>6, <1>8, <1>9, <1>10, <1>11 DEF IInv

\* A pass ends with nothing left over.
LEMMA PassEndStep == ASSUME IInv, PassEnd PROVE IInv'
<1>1. /\ dpc = "walk" /\ pos' = 0 /\ dpc' = "idle"
      /\ pos < Len(staging) => staging[pos + 1].k = 1 /\ Partial
      /\ staging' = SubSeq(staging, pos + 1, Len(staging))
      /\ UNCHANGED <<backend, policy, chunk_size, fifo, live, staged,
                     staged_records, ppc, psize, calls, panicked, written,
                     delivered>>
  BY DEF PassEnd, config, producerVars
<1>t. /\ TypeOK /\ staging \in Seq(Cell) /\ Len(staging) \in Nat /\ pos \in Nat
      /\ Len(delivered) \in Nat /\ LastVisible \in Nat
      /\ <<>> \in Seq(Cell) /\ Len(<<>>) = 0 /\ Capacity \in Nat
  BY FifoAssumption DEF IInv, TypeOK, StreamInv, LastVisible
<1>2. pos = Len(staging)
  <2>1. ~(pos < Len(staging))
    BY <1>1, WalkDelivers
  <2> QED BY <1>t, <2>1 DEF IInv, DrainInv
<1>3. staging' = <<>>
  BY <1>1, <1>2, <1>t
<1>4. PICK x \in 0 .. LastVisible :
        /\ Whole(staging, pos, Len(delivered), x)
        /\ Whole(fifo, 0, x, LastVisible)
        /\ backend = "triple-buffer" => /\ x - Len(delivered) <= 1
                                        /\ LastVisible - x <= 1
  BY DEF IInv, StreamInv
<1>5. x = Len(delivered)
  <2>1. Whole(staging, Len(staging), Len(delivered), x) /\ x \in Nat
    BY <1>2, <1>4, <1>t
  <2> QED BY <1>t, <2>1, WholeNothing
<1>6. TypeOK'
  BY <1>1, <1>3, <1>t DEF TypeOK
<1>7. LastVisible' = LastVisible
  BY <1>1 DEF LastVisible
<1>8. StreamInv'
  <2>1. Whole(<<>>, 0, Len(delivered), Len(delivered))
    BY <1>t, WholeEmpty
  <2>2. /\ Whole(staging', pos', Len(delivered'), x)
        /\ Whole(fifo', 0, x, LastVisible')
        /\ backend' = "triple-buffer" => /\ x - Len(delivered') <= 1
                                         /\ LastVisible' - x <= 1
    BY <1>1, <1>3, <1>4, <1>5, <1>7, <2>1
  <2>3. staged_records' <= written' /\ Whole(staged', 0, LastVisible', written')
    BY <1>1, <1>7 DEF IInv, StreamInv
  <2> QED BY <1>4, <1>7, <2>2, <2>3 DEF StreamInv
<1>9. DrainInv' /\ StagedInv'
  BY <1>1, <1>3, <1>t DEF IInv, DrainInv, StagedInv
<1>10. RoomInv'
  <2>1. HasRoom(psize)' = HasRoom(psize)
    BY <1>1 DEF HasRoom, RingbufferRoom, RingbufRoom, RtrbRoom, Usable,
                TripleBufferRoom
  <2>2. Len(staging') <= Capacity
    BY <1>3, <1>t
  <2> QED BY <1>1, <2>1, <2>2 DEF IInv, RoomInv
<1> QED BY <1>6, <1>8, <1>9, <1>10 DEF IInv
-----------------------------------------------------------------------------
(* The theorems.                                                            *)

\* The initial state satisfies the inductive invariant.
LEMMA IInvInit == Init => IInv
<1> SUFFICES ASSUME Init PROVE IInv
  OBVIOUS
<1>e. <<>> \in Seq(Cell) /\ <<>> \in Seq(Nat) /\ Len(<<>>) = 0
  OBVIOUS
<1>1. TypeOK
  <2>1. chunk_size \in Nat \ {0}
    BY FifoAssumption DEF Init
  <2> QED BY <1>e, <2>1, FifoAssumption DEF Init, TypeOK
<1>2. StreamInv
  <2>1. Whole(<<>>, 0, 0, 0)
    BY <1>e, WholeEmpty
  <2>2. LastVisible = 0 /\ Len(delivered) = 0 /\ 0 \in 0 .. 0
    BY <1>e DEF Init, LastVisible
  <2> QED BY <2>1, <2>2 DEF Init, StreamInv
<1>3. StagedInv
  <2>1. chunk_size \in Nat \ {0}
    BY <1>1 DEF TypeOK
  <2> QED BY <2>1 DEF Init, StagedInv
<1>4. RoomInv /\ DrainInv
  BY <1>e, FifoAssumption DEF Init, RoomInv, DrainInv
<1> QED BY <1>1, <1>2, <1>3, <1>4 DEF IInv

\* Every step preserves it.
LEMMA IInvStep == IInv /\ [Next]_vars => IInv'
<1> SUFFICES ASSUME IInv, [Next]_vars PROVE IInv'
  OBVIOUS
<1>1. CASE UNCHANGED vars
  <2>1. UNCHANGED <<backend, policy, chunk_size, fifo, live, staged,
                    staged_records, ppc, psize, calls, panicked, written, dpc,
                    staging, pos, delivered>>
    BY <1>1 DEF vars, config, producerVars, drainVars
  <2>2. TypeOK' /\ StagedInv' /\ DrainInv'
    BY <2>1 DEF IInv, TypeOK, StagedInv, DrainInv
  <2>3. StreamInv'
    BY <2>1 DEF IInv, StreamInv, LastVisible
  <2>4. RoomInv'
    BY <2>1 DEF IInv, RoomInv, HasRoom, RingbufferRoom, RingbufRoom, RtrbRoom,
                Usable, TripleBufferRoom
  <2> QED BY <2>2, <2>3, <2>4 DEF IInv
<1> QED
  BY <1>1, ThreadStep, WriteRecordStep, PopAvailableStep, WalkStep, PassEndStep
     DEF Next, InCall, Drain

\* The inductive invariant holds in every reachable state: the byte stream
\* through chunk, FIFO and staging buffer is whole records in order.
THEOREM FifoInvariant == Spec => []IInv
  BY IInvInit, IInvStep, PTL DEF Spec

\* Clearing the shared staging buffer before each ring loses no byte: a pass
\* leaves it empty (poll_once, sync_rings and drain_ring).
THEOREM FifoWholeRecords == Spec => []WholeRecords
<1>1. IInv => WholeRecords
  BY DEF IInv, DrainInv, WholeRecords
<1> QED BY <1>1, FifoInvariant, PTL

\* rtrb's flush of a chunk always finds the room that its records' reserves
\* tested one by one: the expect in write_record never fails.
THEOREM FifoFlushHasRoom == Spec => []FlushHasRoom
<1>1. IInv => FlushHasRoom
  BY DEF IInv, RoomInv, FlushHasRoom
<1> QED BY <1>1, FifoInvariant, PTL
-----------------------------------------------------------------------------
(* Every backend implements the bounded channel.                            *)

\* What is written and not delivered: at most a record per byte of the FIFO
\* with the chunk, and of the staging buffer; two for the triple buffer.
LEMMA PendingSeq ==
  ASSUME IInv
  PROVE  /\ Pending = Run(Len(delivered), written)
         /\ Pending \in Seq(Nat) /\ Len(Pending) = written - Len(delivered)
         /\ Len(delivered) \in Nat /\ written \in Nat
         /\ Len(delivered) <= written
         /\ Len(Pending) < 2 * Capacity + 2
<1>t. /\ Len(delivered) \in Nat /\ written \in Nat /\ LastVisible \in Nat
      /\ LastVisible <= written /\ Capacity \in Nat
      /\ fifo \in Seq(Cell) /\ staged \in Seq(Cell) /\ staging \in Seq(Cell)
      /\ pos \in Nat
      /\ Len(fifo) \in Nat /\ Len(staged) \in Nat /\ Len(staging) \in Nat
  BY FifoAssumption DEF IInv, TypeOK, StreamInv, LastVisible
<1>1. PICK x \in 0 .. LastVisible :
        /\ Whole(staging, pos, Len(delivered), x)
        /\ Whole(fifo, 0, x, LastVisible)
        /\ backend = "triple-buffer" => /\ x - Len(delivered) <= 1
                                        /\ LastVisible - x <= 1
  BY DEF IInv, StreamInv
<1>2. /\ x \in Nat /\ x - Len(delivered) <= Len(staging) - pos
      /\ LastVisible - x <= Len(fifo) - 0
  BY <1>1, <1>t, WholeCount
<1>3. written - LastVisible <= Len(staged) - 0
  BY <1>t, WholeCount DEF IInv, StreamInv
<1>4. Len(delivered) <= x
  BY <1>1 DEF Whole
<1>5. Len(delivered) <= written
  BY <1>1, <1>2, <1>4, <1>t
<1>6. written - Len(delivered) < 2 * Capacity + 2
  <2>1. CASE backend = "triple-buffer"
    <3>1. LastVisible = written
      BY <2>1, NothingStaged
    <3>2. x - Len(delivered) <= 1 /\ written - x <= 1
      BY <1>1, <2>1, <3>1
    <3>3. written - Len(delivered) <= 2
      BY <1>2, <1>t, <3>2
    <3>4. Capacity >= 1
      BY FifoAssumption
    <3> QED BY <1>t, <3>3, <3>4
  <2>2. CASE backend # "triple-buffer"
    <3>1. Len(fifo) + Len(staged) <= Capacity /\ Len(staging) <= Capacity
      BY <2>2 DEF IInv, RoomInv
    <3> QED BY <1>2, <1>3, <1>t, <3>1
  <2> QED BY <2>1, <2>2
<1>7. Pending = Run(Len(delivered), written)
  BY DEF Pending, Run
<1> QED BY <1>5, <1>6, <1>7, <1>t, RunSeq

\* write_record sends.
LEMMA WriteRecordSends == ASSUME IInv, WriteRecord PROVE Channel!Send
<1>1. written' = written + 1 /\ delivered' = delivered
  BY DEF WriteRecord, drainVars
<1>2. /\ Pending = Run(Len(delivered), written)
      /\ Len(delivered) \in Nat /\ written \in Nat
      /\ Len(delivered) <= written /\ Len(Pending) < 2 * Capacity + 2
  BY PendingSeq
<1>3. Pending' = Run(Len(delivered), written + 1)
  BY <1>1 DEF Pending, Run
<1>4. Pending' = Append(Pending, written + 1)
  BY <1>2, <1>3, RunAppend
<1> QED BY <1>1, <1>2, <1>4 DEF Channel!Send

\* Walk receives.
LEMMA WalkReceives == ASSUME IInv, Walk PROVE Channel!Receive
<1>1. /\ written' = written
      /\ delivered' = Append(delivered, Len(delivered) + 1)
      /\ Len(delivered) < written
  BY WalkStep DEF Walk, producerVars
<1>2. /\ Pending = Run(Len(delivered), written)
      /\ Len(delivered) \in Nat /\ written \in Nat
      /\ delivered \in Seq(Nat)
  BY PendingSeq DEF IInv, TypeOK
<1>3. Len(delivered') = Len(delivered) + 1
  BY <1>1, <1>2
<1>4. Pending' = Run(Len(delivered) + 1, written)
  BY <1>1, <1>3 DEF Pending, Run
<1>5. /\ Pending # <<>> /\ Head(Pending) = Len(delivered) + 1
      /\ Tail(Pending) = Pending'
  BY <1>1, <1>2, <1>4, RunTail
<1> QED BY <1>1, <1>5 DEF Channel!Receive

\* Every backend, with write_record as Send and the hand-over of a record as
\* Receive, is the bounded first-in first-out channel of RecordChannel.
THEOREM FifoImplementsChannel == Spec => ImplementsChannel
<1>1. Init => Channel!Init
  <2> SUFFICES ASSUME Init PROVE Channel!Init
    OBVIOUS
  <2>1. written = 0 /\ delivered = <<>> /\ Len(delivered) = 0
    BY DEF Init
  <2>2. Pending = <<>>
    BY <2>1 DEF Pending
  <2> QED BY <2>1, <2>2 DEF Channel!Init
<1>2. IInv /\ [Next]_vars => [Channel!Next]_(Channel!vars)
  <2> SUFFICES ASSUME IInv, [Next]_vars PROVE [Channel!Next]_(Channel!vars)
    OBVIOUS
  <2>1. CASE WriteRecord
    BY <2>1, WriteRecordSends DEF Channel!Next
  <2>2. CASE Walk
    BY <2>2, WalkReceives DEF Channel!Next
  <2>3. CASE UNCHANGED <<written, delivered>>
    <3>1. Pending' = Pending
      BY <2>3 DEF Pending
    <3> QED BY <2>3, <3>1 DEF Channel!vars
  <2>4. WriteRecord \/ Walk \/ UNCHANGED <<written, delivered>>
    BY DEF Next, InCall, Drain, Reserve, Spin, Abandon, SetDead, PopAvailable,
           PassEnd, producerVars, drainVars, vars
  <2> QED BY <2>1, <2>2, <2>3, <2>4
<1> QED
  BY <1>1, <1>2, FifoInvariant, PTL DEF Spec, ImplementsChannel, Channel!Spec
=============================================================================
