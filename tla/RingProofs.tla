----------------------------- MODULE RingProofs -----------------------------
(***************************************************************************)
(* Proofs about Ring for every capacity, every set of record sizes, both    *)
(* policies, both builds of the capacity check and every number of calls.   *)
(*                                                                          *)
(* Ring's properties are not inductive: that the drain meets no corrupt     *)
(* frame depends on the frames tiling the space between its position and    *)
(* head, that they are intact depends on where the producer may write, and  *)
(* that depends on what it knew of tail when it reserved.  IInv states all  *)
(* of it.                                                                   *)
(***************************************************************************)
EXTENDS Ring, Watermark, Lemmas, SequenceTheorems, TLAPS

\* The ring has at least one slot.
LEMMA CapacityNat == Capacity \in Nat /\ Capacity >= 1
  BY RingAssumption

\* A record occupies at least one slot.
LEMMA SizesNat == \A n \in Sizes : n \in Nat /\ n >= 1
  BY RingAssumption

\* A newer tail leaves at least as much room.
LEMMA NewerTail ==
  ASSUME NEW h \in Nat, NEW t \in Nat, NEW u \in Nat, t <= u,
         h - t <= Capacity - 1
  PROVE  h - u <= Capacity - 1
  BY CapacityNat

(* The arithmetic of `position & mask`.                                     *)

\* Division with remainder by the capacity.
LEMMA Division ==
  \A p \in Nat : /\ p \div Capacity \in Nat
                 /\ p = Capacity * (p \div Capacity) + (p % Capacity)
                 /\ p % Capacity \in Index
  BY RingAssumption DEF Index

\* The remainder is unique.
LEMMA RemainderUnique ==
  ASSUME NEW q1 \in Int, NEW q2 \in Int, NEW r1 \in Index, NEW r2 \in Index,
         Capacity * q1 + r1 = Capacity * q2 + r2
  PROVE  r1 = r2 /\ q1 = q2
<1> USE RingAssumption DEF Index
<1>1. Capacity * (q1 - q2) = r2 - r1
  OBVIOUS
<1>2. ~(q1 - q2 >= 1)
  <2> SUFFICES ASSUME q1 - q2 >= 1 PROVE FALSE
    OBVIOUS
  <2>1. Capacity * (q1 - q2) >= Capacity
    OBVIOUS
  <2> QED BY <2>1, <1>1
<1>3. ~(q1 - q2 <= -1)
  <2> SUFFICES ASSUME q1 - q2 <= -1 PROVE FALSE
    OBVIOUS
  <2>1. Capacity * (q1 - q2) <= -Capacity
    OBVIOUS
  <2> QED BY <2>1, <1>1
<1>4. q1 = q2
  BY <1>2, <1>3
<1> QED BY <1>1, <1>4

\* An offset is a slot index.
LEMMA OffsetIndex == \A p \in Nat : Offset(p) \in Index
  BY Division DEF Offset

\* Short of the physical end, positions and slots advance together.
LEMMA OffsetAdd ==
  ASSUME NEW p \in Nat, NEW k \in Nat, Offset(p) + k < Capacity
  PROVE  Offset(p + k) = Offset(p) + k
<1> DEFINE q1 == (p + k) \div Capacity
           q2 == p \div Capacity
<1>1. /\ q1 \in Int /\ p + k = Capacity * q1 + Offset(p + k)
      /\ Offset(p + k) \in Index
  BY RingAssumption, Division DEF Offset
<1>2. /\ q2 \in Int /\ p + k = Capacity * q2 + (Offset(p) + k)
      /\ Offset(p) + k \in Index
  BY RingAssumption, Division DEF Offset, Index
<1> HIDE DEF q1, q2
<1> QED BY <1>1, <1>2, RemainderUnique

\* The filler ends at the physical end: the next position is slot 0.
LEMMA OffsetWrap == \A p \in Nat : Offset(p + (Capacity - Offset(p))) = 0
  BY RingAssumption DEF Offset

\* Two positions less than a capacity apart are different slots.
LEMMA OffsetDistinct ==
  ASSUME NEW p \in Nat, NEW q \in Nat, p < q, q - p < Capacity
  PROVE  Offset(p) # Offset(q)
<1> DEFINE qp == p \div Capacity
           qq == q \div Capacity
<1>1. SUFFICES ASSUME Offset(p) = Offset(q) PROVE FALSE
  OBVIOUS
<1>2. qp \in Int /\ p = Capacity * qp + Offset(p) /\ Offset(p) \in Index
  BY Division DEF Offset
<1>3. qq \in Int /\ q = Capacity * qq + Offset(q) /\ Offset(q) \in Index
  BY Division DEF Offset
<1> HIDE DEF qp, qq
<1>4. Capacity * (qq - qp) = q - p
  BY <1>1, <1>2, <1>3, RingAssumption DEF Index
<1>5. Capacity * (qq - qp) + 0 = Capacity * 0 + (q - p)
  BY <1>4, <1>2, <1>3, RingAssumption
<1>6. q - p \in Index /\ 0 \in Index
  BY RingAssumption DEF Index
<1>7. q - p = 0
  BY <1>5, <1>6, <1>2, <1>3, RemainderUnique
<1> QED BY <1>7
-----------------------------------------------------------------------------
(* The inductive invariant.                                                 *)

\* How far the drain has read: its local tail during a pass.
ReadTail == IF dpc = "idle" THEN tail ELSE dtail

Writing == ppc \in {"eob", "assemble", "publish"}

\* The cursors: what each side knows lags behind what the other has done,
\* and a reservation fits the tail it was judged by.
CursorInv ==
  /\ tail_cache <= tail /\ tail <= ReadTail /\ ReadTail <= head
  /\ head - tail_cache <= Capacity - 1
  /\ dpc # "store"
  /\ dpc = "idle" => head_cache = tail
  /\ dpc = "walk" => dtail <= dhead /\ dhead <= head
  /\ ppc \in {"refresh", "full"} => psize \in Sizes
  /\ Writing => psize \in Sizes /\ Fits(psize, tail_cache)

\* The unread frames tile the positions from the drain's to head, none
\* crosses the physical end, and their records are numbered consecutively.
Follows(f, r, p) == f.pos = p /\ f.rec = r

NextRec(f) == IF f.type = "log" THEN f.rec + 1 ELSE f.rec

FrameShape ==
  \A f \in frames : /\ f.size >= 1
                    /\ ReadTail <= f.pos /\ f.pos + f.size <= head
                    /\ Offset(f.pos) + f.size <= Capacity
                    /\ f.rec >= 1 /\ f.rec <= published

FrameOrder ==
  \A f, g \in frames : /\ f.pos = g.pos => f = g
                       /\ f.pos < g.pos => f.pos + f.size <= g.pos

FrameChain ==
  \A f \in frames :
    \/ f.pos + f.size = head /\ NextRec(f) = published + 1
    \/ \E g \in frames : Follows(g, NextRec(f), f.pos + f.size)

FrameFirst ==
  \/ ReadTail = head /\ Len(delivered) = published
  \/ \E g \in frames : Follows(g, Len(delivered) + 1, ReadTail)

\* The head the drain works with is the end of some frame.
FrameWalk ==
  dpc = "walk" => \/ dhead = head \/ dhead = dtail
                  \/ \E g \in frames : g.pos = dhead

FrameInv ==
  FrameShape /\ FrameOrder /\ FrameChain /\ FrameFirst /\ FrameWalk

\* What the producer has assembled of the record it is writing.
WriteInv ==
  /\ ppc \in {"refresh", "full", "eob"} => written = 0
  /\ ppc = "eob" => Wraps(psize)
  /\ ppc = "assemble" => written < psize
  /\ ppc = "publish" => written = psize
  /\ ppc \in {"assemble", "publish"} =>
       /\ Wraps(psize) => data[Offset(head)] = Eob(RemainingPhys)
       /\ written >= 1 => data[Offset(RecordStart(psize))] =
                            Header(psize, published + 1)
       /\ \A k \in 1 .. written - 1 :
            data[Offset(RecordStart(psize)) + k] = Body(published + 1)

DeliveryInv == \A i \in 1 .. Len(delivered) : delivered[i] = i

\* At most one record per slot, counted from any unread frame to head.
RoomInv ==
  /\ \A f \in frames : published + 1 - f.rec <= head - f.pos

IInv ==
  /\ TypeOK
  /\ CursorInv
  /\ FrameInv
  /\ UnreadIntact
  /\ WriteInv
  /\ DeliveryInv
  /\ RoomInv
  /\ NoCorruptFrame
-----------------------------------------------------------------------------
(* Facts about reserve.                                                     *)

\* The quantities reserve computes, for a record of n slots.
LEMMA ReserveFacts ==
  ASSUME TypeOK, NEW n \in Nat
  PROVE  /\ RemainingPhys \in 1 .. Capacity
         /\ Needed(n) \in Nat /\ Needed(n) >= n
         /\ RecordStart(n) \in Nat /\ RecordStart(n) >= head
         /\ NewHead(n) \in Nat /\ NewHead(n) = head + Needed(n)
         /\ NewHead(n) = RecordStart(n) + n
         /\ Wraps(n) => RecordStart(n) = head + RemainingPhys
         /\ ~Wraps(n) => RecordStart(n) = head
         /\ n <= Capacity => Offset(RecordStart(n)) + n <= Capacity
<1>1. head \in Nat /\ Offset(head) \in Index
  BY OffsetIndex DEF TypeOK
<1>2. RemainingPhys \in 1 .. Capacity
  BY <1>1, RingAssumption DEF RemainingPhys, Index
<1>3. Offset(head + RemainingPhys) = 0
  BY <1>1, OffsetWrap DEF RemainingPhys
<1>4. n <= Capacity => Offset(RecordStart(n)) + n <= Capacity
  <2>1. CASE Wraps(n)
    BY <2>1, <1>3, RingAssumption DEF RecordStart
  <2>2. CASE ~Wraps(n)
    BY <2>2, <1>1, RingAssumption DEF RecordStart, Wraps, RemainingPhys, Index
  <2> QED BY <2>1, <2>2
<1> QED
  BY <1>1, <1>2, <1>4, RingAssumption DEF NewHead, RecordStart, Needed, Wraps

\* A slot the producer writes is no slot of an unread position: the room was
\* judged by tail_cache, which is never ahead of the drain.
LEMMA WriteDisjoint ==
  ASSUME TypeOK, CursorInv, Writing,
         NEW p \in head .. NewHead(psize) - 1, NEW q \in Nat,
         tail_cache <= q, q < p
  PROVE  Offset(p) # Offset(q)
<1>a. psize \in Nat \ {0} /\ Fits(psize, tail_cache)
  BY RingAssumption DEF CursorInv
<1>2. /\ NewHead(psize) \in Nat /\ NewHead(psize) = head + Needed(psize)
      /\ Needed(psize) \in Nat
  BY <1>a, ReserveFacts
<1>1. NewHead(psize) - tail_cache <= Capacity - 1
  BY <1>a, <1>2, RingAssumption DEF Fits, TypeOK
<1>3. p \in Nat /\ p - q < Capacity
  BY <1>1, <1>2, RingAssumption DEF TypeOK
<1> QED BY <1>3, OffsetDistinct

\* The positions of an unread frame and the slots it lies in.
LEMMA FrameSlots ==
  ASSUME TypeOK, FrameInv, NEW f \in frames, NEW k \in 0 .. f.size - 1
  PROVE  /\ f.pos + k \in Nat /\ Offset(f.pos) + k = Offset(f.pos + k)
         /\ ReadTail <= f.pos + k /\ f.pos + k < head
         /\ Offset(f.pos) + k \in Index
<1>1. f \in Frame /\ f.pos \in Nat /\ f.size \in Nat
  BY DEF TypeOK, Frame
<1>a. Offset(f.pos) + f.size <= Capacity
  BY DEF FrameInv, FrameShape
<1>b. Offset(f.pos) \in Index
  BY <1>1, OffsetIndex
<1>2. Offset(f.pos) + k < Capacity /\ Offset(f.pos) \in Index
  BY <1>1, <1>a, <1>b, RingAssumption DEF Index
<1>3. Offset(f.pos) + k = Offset(f.pos + k)
  BY <1>1, <1>2, OffsetAdd
<1>4. ReadTail <= f.pos /\ f.pos + f.size <= head
  BY DEF FrameInv, FrameShape
<1>5. head \in Nat /\ ReadTail \in Nat
  BY DEF TypeOK, ReadTail
<1> QED BY <1>1, <1>2, <1>3, <1>4, <1>5, RingAssumption DEF Index

\* A step that writes one slot of the reservation leaves unread frames alone.
LEMMA WriteKeepsUnread ==
  ASSUME TypeOK, CursorInv, FrameInv, UnreadIntact, Writing,
         NEW p \in head .. NewHead(psize) - 1, NEW v,
         data' = [data EXCEPT ![Offset(p)] = v], frames' = frames
  PROVE  UnreadIntact'
<1>1. ASSUME NEW f \in frames, NEW k \in 0 .. f.size - 1
      PROVE  data'[Offset(f.pos) + k] = data[Offset(f.pos) + k]
  <2>1. /\ f.pos + k \in Nat /\ Offset(f.pos) + k = Offset(f.pos + k)
        /\ ReadTail <= f.pos + k /\ f.pos + k < head
        /\ Offset(f.pos) + k \in Index
    BY <1>1, FrameSlots
  <2>2. f.pos + k < p
    <3>1. psize \in Nat \ {0}
      BY RingAssumption DEF CursorInv
    <3>2. NewHead(psize) \in Nat
      BY <3>1, ReserveFacts
    <3> QED BY <2>1, <3>2 DEF TypeOK
  <2>3. tail_cache <= f.pos + k
    BY <2>1 DEF CursorInv, TypeOK, ReadTail
  <2>4. Offset(p) # Offset(f.pos + k)
    BY <2>1, <2>2, <2>3, WriteDisjoint
  <2> QED BY <2>1, <2>4 DEF TypeOK
<1>2. ASSUME NEW f \in frames
      PROVE  /\ f.size \in Nat /\ f.size >= 1 /\ Offset(f.pos) \in Index
  BY OffsetIndex DEF TypeOK, Frame, FrameInv, FrameShape
<1>3. \A f \in frames : data'[Offset(f.pos)] = data[Offset(f.pos)]
  <2> TAKE f \in frames
  <2>1. 0 \in 0 .. f.size - 1 /\ Offset(f.pos) + 0 = Offset(f.pos)
    BY <1>2 DEF Index
  <2> QED BY <2>1, <1>1
<1>4. \A f \in frames : \A k \in 1 .. f.size - 1 :
        data'[Offset(f.pos) + k] = data[Offset(f.pos) + k]
  BY <1>1, <1>2
<1> QED
  <2> SUFFICES ASSUME NEW f \in frames
               PROVE  /\ f.type = "log" =>
                           /\ data'[Offset(f.pos)] = Header(f.size, f.rec)
                           /\ \A k \in 1 .. f.size - 1 :
                                data'[Offset(f.pos) + k] = Body(f.rec)
                      /\ f.type = "eob" => data'[Offset(f.pos)] = Eob(f.size)
    BY DEF UnreadIntact, Offset, Header, Body, Eob
  <2> QED BY <1>3, <1>4 DEF UnreadIntact
-----------------------------------------------------------------------------
(* Type correctness.                                                        *)

\* Every step of either thread keeps every variable in its type.
LEMMA TypeStep == TypeOK /\ [Next]_vars => TypeOK'
<1> SUFFICES ASSUME TypeOK, [Next]_vars PROVE TypeOK'
  OBVIOUS
<1> USE RingAssumption
<1>1. ASSUME NEW n \in Sizes, ReserveFast(n) PROVE TypeOK'
  BY <1>1 DEF TypeOK, ReserveFast, BeginWrite, config, sharedVars, drainVars,
              historyVars
<1>2. ASSUME NEW n \in Sizes, ReserveCold(n) PROVE TypeOK'
  BY <1>2 DEF TypeOK, ReserveCold, config, sharedVars, drainVars, historyVars
<1>3. CASE Refresh
  BY <1>3 DEF TypeOK, Refresh, BeginWrite, config, sharedVars, drainVars,
              historyVars
<1>4. CASE Spin
  BY <1>4 DEF TypeOK, Spin, config, sharedVars, drainVars, historyVars
<1>5. CASE WriteEob
  <2>1. Eob(RemainingPhys) \in Slot
    <3>1. RemainingPhys \in Nat
      BY ReserveFacts DEF TypeOK
    <3> QED BY <3>1 DEF Eob, Slot
  <2>2. data' \in [Index -> Slot]
    BY <1>5, <2>1 DEF WriteEob, TypeOK
  <2> QED
    BY <1>5, <2>2 DEF TypeOK, WriteEob, config, drainVars, historyVars
<1>6. CASE Assemble
  <2>1. Header(psize, published + 1) \in Slot /\ Body(published + 1) \in Slot
    BY DEF Header, Body, Slot, TypeOK
  <2>2. data' \in [Index -> Slot]
    BY <1>6, <2>1 DEF Assemble, TypeOK
  <2> QED
    BY <1>6, <2>2 DEF TypeOK, Assemble, config, drainVars, historyVars
<1>7. CASE Publish
  <2>1. psize \in Nat
    BY DEF TypeOK
  <2>2. /\ RecordStart(psize) \in Nat /\ NewHead(psize) \in Nat
        /\ RemainingPhys \in Nat
    BY <2>1, ReserveFacts
  <2>3. NewFrames(psize) \subseteq Frame
    BY <2>1, <2>2 DEF NewFrames, Frame, TypeOK
  <2> QED
    BY <1>7, <2>2, <2>3 DEF TypeOK, Publish, config, drainVars
<1>8. CASE SetDead
  BY <1>8 DEF TypeOK, SetDead, config, producerVars, drainVars, historyVars
<1>9. CASE DrainBegin
  BY <1>9 DEF TypeOK, DrainBegin, config, sharedVars, producerVars, historyVars
<1>10. CASE DrainRecord
  <2> DEFINE off == Offset(dtail)
  <2>1. off \in Index
    BY OffsetIndex DEF TypeOK
  <2>2. data[off].rec \in Nat /\ data[off].size \in Nat
    BY <2>1 DEF TypeOK, Slot
  <2>3. Contents(off, data[off].size) \in Nat
    BY <2>2 DEF Contents
  <2> HIDE DEF off
  <2>4. delivered' \in Seq(Nat) /\ dtail' \in Nat /\ frames' \subseteq Frame
    BY <1>10, <2>2, <2>3 DEF DrainRecord, TypeOK, off
  <2> QED
    BY <1>10, <2>4
    DEF TypeOK, DrainRecord, config, sharedVars, producerVars
<1>11. CASE DrainOther
  <2> DEFINE off == Offset(dtail)
  <2>1. off \in Index
    BY OffsetIndex DEF TypeOK
  <2>2. data[off].size \in Nat
    BY <2>1 DEF TypeOK, Slot
  <2> HIDE DEF off
  <2>3. dtail' \in Nat /\ frames' \subseteq Frame
    BY <1>11, <2>2 DEF DrainOther, TypeOK, off
  <2>4. dpc' \in {"idle", "walk", "store"} /\ corrupt' \in BOOLEAN
    BY <1>11 DEF DrainOther, TypeOK
  <2> QED
    BY <1>11, <2>3, <2>4
    DEF TypeOK, DrainOther, config, sharedVars, producerVars
<1>12. CASE DrainEnd
  BY <1>12 DEF TypeOK, DrainEnd, config, producerVars, historyVars
<1>13. CASE UNCHANGED vars
  BY <1>13 DEF TypeOK, vars, config, sharedVars, producerVars, drainVars,
               historyVars
<1> QED
  BY <1>1, <1>2, <1>3, <1>4, <1>5, <1>6, <1>7, <1>8, <1>9, <1>10, <1>11,
     <1>12, <1>13 DEF Next, Producer, Drain

\* Type correctness of the ring, for every capacity and record size.
THEOREM RingTypeCorrect == Spec => []TypeOK
<1>1. Init => TypeOK
  BY RingAssumption DEF Init, TypeOK, Empty, Slot, Index
<1> QED BY <1>1, TypeStep, PTL DEF Spec
-----------------------------------------------------------------------------
(* The parts of IInv that a step leaves alone.                              *)

\* FrameInv and RoomInv read neither the slots nor the producer's state.
LEMMA FramesUnchanged ==
  ASSUME FrameInv, RoomInv, DeliveryInv,
         UNCHANGED <<head, tail, dpc, dtail, dhead, frames, published,
                     delivered>>
  PROVE  FrameInv' /\ RoomInv' /\ DeliveryInv'
<1>1. FrameInv'
  BY DEF FrameInv, FrameShape, FrameOrder, FrameChain, FrameFirst, FrameWalk,
         ReadTail, Follows, NextRec, Offset
<1>2. RoomInv' /\ DeliveryInv'
  BY DEF RoomInv, DeliveryInv
<1> QED BY <1>1, <1>2

\* UnreadIntact reads the slots and the frames only.
LEMMA IntactUnchanged ==
  ASSUME UnreadIntact, UNCHANGED <<data, frames>>
  PROVE  UnreadIntact'
  BY DEF UnreadIntact, Offset, Header, Body, Eob

\* WriteInv reads the producer's state only.
LEMMA WriteUnchanged ==
  ASSUME WriteInv, UNCHANGED <<ppc, psize, written, head, data, published>>
  PROVE  WriteInv'
  BY DEF WriteInv, Wraps, RemainingPhys, RecordStart, Offset, Header, Body,
         Eob

\* Whether a record fits depends on head and the tail it is judged by.
LEMMA FitsUnchanged ==
  ASSUME head' = head, NEW n, NEW t
  PROVE  Fits(n, t)' <=> Fits(n, t)
  BY DEF Fits, Needed, Wraps, RemainingPhys, Offset
-----------------------------------------------------------------------------
(* One lemma per step.                                                      *)

\* A record that fits an older tail fits a newer one.
LEMMA FitsMonotone ==
  ASSUME TypeOK, NEW n \in Nat, NEW t \in Nat, NEW u \in Nat, t <= u,
         Fits(n, t)
  PROVE  Fits(n, u)
<1>1. Needed(n) \in Nat /\ head \in Nat
  BY ReserveFacts DEF TypeOK
<1> QED BY <1>1, RingAssumption DEF Fits

\* The reservation steps: only the producer's own state changes.
LEMMA ReserveStep ==
  ASSUME IInv, TypeOK',
         (\E n \in Sizes : ReserveFast(n) \/ ReserveCold(n)) \/ Refresh \/ Spin
  PROVE  IInv'
<1>1. UNCHANGED <<sharedVars, drainVars, historyVars>>
  BY DEF ReserveFast, ReserveCold, Refresh, Spin
<1>2. FrameInv' /\ RoomInv' /\ DeliveryInv'
  BY <1>1, FramesUnchanged DEF sharedVars, drainVars, historyVars, IInv
<1>3. UnreadIntact' /\ NoCorruptFrame'
  BY <1>1, IntactUnchanged
  DEF sharedVars, drainVars, historyVars, IInv, NoCorruptFrame
<1> DEFINE Effect ==
      /\ tail_cache' <= tail' /\ tail_cache <= tail_cache'
      /\ ppc' \in {"refresh", "full"} => psize' \in Sizes /\ written' = 0
      /\ Writing' => /\ psize' \in Sizes /\ written' = 0
                     /\ Fits(psize', tail_cache')
                     /\ ppc' = BeginWrite(psize')
<1>4. Effect
  <2>1. /\ tail \in Nat /\ tail_cache \in Nat /\ tail_cache <= tail
        /\ psize \in Nat /\ tail' = tail
    BY <1>1 DEF IInv, TypeOK, CursorInv, sharedVars
  <2>2. ASSUME NEW n \in Sizes, ReserveFast(n) PROVE Effect
    <3>1. Fits(n, tail_cache) /\ Fits(n, tail)
      BY <2>1, <2>2, SizesNat, FitsMonotone DEF ReserveFast, IInv
    <3> QED BY <2>1, <2>2, <3>1 DEF ReserveFast, BeginWrite, Writing
  <2>3. ASSUME NEW n \in Sizes, ReserveCold(n) PROVE Effect
    BY <2>1, <2>3 DEF ReserveCold, Writing
  <2>4. CASE Refresh
    BY <2>1, <2>4
    DEF Refresh, BeginWrite, Writing, IInv, CursorInv, WriteInv
  <2>5. CASE Spin
    BY <2>1, <2>5 DEF Spin, Writing, IInv, CursorInv, WriteInv
  <2> HIDE DEF Effect
  <2> QED BY <2>2, <2>3, <2>4, <2>5
<1>5. CursorInv'
  <2>1. ReadTail' = ReadTail
    BY <1>1 DEF ReadTail, sharedVars, drainVars
  <2>2. \A n, t : Fits(n, t)' <=> Fits(n, t)
    BY <1>1, FitsUnchanged DEF sharedVars
  <2>3. head - tail_cache' <= Capacity - 1
    <3>1. head \in Nat /\ tail_cache \in Nat /\ tail_cache' \in Nat
      BY DEF IInv, TypeOK
    <3>2. head - tail_cache <= Capacity - 1 /\ tail_cache <= tail_cache'
      BY <1>4 DEF IInv, CursorInv
    <3> QED BY <3>1, <3>2, NewerTail
  <2> QED
    BY <1>1, <1>4, <2>1, <2>2, <2>3
    DEF CursorInv, IInv, sharedVars, drainVars, Writing
<1>6. WriteInv'
  <2>1. /\ Writing' => written' = 0 /\ psize' \in Nat \ {0}
        /\ ppc' \in {"refresh", "full"} => written' = 0
        /\ ppc' # "publish"
    BY <1>4, SizesNat DEF Writing, BeginWrite
  <2>2. /\ ppc' = "eob" => Wraps(psize)'
        /\ ppc' = "assemble" => ~Wraps(psize)'
    BY <1>1, <1>4
    DEF Writing, BeginWrite, Wraps, RemainingPhys, Offset, sharedVars
  <2> QED BY <2>1, <2>2 DEF WriteInv, Writing
<1> QED BY <1>2, <1>3, <1>5, <1>6 DEF IInv

\* write_eob: the filler's header goes to a slot of the reservation.
LEMMA WriteEobStep == ASSUME IInv, TypeOK', WriteEob PROVE IInv'
<1>1. UNCHANGED <<head, tail, live, tail_cache, psize, written, calls,
                  drainVars, historyVars>>
  BY DEF WriteEob
<1>2. FrameInv' /\ RoomInv' /\ DeliveryInv'
  BY <1>1, FramesUnchanged DEF drainVars, historyVars, IInv
<1>3. /\ TypeOK /\ CursorInv /\ FrameInv /\ UnreadIntact /\ Writing
      /\ psize \in Nat /\ psize >= 1 /\ Wraps(psize) /\ written = 0
  BY SizesNat DEF IInv, CursorInv, WriteInv, Writing, WriteEob
<1>4. head \in head .. NewHead(psize) - 1
  <2>1. /\ NewHead(psize) \in Nat /\ NewHead(psize) = head + Needed(psize)
        /\ Needed(psize) >= psize /\ Needed(psize) \in Nat
    BY <1>3, ReserveFacts
  <2>2. head \in Nat
    BY <1>3 DEF TypeOK
  <2> QED BY <1>3, <2>1, <2>2
<1>5. UnreadIntact'
  BY <1>1, <1>3, <1>4, WriteKeepsUnread DEF WriteEob, historyVars
<1>6. CursorInv'
  BY <1>1, <1>3, FitsUnchanged
  DEF CursorInv, WriteEob, drainVars, Writing, ReadTail
<1>7. WriteInv'
  <2>1. data'[Offset(head)] = Eob(RemainingPhys)
    BY <1>3, OffsetIndex DEF WriteEob, TypeOK
  <2>2. data'[Offset(head)'] = Eob(RemainingPhys)'
    BY <1>1, <2>1 DEF Offset, RemainingPhys, Eob
  <2>3. ppc' = "assemble" /\ written' = 0 /\ psize' = psize
    BY <1>1, <1>3 DEF WriteEob
  <2> QED BY <1>3, <2>2, <2>3 DEF WriteInv
<1> QED
  BY <1>1, <1>2, <1>5, <1>6, <1>7 DEF IInv, NoCorruptFrame, drainVars

\* record::assemble: one more slot of the record is in place.
LEMMA AssembleStep == ASSUME IInv, TypeOK', Assemble PROVE IInv'
<1> DEFINE start == RecordStart(psize)
           base  == Offset(start)
           rec   == published + 1
<1>1. UNCHANGED <<head, tail, live, tail_cache, psize, calls, drainVars,
                  historyVars>>
  BY DEF Assemble
<1>2. FrameInv' /\ RoomInv' /\ DeliveryInv'
  BY <1>1, FramesUnchanged DEF drainVars, historyVars, IInv
<1>3. /\ TypeOK /\ CursorInv /\ FrameInv /\ UnreadIntact /\ Writing
      /\ psize \in Nat /\ psize >= 1 /\ written \in Nat /\ written < psize
      /\ head \in Nat
  BY SizesNat DEF IInv, CursorInv, WriteInv, Writing, Assemble, TypeOK
<1>4. /\ start \in Nat /\ head <= start /\ NewHead(psize) = start + psize
      /\ NewHead(psize) \in Nat /\ Needed(psize) \in Nat
      /\ NewHead(psize) = head + Needed(psize) /\ psize <= Needed(psize)
      /\ Wraps(psize) => start = head + RemainingPhys
      /\ RemainingPhys \in 1 .. Capacity
      /\ psize <= Capacity => base + psize <= Capacity
  BY <1>3, ReserveFacts
<1>5. base + psize <= Capacity /\ base \in Index
  <2>1. head - tail_cache >= 0 /\ tail_cache \in Nat
    BY <1>3 DEF CursorInv, TypeOK, ReadTail
  <2>2. psize <= Capacity
    BY <1>3, <1>4, <2>1, CapacityNat DEF CursorInv, Fits
  <2> QED BY <1>4, <2>2, OffsetIndex
<1>6. start + written \in head .. NewHead(psize) - 1
  BY <1>3, <1>4
<1>7. Offset(start + written) = base + written /\ base + written \in Index
  <2>1. base + written < Capacity
    BY <1>3, <1>5, CapacityNat DEF Index
  <2> QED BY <1>3, <1>4, <1>5, <2>1, OffsetAdd, CapacityNat DEF Index
<1>8. UnreadIntact'
  BY <1>1, <1>3, <1>6, WriteKeepsUnread DEF Assemble, historyVars
<1>9. CursorInv'
  BY <1>1, <1>3, FitsUnchanged
  DEF CursorInv, Assemble, drainVars, Writing, ReadTail
<1>10. /\ start' = start /\ base' = base /\ rec' = rec /\ psize' = psize
       /\ Wraps(psize)' <=> Wraps(psize)
       /\ Offset(head)' = Offset(head) /\ RemainingPhys' = RemainingPhys
  BY <1>1 DEF RecordStart, Offset, Wraps, RemainingPhys, historyVars
<1> HIDE DEF start, base, rec
<1>11. WriteInv'
  <2>1. data' = [data EXCEPT ![base + written] =
                   IF written = 0 THEN Header(psize, rec) ELSE Body(rec)]
    BY <1>7 DEF Assemble, start, rec
  <2>2. Wraps(psize) => data'[Offset(head)] = Eob(RemainingPhys)
    <3>1. SUFFICES ASSUME Wraps(psize)
                   PROVE  data'[Offset(head)] = Eob(RemainingPhys)
      OBVIOUS
    <3>2. data[Offset(head)] = Eob(RemainingPhys)
      BY <3>1 DEF IInv, WriteInv, Assemble
    <3>3. Offset(start + written) # Offset(head)
      <4>1. head < start + written
        BY <1>3, <1>4, <3>1
      <4>2. tail_cache <= head
        BY <1>3 DEF CursorInv, TypeOK, ReadTail
      <4> QED BY <1>3, <1>6, <4>1, <4>2, WriteDisjoint
    <3> QED
      BY <1>3, <1>7, <2>1, <3>2, <3>3, OffsetIndex DEF TypeOK
  <2>3. data'[base] = Header(psize, rec)
    <3>1. CASE written = 0
      BY <1>3, <1>5, <2>1, <3>1 DEF TypeOK, Index
    <3>2. CASE written # 0
      <4>1. data[base] = Header(psize, rec)
        BY <1>3, <3>2 DEF IInv, WriteInv, Assemble, base, start, rec
      <4> QED BY <1>3, <1>5, <2>1, <3>2, <4>1 DEF TypeOK, Index
    <3> QED BY <3>1, <3>2
  <2>4. \A k \in 1 .. written : data'[base + k] = Body(rec)
    <3> TAKE k \in 1 .. written
    <3>1. base + k \in Index
      BY <1>3, <1>5, CapacityNat DEF Index
    <3>2. CASE k = written
      BY <1>3, <2>1, <3>1, <3>2 DEF TypeOK
    <3>3. CASE k # written
      <4>1. k \in 1 .. written - 1
        BY <1>3, <3>3
      <4>2. data[base + k] = Body(rec)
        BY <4>1 DEF IInv, WriteInv, Assemble, base, start, rec
      <4> QED BY <1>3, <1>5, <2>1, <3>1, <3>3, <4>2 DEF TypeOK, Index
    <3> QED BY <3>2, <3>3
  <2>5. /\ written' = written + 1
        /\ ppc' = IF written + 1 = psize THEN "publish" ELSE "assemble"
    BY DEF Assemble
  <2>6. /\ Wraps(psize)' => data'[Offset(head)'] = Eob(RemainingPhys)'
        /\ data'[base'] = Header(psize, rec)'
        /\ \A k \in 1 .. written' - 1 : data'[base' + k] = Body(rec)'
    BY <1>3, <1>10, <2>2, <2>3, <2>4, <2>5 DEF Eob, Header, Body
  <2>7. /\ ppc' = "assemble" => written' < psize'
        /\ ppc' = "publish" => written' = psize'
        /\ ppc' \in {"assemble", "publish"}
    BY <1>3, <1>10, <2>5
  <2> QED BY <2>6, <2>7 DEF WriteInv, base, start, rec
<1> QED
  BY <1>1, <1>2, <1>8, <1>9, <1>11 DEF IInv, NoCorruptFrame, drainVars

\* publish: the filler and the record join the unread frames, at head.
LEMMA PublishStep == ASSUME IInv, TypeOK', Publish PROVE IInv'
<1> DEFINE start == RecordStart(psize)
           log   == [type |-> "log", pos |-> start, size |-> psize,
                     rec |-> published + 1]
           eob   == [type |-> "eob", pos |-> head, size |-> RemainingPhys,
                     rec |-> published + 1]
<1>1. /\ UNCHANGED <<tail, live, data, tail_cache, psize, written, calls,
                     drainVars, delivered>>
      /\ published' = published + 1 /\ ppc' = "idle"
      /\ head' = start + psize
  BY DEF Publish, NewHead
<1>2. /\ TypeOK /\ CursorInv /\ FrameInv /\ UnreadIntact /\ RoomInv /\ Writing
      /\ psize \in Nat /\ psize >= 1 /\ head \in Nat /\ published \in Nat
      /\ Fits(psize, tail_cache) /\ tail_cache \in Nat /\ ReadTail \in Nat
      /\ tail_cache <= head /\ ReadTail <= head
  BY SizesNat DEF IInv, CursorInv, Writing, Publish, TypeOK, ReadTail
<1>3. /\ start \in Nat /\ head <= start /\ NewHead(psize) = start + psize
      /\ Needed(psize) \in Nat
      /\ NewHead(psize) = head + Needed(psize) /\ psize <= Needed(psize)
      /\ Wraps(psize) => start = head + RemainingPhys
      /\ ~Wraps(psize) => start = head
      /\ RemainingPhys \in 1 .. Capacity
      /\ psize <= Capacity => Offset(start) + psize <= Capacity
  BY <1>2, ReserveFacts
<1>4. Offset(start) + psize <= Capacity
  <2>1. psize <= Capacity
    BY <1>2, <1>3, CapacityNat DEF Fits
  <2> QED BY <1>3, <2>1
<1>5. Offset(head) + RemainingPhys <= Capacity
  BY <1>2, OffsetIndex, CapacityNat DEF RemainingPhys, Index
<1>6. start + psize - tail_cache <= Capacity - 1
  BY <1>2, <1>3, CapacityNat DEF Fits
<1>7. frames' = IF Wraps(psize) THEN frames \cup {log, eob}
                                ELSE frames \cup {log}
  BY DEF Publish, NewFrames
<1>8. ReadTail' = ReadTail
  BY <1>1 DEF ReadTail, drainVars
<1> HIDE DEF start
<1>9. CursorInv'
  <2>1. head <= head' /\ head' - tail_cache <= Capacity - 1
    BY <1>1, <1>2, <1>3, <1>6
  <2>2. /\ tail_cache <= tail /\ tail <= ReadTail /\ ReadTail <= head'
        /\ dpc # "store" /\ (dpc = "idle" => head_cache = tail)
        /\ dpc = "walk" => dtail <= dhead /\ dhead <= head'
    BY <1>1, <1>2, <1>3 DEF CursorInv, TypeOK
  <2> QED
    BY <1>1, <1>8, <2>1, <2>2 DEF CursorInv, Writing, drainVars
<1>10. WriteInv'
  BY <1>1 DEF WriteInv
<1>11. /\ data[Offset(start)] = Header(psize, published + 1)
       /\ \A k \in 1 .. psize - 1 :
            data[Offset(start) + k] = Body(published + 1)
       /\ Wraps(psize) => data[Offset(head)] = Eob(RemainingPhys)
  BY <1>2 DEF IInv, WriteInv, Publish, start
<1>12. UnreadIntact'
  <2> SUFFICES ASSUME NEW f \in frames'
               PROVE  /\ f.type = "log" =>
                           /\ data[Offset(f.pos)] = Header(f.size, f.rec)
                           /\ \A k \in 1 .. f.size - 1 :
                                data[Offset(f.pos) + k] = Body(f.rec)
                      /\ f.type = "eob" => data[Offset(f.pos)] = Eob(f.size)
    BY <1>1 DEF UnreadIntact, Offset, Header, Body, Eob
  <2>1. CASE f \in frames
    BY <1>2, <2>1 DEF UnreadIntact
  <2>2. CASE f = log
    BY <1>11, <2>2
  <2>3. CASE Wraps(psize) /\ f = eob
    BY <1>11, <2>3
  <2> QED BY <1>7, <2>1, <2>2, <2>3
<1>13. \A f \in frames :
         /\ f.pos \in Nat /\ f.size \in Nat /\ f.rec \in Nat
         /\ f.size >= 1 /\ f.rec >= 1 /\ f.rec <= published
         /\ ReadTail <= f.pos /\ f.pos + f.size <= head
         /\ Offset(f.pos) + f.size <= Capacity
  BY <1>2 DEF TypeOK, Frame, FrameInv, FrameShape
<1>14. FrameShape'
  <2> SUFFICES ASSUME NEW f \in frames'
               PROVE  /\ f.size >= 1 /\ f.rec >= 1 /\ f.rec <= published + 1
                      /\ ReadTail <= f.pos /\ f.pos + f.size <= start + psize
                      /\ Offset(f.pos) + f.size <= Capacity
    BY <1>1, <1>8 DEF FrameShape, Offset
  <2>1. CASE f \in frames
    BY <1>2, <1>3, <1>13, <2>1
  <2>2. CASE f = log
    BY <1>2, <1>3, <1>4, <2>2
  <2>3. CASE Wraps(psize) /\ f = eob
    BY <1>2, <1>3, <1>5, <2>3
  <2> QED BY <1>7, <2>1, <2>2, <2>3
<1>15. FrameOrder'
  <2>1. \A f, g \in frames : /\ f.pos = g.pos => f = g
                             /\ f.pos < g.pos => f.pos + f.size <= g.pos
    BY <1>2 DEF FrameInv, FrameOrder
  <2>2. \A f \in frames : f.pos < head /\ f.pos + f.size <= head
    BY <1>2, <1>13
  <2>3. /\ log.pos = start /\ log.size = psize
        /\ eob.pos = head /\ eob.size = RemainingPhys /\ head <= start
        /\ Wraps(psize) => head + RemainingPhys = start /\ head < start
    BY <1>2, <1>3
  <2> HIDE DEF log, eob
  <2> SUFFICES ASSUME NEW f \in frames', NEW g \in frames'
               PROVE  /\ f.pos = g.pos => f = g
                      /\ f.pos < g.pos => f.pos + f.size <= g.pos
    BY DEF FrameOrder
  <2>4. CASE f \in frames /\ g \in frames
    BY <2>1, <2>4
  <2>5. CASE f \in frames /\ g \notin frames
    BY <1>2, <1>3, <1>7, <1>13, <2>2, <2>3, <2>5
  <2>6. CASE f \notin frames /\ g \in frames
    BY <1>2, <1>3, <1>7, <1>13, <2>2, <2>3, <2>6
  <2>7. CASE f \notin frames /\ g \notin frames
    BY <1>2, <1>3, <1>7, <2>3, <2>7
  <2> QED BY <2>4, <2>5, <2>6, <2>7
\* The first of the new frames continues the chain that ended at head.
<1>16. \E g \in frames' : Follows(g, published + 1, head)
  <2>1. CASE Wraps(psize)
    <3>1. eob \in frames' /\ Follows(eob, published + 1, head)
      BY <1>7, <2>1 DEF Follows
    <3> QED BY <3>1
  <2>2. CASE ~Wraps(psize)
    <3>1. log \in frames' /\ Follows(log, published + 1, head)
      BY <1>3, <1>7, <2>2 DEF Follows
    <3> QED BY <3>1
  <2> QED BY <2>1, <2>2
<1>17. FrameChain'
  <2> SUFFICES ASSUME NEW f \in frames'
               PROVE  \/ /\ f.pos + f.size = start + psize
                         /\ NextRec(f) = published + 2
                      \/ \E g \in frames' :
                           Follows(g, NextRec(f), f.pos + f.size)
    BY <1>1, <1>2 DEF FrameChain, NextRec, Follows
  <2>1. CASE f \in frames
    BY <1>2, <1>7, <1>16, <2>1 DEF FrameInv, FrameChain
  <2>2. CASE f = log
    BY <1>2, <2>2 DEF NextRec
  <2>3. CASE Wraps(psize) /\ f = eob
    <3>1. log \in frames' /\ Follows(log, NextRec(f), f.pos + f.size)
      BY <1>3, <1>7, <2>3 DEF NextRec, Follows
    <3> QED BY <3>1
  <2> QED BY <1>7, <2>1, <2>2, <2>3
<1>18. FrameFirst'
  <2>1. \E g \in frames' : Follows(g, Len(delivered) + 1, ReadTail)
    BY <1>2, <1>7, <1>16 DEF FrameInv, FrameFirst
  <2> QED BY <1>1, <1>8, <2>1 DEF FrameFirst, Follows
<1>19. FrameWalk'
  BY <1>1, <1>2, <1>7, <1>16 DEF FrameInv, FrameWalk, Follows, drainVars
<1>20. RoomInv'
  <2> SUFFICES ASSUME NEW f \in frames'
               PROVE  (published + 1) + 1 - f.rec <= (start + psize) - f.pos
    BY <1>1, <1>2 DEF RoomInv
  <2>1. CASE f \in frames
    BY <1>2, <1>3, <1>13, <2>1 DEF RoomInv
  <2>2. CASE f = log
    BY <1>2, <1>3, <2>2
  <2>3. CASE Wraps(psize) /\ f = eob
    BY <1>2, <1>3, <2>3
  <2> QED BY <1>7, <2>1, <2>2, <2>3
<1> QED
  BY <1>1, <1>9, <1>10, <1>12, <1>14, <1>15, <1>17, <1>18, <1>19, <1>20
  DEF IInv, FrameInv, DeliveryInv, NoCorruptFrame, drainVars

\* set_dead touches the live flag alone.
LEMMA SetDeadStep == ASSUME IInv, TypeOK', SetDead PROVE IInv'
<1>1. UNCHANGED <<head, tail, data, producerVars, drainVars, historyVars>>
  BY DEF SetDead
<1>2. FrameInv' /\ RoomInv' /\ DeliveryInv'
  BY <1>1, FramesUnchanged DEF drainVars, historyVars, IInv
<1>3. UnreadIntact' /\ WriteInv'
  BY <1>1, IntactUnchanged, WriteUnchanged DEF producerVars, historyVars, IInv
<1>4. CursorInv'
  BY <1>1, FitsUnchanged
  DEF IInv, CursorInv, producerVars, drainVars, Writing, ReadTail
<1> QED BY <1>1, <1>2, <1>3, <1>4 DEF IInv, NoCorruptFrame, drainVars

\* The start of a pass: between passes the caches agree, so head is reloaded.
LEMMA DrainBeginStep == ASSUME IInv, TypeOK', DrainBegin PROVE IInv'
<1>1. UNCHANGED <<sharedVars, producerVars, head_cache, corrupt, historyVars>>
  BY DEF DrainBegin
<1>2. /\ dpc = "idle" /\ dtail' = tail /\ dhead' = head
      /\ dpc' = IF head = tail THEN "idle" ELSE "walk"
      /\ tail \in Nat /\ head \in Nat /\ tail <= head /\ head_cache = tail
  BY DEF DrainBegin, IInv, CursorInv, TypeOK, ReadTail
<1>3. ReadTail' = ReadTail
  BY <1>1, <1>2 DEF ReadTail, sharedVars
<1>4. CursorInv'
  BY <1>1, <1>2, <1>3, FitsUnchanged
  DEF IInv, CursorInv, sharedVars, producerVars, Writing
<1>5. FrameShape' /\ FrameOrder' /\ FrameChain' /\ FrameFirst'
  BY <1>1, <1>3
  DEF IInv, FrameInv, FrameShape, FrameOrder, FrameChain, FrameFirst, Follows,
      NextRec, Offset, sharedVars, historyVars
<1>6. FrameWalk'
  BY <1>1, <1>2 DEF FrameWalk, sharedVars
<1>7. UnreadIntact' /\ WriteInv'
  BY <1>1, IntactUnchanged, WriteUnchanged
  DEF sharedVars, producerVars, historyVars, IInv
<1>8. RoomInv' /\ DeliveryInv' /\ NoCorruptFrame'
  BY <1>1 DEF IInv, RoomInv, DeliveryInv, NoCorruptFrame, sharedVars,
              historyVars
<1> QED BY <1>4, <1>5, <1>6, <1>7, <1>8 DEF IInv, FrameInv

\* What the drain finds at its position: the next unread frame, whole.
LEMMA FirstFrame ==
  ASSUME IInv, dpc = "walk", dtail < dhead
  PROVE  \E g \in frames :
           /\ g.pos = dtail /\ g.rec = Len(delivered) + 1
           /\ g.type = "log" =>
                /\ data[Offset(dtail)] = Header(g.size, g.rec)
                /\ \A k \in 1 .. g.size - 1 :
                     data[Offset(dtail) + k] = Body(g.rec)
           /\ g.type = "eob" => data[Offset(dtail)] = Eob(g.size)
           /\ g.type \in {"log", "eob"}
           /\ Offset(dtail) + g.size <= Capacity
<1>1. ReadTail = dtail /\ dtail # head
  BY DEF IInv, CursorInv, TypeOK, ReadTail
<1>2. PICK g \in frames : g.pos = dtail /\ g.rec = Len(delivered) + 1
  BY <1>1 DEF IInv, FrameInv, FrameFirst, Follows
<1>3. g.type \in {"log", "eob"} /\ Offset(g.pos) + g.size <= Capacity
  BY DEF IInv, TypeOK, Frame, FrameInv, FrameShape
<1> QED BY <1>2, <1>3 DEF IInv, UnreadIntact

\* Stepping over the first unread frame g keeps the tiling.
LEMMA ConsumeFrame ==
  ASSUME IInv, dpc = "walk", dtail < dhead,
         NEW g \in frames, g.pos = dtail,
         dtail' = dtail + g.size, frames' = {f \in frames : f.pos # dtail},
         Len(delivered') + 1 = NextRec(g), Len(delivered') \in Nat,
         UNCHANGED <<config, sharedVars, producerVars, head_cache, dpc, dhead,
                     corrupt, published>>
  PROVE  /\ CursorInv' /\ FrameInv' /\ RoomInv' /\ UnreadIntact' /\ WriteInv'
         /\ NoCorruptFrame'
<1>1. /\ ReadTail = dtail /\ dtail \in Nat /\ dhead \in Nat /\ head \in Nat
      /\ dhead <= head /\ tail \in Nat /\ tail <= dtail
  BY DEF IInv, CursorInv, TypeOK, ReadTail
<1>2. \A f \in frames :
        /\ f.pos \in Nat /\ f.size \in Nat /\ f.size >= 1
        /\ dtail <= f.pos /\ f.pos + f.size <= head
        /\ f.pos # dtail => dtail + g.size <= f.pos
  <2>1. \A f \in frames : f.pos \in Nat /\ f.size \in Nat /\ f.size >= 1
    BY DEF IInv, TypeOK, Frame, FrameInv, FrameShape
  <2>2. \A f \in frames : dtail <= f.pos /\ f.pos + f.size <= head
    BY <1>1 DEF IInv, FrameInv, FrameShape
  <2>3. \A f \in frames : f.pos # dtail => dtail + g.size <= f.pos
    BY <1>1, <2>1, <2>2 DEF IInv, FrameInv, FrameOrder
  <2> QED BY <2>1, <2>2, <2>3
<1>3. ReadTail' = dtail + g.size /\ head' = head /\ published' = published
  BY DEF ReadTail, sharedVars
<1>4. dtail + g.size <= dhead
  BY <1>1, <1>2 DEF IInv, FrameInv, FrameWalk
<1>5. CursorInv'
  <2>1. tail <= dtail + g.size /\ dtail + g.size <= head
    BY <1>1, <1>2, <1>4
  <2>2. /\ tail_cache <= tail /\ head - tail_cache <= Capacity - 1
        /\ ppc \in {"refresh", "full"} => psize \in Sizes
        /\ Writing => psize \in Sizes /\ Fits(psize, tail_cache)
    BY DEF IInv, CursorInv
  <2> QED
    BY <1>1, <1>3, <1>4, <2>1, <2>2, FitsUnchanged
    DEF CursorInv, sharedVars, producerVars, Writing
<1>6. FrameShape'
  BY <1>2, <1>3 DEF IInv, FrameInv, FrameShape, Offset
<1>7. FrameOrder'
  BY DEF IInv, FrameInv, FrameOrder
<1>8. FrameChain'
  <2> SUFFICES ASSUME NEW f \in frames'
               PROVE  \/ f.pos + f.size = head /\ NextRec(f) = published + 1
                      \/ \E h \in frames' :
                           Follows(h, NextRec(f), f.pos + f.size)
    BY <1>3 DEF FrameChain, NextRec, Follows
  <2>1. f \in frames /\ f.pos # dtail
    OBVIOUS
  <2>2. CASE f.pos + f.size = head /\ NextRec(f) = published + 1
    BY <2>2
  <2>3. CASE \E h \in frames : Follows(h, NextRec(f), f.pos + f.size)
    <3>1. PICK h \in frames : Follows(h, NextRec(f), f.pos + f.size)
      BY <2>3
    <3>2. h.pos # dtail
      BY <1>1, <1>2, <2>1, <3>1 DEF Follows
    <3> QED BY <3>1, <3>2
  <2> QED BY <2>1, <2>2, <2>3 DEF IInv, FrameInv, FrameChain
<1>9. FrameFirst'
  <2>1. CASE g.pos + g.size = head /\ NextRec(g) = published + 1
    <3>1. Len(delivered') = published
      BY <2>1 DEF IInv, TypeOK
    <3> QED BY <1>3, <2>1, <3>1 DEF FrameFirst
  <2>2. CASE \E h \in frames : Follows(h, NextRec(g), g.pos + g.size)
    <3>1. PICK h \in frames : Follows(h, NextRec(g), g.pos + g.size)
      BY <2>2
    <3>2. h \in frames'
      BY <1>1, <1>2, <3>1 DEF Follows
    <3> QED BY <1>3, <3>1, <3>2 DEF FrameFirst, Follows
  <2> QED BY <2>1, <2>2 DEF IInv, FrameInv, FrameChain
<1>10. FrameWalk'
  <2>1. CASE dhead = head
    BY <1>3, <2>1 DEF FrameWalk
  <2>2. CASE \E h \in frames : h.pos = dhead
    BY <1>1, <2>2 DEF FrameWalk
  <2> QED BY <1>1, <2>1, <2>2 DEF IInv, FrameInv, FrameWalk
<1>11. RoomInv'
  BY <1>3 DEF IInv, RoomInv
<1>12. UnreadIntact'
  <2>1. data' = data
    BY DEF sharedVars
  <2> QED BY <2>1 DEF IInv, UnreadIntact, Offset, Header, Body, Eob
<1>13. WriteInv'
  BY WriteUnchanged DEF IInv, sharedVars, producerVars
<1>14. NoCorruptFrame'
  BY DEF IInv, NoCorruptFrame
<1> QED
  BY <1>5, <1>6, <1>7, <1>8, <1>9, <1>10, <1>11, <1>12, <1>13, <1>14
  DEF FrameInv

\* A log record: the sink gets the next number, the tiling moves on.
LEMMA DrainRecordStep == ASSUME IInv, TypeOK', DrainRecord PROVE IInv'
<1> DEFINE off == Offset(dtail)
<1>1. /\ dpc = "walk" /\ dtail < dhead /\ data[off].type = "log"
      /\ delivered' = Append(delivered, Contents(off, data[off].size))
      /\ dtail' = dtail + data[off].size
      /\ frames' = {f \in frames : f.pos # dtail}
      /\ UNCHANGED <<config, sharedVars, producerVars, head_cache, dpc, dhead,
                     corrupt, published>>
  BY DEF DrainRecord
<1>2. PICK g \in frames :
        /\ g.pos = dtail /\ g.rec = Len(delivered) + 1
        /\ g.type = "log" =>
             /\ data[off] = Header(g.size, g.rec)
             /\ \A k \in 1 .. g.size - 1 : data[off + k] = Body(g.rec)
        /\ g.type = "eob" => data[off] = Eob(g.size)
        /\ g.type \in {"log", "eob"}
  BY <1>1, FirstFrame
<1> HIDE DEF off
<1>3. g.type = "log"
  BY <1>1, <1>2 DEF Eob
<1>4. data[off].size = g.size /\ data[off].rec = g.rec
  BY <1>2, <1>3 DEF Header
<1>5. Contents(off, data[off].size) = Len(delivered) + 1
  BY <1>2, <1>3, <1>4 DEF Contents
<1>6. delivered' = Append(delivered, Len(delivered) + 1)
  BY <1>1, <1>5
<1>7. delivered \in Seq(Nat) /\ Len(delivered) \in Nat
  BY DEF IInv, TypeOK
<1>8. /\ Len(delivered') = Len(delivered) + 1 /\ Len(delivered') \in Nat
      /\ \A i \in 1 .. Len(delivered) : delivered'[i] = delivered[i]
      /\ delivered'[Len(delivered) + 1] = Len(delivered) + 1
  BY <1>6, <1>7
<1>9. Len(delivered') + 1 = NextRec(g)
  BY <1>2, <1>3, <1>8 DEF NextRec
<1>10. DeliveryInv'
  <2>1. \A i \in 1 .. Len(delivered) : delivered[i] = i
    BY DEF IInv, DeliveryInv
  <2> QED BY <1>7, <1>8, <2>1 DEF DeliveryInv
<1>11. dtail' = dtail + g.size
  BY <1>1, <1>4
<1>12. /\ CursorInv' /\ FrameInv' /\ RoomInv' /\ UnreadIntact' /\ WriteInv'
       /\ NoCorruptFrame'
  BY <1>1, <1>2, <1>8, <1>9, <1>11, ConsumeFrame
<1> QED BY <1>10, <1>12 DEF IInv

\* What is not a log record is a filler: it is stepped over.
LEMMA DrainOtherStep == ASSUME IInv, TypeOK', DrainOther PROVE IInv'
<1> DEFINE off == Offset(dtail)
<1>1. PICK g \in frames :
        /\ g.pos = dtail /\ g.rec = Len(delivered) + 1
        /\ g.type = "log" => data[off] = Header(g.size, g.rec)
        /\ g.type = "eob" => data[off] = Eob(g.size)
        /\ g.type \in {"log", "eob"}
        /\ off + g.size <= Capacity
  BY FirstFrame DEF DrainOther
<1>2. /\ g.type = "eob" /\ data[off].type = "eob" /\ data[off].size = g.size
      /\ ValidFrame(data[off], off)
  BY <1>1 DEF DrainOther, ValidFrame, Header, Eob
<1>3. /\ dpc = "walk" /\ dtail < dhead
      /\ dtail' = dtail + g.size /\ frames' = {f \in frames : f.pos # dtail}
      /\ delivered' = delivered
      /\ UNCHANGED <<config, sharedVars, producerVars, head_cache, dpc, dhead,
                     corrupt, published>>
  BY <1>2 DEF DrainOther
<1>4. Len(delivered') + 1 = NextRec(g) /\ Len(delivered') \in Nat
  BY <1>1, <1>2, <1>3 DEF NextRec, IInv, TypeOK
<1>5. /\ CursorInv' /\ FrameInv' /\ RoomInv' /\ UnreadIntact' /\ WriteInv'
      /\ NoCorruptFrame'
  BY <1>1, <1>3, <1>4, ConsumeFrame
<1>6. DeliveryInv'
  BY <1>3 DEF IInv, DeliveryInv
<1> QED BY <1>5, <1>6 DEF IInv

\* The end of a pass: the drain has read exactly up to the head it loaded.
LEMMA DrainEndStep == ASSUME IInv, TypeOK', DrainEnd PROVE IInv'
<1>1. UNCHANGED <<head, live, data, producerVars, dtail, dhead, corrupt,
                  historyVars>>
  BY DEF DrainEnd
<1>2. /\ dpc = "walk" /\ dtail = dhead /\ tail' = dtail /\ head_cache' = dhead
      /\ dpc' = "idle"
  BY DEF DrainEnd, IInv, CursorInv, TypeOK
<1>3. ReadTail' = dtail /\ ReadTail = dtail
  BY <1>2 DEF ReadTail
<1>4. CursorInv'
  <2>1. tail_cache <= dtail /\ dtail <= head
    BY <1>2, <1>3 DEF IInv, CursorInv, TypeOK
  <2> QED
    BY <1>1, <1>2, <1>3, <2>1, FitsUnchanged
    DEF IInv, CursorInv, producerVars, Writing
<1>5. FrameShape' /\ FrameOrder' /\ FrameChain' /\ FrameFirst'
  BY <1>1, <1>3
  DEF IInv, FrameInv, FrameShape, FrameOrder, FrameChain, FrameFirst, Follows,
      NextRec, Offset, historyVars
<1>6. FrameWalk'
  BY <1>2 DEF FrameWalk
<1>7. UnreadIntact' /\ WriteInv'
  BY <1>1, IntactUnchanged, WriteUnchanged DEF producerVars, historyVars, IInv
<1>8. RoomInv' /\ DeliveryInv' /\ NoCorruptFrame'
  BY <1>1 DEF IInv, RoomInv, DeliveryInv, NoCorruptFrame, historyVars
<1> QED BY <1>4, <1>5, <1>6, <1>7, <1>8 DEF IInv, FrameInv
-----------------------------------------------------------------------------
(* The theorems.                                                            *)

\* IInv holds initially.
LEMMA IInvInit == Init => IInv
<1> SUFFICES ASSUME Init PROVE IInv
  OBVIOUS
<1>1. TypeOK
  BY RingAssumption DEF Init, TypeOK, Empty, Slot, Index
<1>2. /\ head = 0 /\ tail = 0 /\ tail_cache = 0 /\ head_cache = 0
      /\ ppc = "idle" /\ dpc = "idle" /\ frames = {} /\ published = 0
      /\ Len(delivered) = 0 /\ ~corrupt
  BY DEF Init
<1>3. CursorInv
  BY <1>2, CapacityNat DEF CursorInv, ReadTail, Writing
<1>4. FrameInv /\ RoomInv /\ UnreadIntact
  BY <1>2
  DEF FrameInv, FrameShape, FrameOrder, FrameChain, FrameFirst, FrameWalk,
      RoomInv, UnreadIntact, ReadTail
<1>5. WriteInv /\ DeliveryInv /\ NoCorruptFrame
  BY <1>2 DEF WriteInv, DeliveryInv, NoCorruptFrame
<1> QED BY <1>1, <1>3, <1>4, <1>5 DEF IInv

\* Every step of either thread keeps IInv.
LEMMA IInvStep == IInv /\ [Next]_vars => IInv'
<1> SUFFICES ASSUME IInv, [Next]_vars PROVE IInv'
  OBVIOUS
<1>1. TypeOK'
  BY TypeStep DEF IInv
<1>2. CASE Producer
  BY <1>1, <1>2, ReserveStep, WriteEobStep, AssembleStep, PublishStep
  DEF Producer
<1>3. CASE SetDead
  BY <1>1, <1>3, SetDeadStep
<1>4. CASE Drain
  BY <1>1, <1>4, DrainBeginStep, DrainRecordStep, DrainOtherStep, DrainEndStep
  DEF Drain
<1>5. CASE UNCHANGED vars
  <2>1. UNCHANGED <<config, sharedVars, producerVars, drainVars, historyVars>>
    BY <1>5 DEF vars
  <2>2. FrameInv' /\ RoomInv' /\ DeliveryInv'
    BY <2>1, FramesUnchanged DEF sharedVars, drainVars, historyVars, IInv
  <2>3. UnreadIntact' /\ WriteInv'
    BY <2>1, IntactUnchanged, WriteUnchanged
    DEF sharedVars, producerVars, historyVars, IInv
  <2>4. CursorInv'
    BY <2>1, FitsUnchanged
    DEF IInv, CursorInv, sharedVars, producerVars, drainVars, Writing, ReadTail
  <2> QED BY <1>1, <2>1, <2>2, <2>3, <2>4 DEF IInv, NoCorruptFrame, drainVars
<1> QED BY <1>2, <1>3, <1>4, <1>5 DEF Next

\* IInv is an invariant of the ring.
THEOREM RingInvariant == Spec => []IInv
  BY IInvInit, IInvStep, PTL DEF Spec

\* The sink receives the published records, each once, whole, in order.
THEOREM RingDelivery == Spec => []ExactlyOnceInOrder
<1>1. IInv => ExactlyOnceInOrder
  <2> SUFFICES ASSUME IInv PROVE Len(delivered) <= published
    BY DEF IInv, DeliveryInv, ExactlyOnceInOrder
  <2>1. Len(delivered) \in Nat /\ published \in Nat
    BY DEF IInv, TypeOK
  <2>2. \A g \in frames : g.rec \in Nat /\ g.rec <= published
    BY DEF IInv, TypeOK, Frame, FrameInv, FrameShape
  <2> QED BY <2>1, <2>2 DEF IInv, FrameInv, FrameFirst, Follows
<1> QED BY <1>1, RingInvariant, PTL

\* The drain never meets an empty slot or a frame that it must reject.
THEOREM RingNeverCorrupt == Spec => []NoCorruptFrame
<1>1. IInv => NoCorruptFrame
  BY DEF IInv
<1> QED BY <1>1, RingInvariant, PTL

\* What the drain has yet to read lies in the ring as it was published.
THEOREM RingUnreadIntact == Spec => []UnreadIntact
<1>1. IInv => UnreadIntact
  BY DEF IInv
<1> QED BY <1>1, RingInvariant, PTL

\* The producer's reservation and the unread positions share no slot.
THEOREM RingDataPartition == Spec => []DataPartition
<1>1. IInv => DataPartition
  <2> SUFFICES ASSUME IInv, NEW p \in WriteRegion, NEW q \in tail .. head - 1
               PROVE  Offset(p) # Offset(q)
    BY DEF DataPartition
  <2>1. Writing /\ p \in head .. NewHead(psize) - 1
    BY DEF WriteRegion, Writing
  <2>2. psize \in Nat /\ TypeOK /\ CursorInv
    BY DEF IInv, TypeOK
  <2>3. NewHead(psize) \in Nat
    BY <2>2, ReserveFacts
  <2>4. q \in Nat /\ tail_cache <= q /\ q < p
    BY <2>1, <2>2, <2>3 DEF CursorInv, TypeOK
  <2> QED BY <2>1, <2>2, <2>4, WriteDisjoint
<1> QED BY <1>1, RingInvariant, PTL

\* Cached cursors lag, and the ring never holds more than its capacity.
THEOREM RingCachesConservative == Spec => []CachesConservative
<1>1. IInv => CachesConservative
  <2> SUFFICES ASSUME IInv PROVE CachesConservative
    OBVIOUS
  <2>1. head \in Nat /\ tail \in Nat /\ tail_cache \in Nat
    BY DEF IInv, TypeOK
  <2>2. head - tail <= Capacity - 1
    BY <2>1, NewerTail DEF IInv, CursorInv
  <2> QED
    BY <2>2 DEF IInv, CursorInv, CachesConservative, ReadTail
<1> QED BY <1>1, RingInvariant, PTL
-----------------------------------------------------------------------------
(* The ring implements the bounded channel.                                 *)

\* The records between published and delivered, as a sequence.
LEMMA PendingSeq ==
  ASSUME IInv
  PROVE  /\ Pending \in Seq(Nat) /\ Len(Pending) = published - Len(delivered)
         /\ Len(delivered) \in Nat /\ published \in Nat
         /\ Len(delivered) <= published
<1>1. Len(delivered) \in Nat /\ published \in Nat
  BY DEF IInv, TypeOK
<1>2. \A g \in frames : g.rec \in Nat /\ g.rec <= published
  BY DEF IInv, TypeOK, Frame, FrameInv, FrameShape
<1>3. Len(delivered) <= published
  BY <1>1, <1>2 DEF IInv, FrameInv, FrameFirst, Follows
<1>4. Pending = Run(Len(delivered), published)
  BY DEF Pending, Run
<1> QED BY <1>1, <1>3, <1>4, RunSeq

\* publish sends: there is room for one more record than there are.
LEMMA PublishSends ==
  ASSUME IInv, IInv', Publish
  PROVE  Channel!Send
<1>1. /\ published' = published + 1 /\ delivered' = delivered
  BY DEF Publish
<1>2. /\ Pending \in Seq(Nat) /\ Len(Pending) = published - Len(delivered)
      /\ Len(delivered) \in Nat /\ published \in Nat
      /\ Len(delivered) <= published
  BY PendingSeq
<1>3. Len(Pending) < Capacity - 1
  <2>1. /\ psize \in Nat /\ psize >= 1 /\ Fits(psize, tail_cache)
        /\ head \in Nat /\ tail_cache \in Nat /\ ReadTail \in Nat
        /\ tail_cache <= ReadTail /\ ReadTail <= head
    BY SizesNat DEF IInv, CursorInv, Writing, Publish, TypeOK, ReadTail
  <2>2. Needed(psize) \in Nat /\ psize <= Needed(psize)
    BY <2>1, ReserveFacts DEF IInv
  <2>3. head - ReadTail < Capacity - 1
    BY <2>1, <2>2, CapacityNat DEF Fits
  <2>4. published - Len(delivered) <= head - ReadTail
    <3>1. CASE ReadTail = head /\ Len(delivered) = published
      BY <1>2, <2>1, <3>1
    <3>2. CASE \E g \in frames : Follows(g, Len(delivered) + 1, ReadTail)
      <4>1. PICK g \in frames : Follows(g, Len(delivered) + 1, ReadTail)
        BY <3>2
      <4>2. published + 1 - (Len(delivered) + 1) <= head - ReadTail
        BY <4>1 DEF IInv, RoomInv, Follows
      <4> QED BY <1>2, <2>1, <4>2
    <3> QED BY <3>1, <3>2 DEF IInv, FrameInv, FrameFirst
  <2> QED BY <1>2, <2>1, <2>3, <2>4, CapacityNat
<1>4. Pending' = Append(Pending, published + 1)
  <2>1. /\ Pending' = Run(Len(delivered), published + 1)
        /\ Pending = Run(Len(delivered), published)
    BY <1>1 DEF Pending, Run
  <2> QED BY <1>2, <2>1, RunAppend
<1> QED BY <1>1, <1>3, <1>4 DEF Channel!Send

\* The hand-over to the sink receives the oldest record.
LEMMA DrainRecordReceives ==
  ASSUME IInv, IInv', DrainRecord
  PROVE  Channel!Receive
<1>1. /\ published' = published
      /\ \E r : delivered' = Append(delivered, r)
  BY DEF DrainRecord
<1>2. /\ Pending \in Seq(Nat) /\ Len(Pending) = published - Len(delivered)
      /\ Len(delivered) \in Nat /\ published \in Nat
      /\ Len(delivered) <= published /\ delivered \in Seq(Nat)
  BY PendingSeq DEF IInv, TypeOK
<1>3. Len(delivered') = Len(delivered) + 1
  BY <1>1, <1>2
<1>4. Len(delivered) < published
  <2>1. PICK g \in frames : g.rec = Len(delivered) + 1
    BY FirstFrame DEF DrainRecord
  <2>2. g.rec <= published
    BY DEF IInv, FrameInv, FrameShape
  <2> QED BY <1>2, <2>1, <2>2
<1>5. delivered' = Append(delivered, Len(delivered) + 1)
  <2>1. PICK r : delivered' = Append(delivered, r)
    BY <1>1
  <2>2. delivered'[Len(delivered) + 1] = Len(delivered) + 1
    BY <1>2, <1>3 DEF IInv, DeliveryInv
  <2>3. Append(delivered, r)[Len(delivered) + 1] = r
    BY <1>2
  <2> QED BY <2>1, <2>2, <2>3
<1>6. /\ Pending = Run(Len(delivered), published)
      /\ Pending' = Run(Len(delivered) + 1, published)
  BY <1>1, <1>3 DEF Pending, Run
<1>7. /\ Pending # <<>> /\ Head(Pending) = Len(delivered) + 1
      /\ Tail(Pending) = Pending'
  BY <1>2, <1>4, <1>6, RunTail
<1> QED BY <1>1, <1>5, <1>7 DEF Channel!Receive

\* The ring, with publish as Send and the hand-over as Receive, is the bounded
\* first-in first-out channel of RecordChannel.
THEOREM RingImplementsChannel == Spec => ImplementsChannel
<1>1. Init => Channel!Init
  <2> SUFFICES ASSUME Init PROVE Channel!Init
    OBVIOUS
  <2>1. published = 0 /\ delivered = <<>> /\ Len(delivered) = 0
    BY DEF Init
  <2>2. Pending = <<>>
    BY <2>1 DEF Pending
  <2> QED BY <2>1, <2>2 DEF Channel!Init
<1>2. IInv /\ IInv' /\ [Next]_vars => [Channel!Next]_(Channel!vars)
  <2> SUFFICES ASSUME IInv, IInv', [Next]_vars
               PROVE  [Channel!Next]_(Channel!vars)
    OBVIOUS
  <2>1. CASE Publish
    BY <2>1, PublishSends DEF Channel!Next
  <2>2. CASE DrainRecord
    BY <2>2, DrainRecordReceives DEF Channel!Next
  <2>3. CASE UNCHANGED <<published, delivered>>
    <3>1. Pending' = Pending
      BY <2>3 DEF Pending
    <3> QED BY <2>3, <3>1 DEF Channel!vars
  <2>4. \/ Publish \/ DrainRecord \/ UNCHANGED <<published, delivered>>
    BY DEF Next, Producer, Drain, ReserveFast, ReserveCold, Refresh, Spin,
           WriteEob, Assemble, SetDead, DrainBegin, DrainOther, DrainEnd,
           historyVars, vars
  <2> QED BY <2>1, <2>2, <2>3, <2>4
<1> QED
  BY <1>1, <1>2, RingInvariant, PTL DEF Spec, ImplementsChannel, Channel!Spec

-----------------------------------------------------------------------------
(* The watermark-head build (module Watermark), for every capacity, every   *)
(* bounded set of record sizes, every WATERMARK_HEAD_RECORDS and any number *)
(* of calls.                                                                *)
(*                                                                          *)
(* What head shows is bounded from both sides: never past local_head, and   *)
(* behind it by no more than the records counted and the filler of one lap. *)
(* No condition on the ring's size is needed, because a second filler would *)
(* have to pass the tail.  How much room a waiting call can be short of     *)
(* while the drain sees nothing follows from the same bound.                *)

(* The inductive invariant.                                                 *)

WmTypeOK ==
  /\ wmPolicy \in {"Drop", "Block", "Quill"}
  /\ shared_head \in Nat /\ local_head \in Nat /\ since_watermark \in Nat
  /\ ring_tail \in Nat /\ seen_head \in Nat /\ wmRead \in Nat
  /\ ring_live \in BOOLEAN /\ gone \in BOOLEAN
  /\ wmpc \in {"idle", "reserve", "publish"}
  /\ wmSize \in Nat /\ (wmpc # "idle" => wmSize \in WmSizes)
  /\ wdpc \in {"idle", "store", "load", "walk"}
  /\ wmLeft \in Nat /\ began \in BOOLEAN /\ quiet \in BOOLEAN

\* Head may lag, and even step back when the drain stores the position it
\* read before the thread's own store, but never behind what the drain has
\* seen.
WmCursorInv ==
  /\ ring_tail <= seen_head /\ seen_head <= shared_head
  /\ shared_head <= local_head
  /\ local_head - ring_tail <= WmCapacity - 1
  /\ wdpc = "store" => seen_head <= wmRead /\ wmRead <= local_head

\* Once the thread is gone, a pass that begins sees all of it.
GoneInv ==
  /\ gone => wmpc = "idle"
  /\ wdpc = "store" => ~ring_live
  /\ gone /\ ring_live => shared_head = local_head
  /\ began => gone
  /\ began /\ wdpc = "store" => wmRead = local_head
  /\ began /\ wdpc = "load" => shared_head = local_head
  /\ quiet => gone /\ ring_tail = local_head

WmInv == WmTypeOK /\ WmCursorInv /\ GoneInv

\* The first position of the lap that x is in.
LapStart(x) == x - (x % WmCapacity)

\* While the ring is live, head lags by the records counted, and by one
\* filler if it is still in an earlier lap.
LagInv ==
  /\ LagsOneBatch
  /\ ring_live /\ shared_head >= LapStart(local_head) =>
       local_head - shared_head <= since_watermark * WmLargest
-----------------------------------------------------------------------------
(* The arithmetic of the laps.                                              *)

\* A position lies in its lap.
LEMMA LapFacts ==
  ASSUME NEW x \in Nat
  PROVE  /\ LapStart(x) \in Nat /\ LapStart(x) <= x
         /\ x < LapStart(x) + WmCapacity
         /\ x % WmCapacity \in 0 .. WmCapacity - 1
  BY WatermarkAssumption DEF LapStart

\* A later position is in the same or a later lap, and in a later one if it is
\* past the end of this.
LEMMA LapOrder ==
  ASSUME NEW x \in Nat, NEW y \in Nat, x <= y
  PROVE  /\ LapStart(x) <= LapStart(y)
         /\ LapStart(x) + WmCapacity <= y =>
              LapStart(x) + WmCapacity <= LapStart(y)
<1> DEFINE C == WmCapacity
           p == x \div C
           q == y \div C
<1>1. C \in Nat \ {0}
  BY WatermarkAssumption
<1>2. /\ p \in Int /\ q \in Int
      /\ x = C * p + (x % C) /\ y = C * q + (y % C)
      /\ x % C \in 0 .. C - 1 /\ y % C \in 0 .. C - 1
  BY <1>1
<1>3. LapStart(x) = x - (x % C) /\ LapStart(y) = y - (y % C)
  BY DEF LapStart
<1> HIDE DEF C, p, q
<1>4. LapStart(x) = C * p /\ LapStart(y) = C * q
  BY <1>1, <1>2, <1>3
<1>5. ASSUME NEW u \in Int, NEW v \in Int, u <= v PROVE C * u <= C * v
  <2>1. C * (v - u) >= 0 /\ C * (v - u) = C * v - C * u
    BY <1>1, <1>5
  <2> QED BY <1>1, <2>1
<1>6. C * (p - 1) = C * p - C /\ C * (p + 1) = C * p + C
  BY <1>1, <1>2
<1>7. C * p \in Int /\ C * q \in Int
  BY <1>1, <1>2
<1>8. p <= q
  <2> SUFFICES ASSUME q <= p - 1 PROVE FALSE
    BY <1>2
  <2>1. C * q <= C * (p - 1)
    BY <1>2, <1>5
  <2> QED BY <1>1, <1>2, <1>6, <1>7, <2>1
<1>9. C * p + C <= y => p + 1 <= q
  <2> SUFFICES ASSUME C * p + C <= y, q <= p PROVE FALSE
    BY <1>2
  <2>1. C * q <= C * p
    BY <1>2, <1>5
  <2> QED BY <1>1, <1>2, <1>7, <2>1
<1>10. C * p <= C * q /\ (C * p + C <= y => C * p + C <= C * q)
  <2>1. p + 1 <= q => C * (p + 1) <= C * q
    BY <1>2, <1>5
  <2> QED BY <1>2, <1>5, <1>6, <1>8, <1>9, <2>1
<1> QED BY <1>4, <1>10 DEF C

\* The filler reaches the end of the lap and is shorter than the record that
\* needs it.
LEMMA FillerFacts ==
  ASSUME WmTypeOK, NEW n \in Nat \ {0}
  PROVE  /\ Filler(n) \in Nat /\ Filler(n) <= n - 1
         /\ Filler(n) # 0 =>
              local_head + Filler(n) = LapStart(local_head) + WmCapacity
<1>1. /\ local_head \in Nat /\ WmCapacity \in Nat \ {0}
      /\ local_head % WmCapacity \in 0 .. WmCapacity - 1
  BY WatermarkAssumption, LapFacts DEF WmTypeOK
<1> QED BY <1>1 DEF Filler, ToPhysicalEnd, LapStart
-----------------------------------------------------------------------------
(* Cursors and passes.                                                      *)

\* Initially nothing is published, and no pass has begun.
LEMMA WmInvInit == WatermarkInit => WmInv
<1> SUFFICES ASSUME WatermarkInit PROVE WmInv
  OBVIOUS
<1>1. WmTypeOK
  BY WatermarkAssumption DEF WatermarkInit, WmTypeOK
<1>2. WmCursorInv
  BY WatermarkAssumption DEF WatermarkInit, WmCursorInv
<1>3. GoneInv
  BY DEF WatermarkInit, GoneInv
<1> QED BY <1>1, <1>2, <1>3 DEF WmInv

\* Every step preserves the invariant.
LEMMA WmInvStep == WmInv /\ [WatermarkNext]_watermarkVars => WmInv'
<1> SUFFICES ASSUME WmInv, [WatermarkNext]_watermarkVars PROVE WmInv'
  OBVIOUS
<1> USE WatermarkAssumption DEF passVars, threadVars
<1>t. WmTypeOK /\ WmCursorInv /\ GoneInv
  BY DEF WmInv
<1>1. CASE Call
  BY <1>t, <1>1 DEF Call, WmInv, WmTypeOK, WmCursorInv, GoneInv
<1>2. CASE PublishLocal
  <2>1. wmSize \in Nat \ {0}
    BY <1>t, <1>2 DEF PublishLocal, WmTypeOK
  <2>2. Filler(wmSize) \in Nat
    BY <1>t, <2>1, FillerFacts
  <2>3. /\ local_head' = local_head + Filler(wmSize) + wmSize
        /\ local_head + Filler(wmSize) + wmSize - ring_tail <= WmCapacity - 1
        /\ wmpc = "reserve" /\ wmpc' = "publish"
        /\ since_watermark' = since_watermark + 1
        /\ UNCHANGED <<wmPolicy, shared_head, ring_live, gone, wmSize, wmLeft,
                       ring_tail, seen_head, wdpc, wmRead, began, quiet>>
    BY <1>2 DEF PublishLocal, Room
  <2>4. local_head' \in Nat /\ local_head <= local_head'
    BY <1>t, <2>1, <2>2, <2>3 DEF WmTypeOK
  <2>5. ~gone
    BY <1>t, <2>3 DEF GoneInv
  <2>6. WmTypeOK'
    BY <1>t, <2>3, <2>4 DEF WmTypeOK
  <2>7. WmCursorInv'
    <3>1. local_head' - ring_tail' <= WmCapacity - 1
      BY <1>t, <2>1, <2>2, <2>3 DEF WmTypeOK
    <3>2. /\ ring_tail' <= seen_head' /\ seen_head' <= shared_head'
          /\ shared_head' <= local_head'
          /\ wdpc' = "store" => seen_head' <= wmRead' /\ wmRead' <= local_head'
      BY <1>t, <2>3, <2>4 DEF WmTypeOK, WmCursorInv
    <3> QED BY <3>1, <3>2 DEF WmCursorInv
  <2>8. GoneInv'
    BY <1>t, <2>3, <2>5 DEF GoneInv
  <2> QED BY <2>6, <2>7, <2>8 DEF WmInv
<1>3. CASE PublishWatermark
  BY <1>t, <1>3 DEF PublishWatermark, WmInv, WmTypeOK, WmCursorInv, GoneInv
<1>4. CASE NoRoom
  <2>1. /\ wmpc = "reserve" /\ wmpc' = "idle"
        /\ UNCHANGED <<wmPolicy, local_head, ring_live, wmSize, wmLeft,
                       ring_tail, seen_head, wdpc, wmRead, began, quiet>>
    BY <1>4 DEF NoRoom
  <2>2. \/ UNCHANGED <<shared_head, since_watermark, gone>>
        \/ shared_head' = local_head /\ since_watermark' = 0 /\ gone' = TRUE
    BY <1>4 DEF NoRoom
  <2>3. ~gone
    BY <1>t, <2>1 DEF GoneInv
  <2>4. WmTypeOK'
    <3>1. shared_head' \in Nat /\ since_watermark' \in Nat
      BY <1>t, <2>2 DEF WmTypeOK
    <3>2. gone' \in BOOLEAN
      BY <1>t, <2>2, Zenon DEF WmTypeOK
    <3> QED BY <1>t, <2>1, <3>1, <3>2 DEF WmTypeOK
  <2>5. WmCursorInv'
    BY <1>t, <2>1, <2>2 DEF WmTypeOK, WmCursorInv
  <2>6. GoneInv'
    BY <1>t, <2>1, <2>2, <2>3 DEF GoneInv
  <2> QED BY <2>4, <2>5, <2>6 DEF WmInv
<1>5. CASE Exit
  BY <1>t, <1>5 DEF Exit, WmInv, WmTypeOK, WmCursorInv, GoneInv
<1>6. CASE MarkDead
  BY <1>t, <1>6 DEF MarkDead, WmInv, WmTypeOK, WmCursorInv, GoneInv
<1>7. CASE FlushDead
  BY <1>t, <1>7 DEF FlushDead, WmInv, WmTypeOK, WmCursorInv, GoneInv
<1>8. CASE FlushDeadStore
  BY <1>t, <1>8 DEF FlushDeadStore, WmInv, WmTypeOK, WmCursorInv, GoneInv
<1>9. CASE PassLive
  BY <1>t, <1>9 DEF PassLive, WmInv, WmTypeOK, WmCursorInv, GoneInv
<1>10. CASE LoadHead
  BY <1>t, <1>10 DEF LoadHead, WmInv, WmTypeOK, WmCursorInv, GoneInv
<1>11. CASE StoreTailSeen
  BY <1>t, <1>11 DEF StoreTailSeen, WmInv, WmTypeOK, WmCursorInv, GoneInv
<1>12. CASE UNCHANGED watermarkVars
  BY <1>t, <1>12 DEF watermarkVars, WmInv, WmTypeOK, WmCursorInv, GoneInv
<1> QED BY <1>1, <1>2, <1>3, <1>4, <1>5, <1>6, <1>7, <1>8, <1>9, <1>10, <1>11,
           <1>12 DEF WatermarkNext

-----------------------------------------------------------------------------
(* The lag of head.                                                         *)

\* Initially head does not lag.
LEMMA LagInit == WatermarkInit => LagInv
<1> SUFFICES ASSUME WatermarkInit PROVE LagInv
  OBVIOUS
<1>1. since_watermark * WmLargest = 0
  BY WatermarkAssumption DEF WatermarkInit
<1> QED BY <1>1, WatermarkAssumption DEF WatermarkInit, LagInv, LagsOneBatch

\* A publish makes head lag by one record more, and by a filler at most once.
LEMMA LagPublish ==
  ASSUME WmInv, LagInv, PublishLocal PROVE LagInv'
<1> DEFINE S == WmLargest
           n == wmSize
           F == Filler(wmSize)
           L == local_head
           H == shared_head
           C == WmCapacity
           k == since_watermark * S
<1>1. S \in Nat \ {0} /\ n \in Nat \ {0} /\ n <= S
  BY WatermarkAssumption DEF PublishLocal, WmInv, WmTypeOK
<1>2. /\ F \in Nat /\ F <= n - 1
      /\ F # 0 => L + F = LapStart(L) + C
  BY <1>1, FillerFacts DEF WmInv
<1>3. /\ L \in Nat /\ H \in Nat /\ ring_tail \in Nat /\ ring_tail <= H /\ H <= L
      /\ since_watermark \in Nat /\ C \in Nat \ {0}
  BY WatermarkAssumption DEF WmInv, WmTypeOK, WmCursorInv
<1>4. /\ local_head' = L + F + n /\ L + F + n - ring_tail <= C - 1
      /\ since_watermark' = since_watermark + 1 /\ wmpc' = "publish"
      /\ wmpc = "reserve" /\ ring_live' = ring_live /\ shared_head' = H
  BY DEF PublishLocal, Room
<1>5. k \in Nat /\ since_watermark' * S = k + S
  BY <1>1, <1>3, <1>4
<1> HIDE DEF F, k
<1> SUFFICES ASSUME ring_live
             PROVE  /\ since_watermark' = WATERMARK_HEAD_RECORDS
                         \/ since_watermark' < WATERMARK_HEAD_RECORDS
                    /\ H >= LapStart(local_head)' => local_head' - H <= k + S
                    /\ local_head' - H <= k + S + (S - 1)
  BY <1>4, <1>5 DEF LagInv, LagsOneBatch, LapStart
<1>6. /\ since_watermark < WATERMARK_HEAD_RECORDS
      /\ H >= LapStart(L) => L - H <= k
      /\ L - H <= k + (S - 1)
  BY <1>4 DEF LagInv, LagsOneBatch, k
<1>7. /\ LapStart(L) \in Nat /\ LapStart(L) <= L /\ L < LapStart(L) + C
      /\ local_head' \in Nat
      /\ LapStart(local_head)' \in Nat /\ LapStart(L) <= LapStart(local_head)'
  <2>1. LapStart(L) \in Nat /\ LapStart(L) <= L /\ L < LapStart(L) + C
    BY <1>3, LapFacts
  <2>2. local_head' \in Nat /\ L <= local_head'
    BY <1>1, <1>2, <1>3, <1>4
  <2>3. /\ LapStart(local_head') \in Nat /\ LapStart(L) <= LapStart(local_head')
    BY <1>3, <2>2, LapFacts, LapOrder
  <2> QED BY <2>1, <2>2, <2>3 DEF LapStart
<1>8. CASE F = 0
  BY <1>1, <1>3, <1>4, <1>5, <1>6, <1>7, <1>8, WatermarkAssumption
<1>9. CASE F # 0
  <2>1. L + F = LapStart(L) + C
    BY <1>2, <1>9
  <2>2. H >= LapStart(L)
    BY <1>1, <1>3, <1>4, <1>7, <2>1
  <2>3. local_head' - H <= k + S + (S - 1)
    BY <1>1, <1>2, <1>3, <1>4, <1>5, <1>6, <2>2
  <2>4. H < LapStart(local_head)'
    <3>1. LapStart(L) + C <= local_head' /\ L <= local_head'
      BY <1>1, <1>3, <1>4, <1>7, <2>1
    <3>2. LapStart(L) + C <= LapStart(local_head')
      BY <1>3, <1>7, <3>1, LapOrder
    <3>3. LapStart(local_head') = LapStart(local_head)'
      BY DEF LapStart
    <3> QED BY <1>3, <1>7, <3>2, <3>3
  <2> QED BY <1>3, <1>4, <1>6, <1>7, <2>3, <2>4, WatermarkAssumption
<1> QED BY <1>8, <1>9

\* Every step keeps the lag within its bound.
LEMMA LagStep ==
  ASSUME WmInv, LagInv, [WatermarkNext]_watermarkVars PROVE LagInv'
<1> USE DEF passVars, threadVars
<1>1. CASE PublishLocal
  BY <1>1, LagPublish
<1>2. ASSUME shared_head' = local_head, since_watermark' = 0,
             local_head' = local_head
      PROVE  LagInv'
  <2>1. since_watermark' * WmLargest = 0 /\ local_head \in Nat
    BY <1>2, WatermarkAssumption DEF WmInv, WmTypeOK
  <2> QED BY <1>2, <2>1, WatermarkAssumption DEF LagInv, LagsOneBatch
<1>3. CASE PublishWatermark
  <2>1. CASE since_watermark >= WATERMARK_HEAD_RECORDS
    BY <1>2, <1>3, <2>1 DEF PublishWatermark
  <2>2. CASE ~(since_watermark >= WATERMARK_HEAD_RECORDS)
    <3>1. since_watermark < WATERMARK_HEAD_RECORDS
      BY <2>2, WatermarkAssumption DEF WmInv, WmTypeOK
    <3>2. UNCHANGED <<shared_head, since_watermark, local_head, ring_live>>
      BY <1>3, <2>2 DEF PublishWatermark
    <3> QED BY <3>1, <3>2 DEF LagInv, LagsOneBatch, LapStart
  <2> QED BY <2>1, <2>2
<1>4. CASE NoRoom
  <2>1. CASE shared_head' = local_head /\ since_watermark' = 0
    BY <1>2, <1>4, <2>1 DEF NoRoom
  <2>2. CASE UNCHANGED <<shared_head, since_watermark>>
    <3>1. UNCHANGED <<local_head, ring_live>> /\ wmpc # "publish"
      BY <1>4 DEF NoRoom
    <3> QED BY <2>2, <3>1 DEF LagInv, LagsOneBatch, LapStart
  <2> QED BY <1>4, <2>1, <2>2 DEF NoRoom
<1>5. CASE Exit \/ MarkDead \/ FlushDead \/ FlushDeadStore
  <2>1. ~ring_live'
    BY <1>5 DEF Exit, MarkDead, FlushDead, FlushDeadStore, WmInv, GoneInv
  <2> QED BY <2>1 DEF LagInv, LagsOneBatch
<1>6. CASE \/ Call \/ PassLive \/ LoadHead \/ StoreTailSeen
           \/ UNCHANGED watermarkVars
  <2>1. /\ UNCHANGED <<shared_head, since_watermark, local_head, ring_live>>
        /\ wmpc' = "publish" <=> wmpc = "publish"
    BY <1>6 DEF Call, PassLive, LoadHead, StoreTailSeen, watermarkVars
  <2> QED BY <2>1 DEF LagInv, LagsOneBatch, LapStart
<1> QED BY <1>1, <1>3, <1>4, <1>5, <1>6 DEF WatermarkNext

\* A call that finds no room while the drain has consumed all it can see is
\* behind a batch that nearly fills the ring.
LEMMA StallNeedsBatch ==
  ASSUME WmInv, LagInv, Stalled
  PROVE  WmCapacity < (since_watermark + 2) * WmLargest
<1> DEFINE S == WmLargest
           n == wmSize
           F == Filler(wmSize)
           L == local_head
           H == shared_head
           C == WmCapacity
           k == since_watermark * S
<1>1. S \in Nat \ {0} /\ n \in Nat \ {0} /\ n <= S
  BY WatermarkAssumption DEF Stalled, WmInv, WmTypeOK
<1>2. /\ F \in Nat /\ F <= n - 1
      /\ F # 0 => L + F = LapStart(L) + C
  BY <1>1, FillerFacts DEF WmInv
<1>3. /\ L \in Nat /\ H \in Nat /\ since_watermark \in Nat /\ C \in Nat \ {0}
      /\ LapStart(L) \in Nat
  <2>1. L \in Nat /\ H \in Nat /\ since_watermark \in Nat
    BY DEF WmInv, WmTypeOK
  <2> QED BY <2>1, WatermarkAssumption, LapFacts
<1>4. L + F + n - H > C - 1
  BY <1>1, <1>2, <1>3 DEF Room, Stalled
<1>5. /\ H >= LapStart(L) => L - H <= k
      /\ L - H <= k + (S - 1)
  BY DEF LagInv, LagsOneBatch, Stalled
<1>6. k \in Nat /\ (since_watermark + 2) * S = k + S + S
  BY <1>1, <1>3
<1> HIDE DEF F, k
<1> SUFFICES C < k + S + S
  BY <1>6
<1>7. CASE F = 0
  BY <1>1, <1>3, <1>4, <1>5, <1>6, <1>7
<1>8. CASE F # 0 /\ H >= LapStart(L)
  BY <1>1, <1>2, <1>3, <1>4, <1>5, <1>6, <1>8
<1>9. CASE F # 0 /\ H < LapStart(L)
  BY <1>1, <1>2, <1>3, <1>5, <1>6, <1>9
<1> QED BY <1>3, <1>7, <1>8, <1>9

\* WatermarkKeepsUp for a ring of any size: however late publish stores head,
\* and whichever side runs flush_watermark, the drain reads nothing too early,
\* leaves nothing, lags by at most one batch, and sees nothing under a waiting
\* Block call only where that batch and two records overfill the ring.
THEOREM WatermarkCorrect == WatermarkSpec => []WatermarkKeepsUp
<1>1. WatermarkInit => WmInv /\ LagInv
  BY WmInvInit, LagInit
<1>2. WmInv /\ LagInv /\ [WatermarkNext]_watermarkVars => WmInv' /\ LagInv'
  BY WmInvStep, LagStep
<1>3. WmInv /\ LagInv => WatermarkKeepsUp
  <2> SUFFICES ASSUME WmInv, LagInv PROVE WatermarkKeepsUp
    OBVIOUS
  <2>1. NeverAhead /\ NothingLeft
    BY DEF WmInv, WmTypeOK, WmCursorInv, GoneInv, NeverAhead, NothingLeft
  <2>2. LagsOneBatch
    BY DEF LagInv
  <2>3. StallsBehindBatch
    BY StallNeedsBatch DEF StallsBehindBatch
  <2> QED BY <2>1, <2>2, <2>3 DEF WatermarkKeepsUp
<1> QED BY <1>1, <1>2, <1>3, PTL DEF WatermarkSpec
=============================================================================
