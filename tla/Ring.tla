-------------------------------- MODULE Ring --------------------------------
(***************************************************************************)
(* The single-producer single-consumer ring of ring.rs, one slot at a time, *)
(* with the reserve / assemble / publish path of the logging thread and the *)
(* drain_ring_inner pass of the drain thread as two interleaved processes.  *)
(*                                                                          *)
(* Lengths and positions are in slots, not bytes: reserve rounds every      *)
(* record up to a multiple of SLOT_SIZE and every index is such a multiple, *)
(* so "bytes <= capacity - 1" in the code is "slots <= Capacity - 1" here.  *)
(* head and tail are u64 counters that never wrap in practice (2^64 bytes); *)
(* they are naturals.  The Release store / Acquire load pairs on head and   *)
(* tail make every access below atomic and sequentially consistent.         *)
(***************************************************************************)
EXTENDS Integers, Sequences

CONSTANTS
  Capacity,       \* slots in the ring (RingBuffer.capacity / SLOT_SIZE)
  Sizes,          \* the record sizes the program logs, in slots
  Policies,       \* the Backpressure settings considered
  FastTailCache,  \* the settings of the fast-tail-cache feature considered
  MaxCalls        \* bound: how many times the producer calls reserve

ASSUME RingAssumption ==
  /\ Capacity \in Nat \ {0}
  /\ Sizes \subseteq Nat \ {0}
  /\ Policies \subseteq {"Drop", "Block"}
  /\ FastTailCache \subseteq BOOLEAN
  /\ MaxCalls \in Nat

VARIABLES
  policy,      \* the configured Backpressure; never changes
  fast,        \* TRUE in a fast-tail-cache build; never changes
  head,        \* atomic, stored by the producer only
  tail,        \* atomic, stored by the drain only
  tail_cache,  \* producer-private copy of tail
  head_cache,  \* drain-private copy of head
  live,        \* atomic flag, cleared by thread exit or by the guard
  data,        \* the slots
  ppc,         \* where the producer is in reserve / assemble / publish
  psize,       \* the size of the record being logged
  written,     \* slots of it assembled so far
  calls,       \* reserve calls made (bounded by MaxCalls)
  dpc,         \* where the drain is in drain_ring_inner
  dtail,       \* its local `tail`
  dhead,       \* its local `head_cache`
  corrupt,     \* TRUE once a frame was rejected or an empty slot was met
  published,   \* history: number of records published
  delivered,   \* history: the records handed to the sink, in order
  frames       \* history: the published frames the drain has not consumed

config       == <<policy, fast>>
sharedVars   == <<head, tail, live, data>>
producerVars == <<tail_cache, ppc, psize, written, calls>>
drainVars    == <<head_cache, dpc, dtail, dhead, corrupt>>
historyVars  == <<published, delivered, frames>>
vars         == <<config, sharedVars, producerVars, drainVars, historyVars>>

-----------------------------------------------------------------------------
(* Frames and slots.  A record of n slots is a header slot and n - 1 slots  *)
(* of arguments; an END_OF_BUFFER frame writes its header only.  `rec`      *)
(* numbers the published records 1, 2, ...; a torn read shows as a slot     *)
(* that carries another number.                                             *)

Index == 0 .. Capacity - 1

Empty        == [type |-> "empty", size |-> 0, rec |-> 0]
Header(n, r) == [type |-> "log",   size |-> n, rec |-> r]
Body(r)      == [type |-> "body",  size |-> 0, rec |-> r]
Eob(n)       == [type |-> "eob",   size |-> n, rec |-> 0]

Slot == [type : {"empty", "log", "body", "eob"}, size : Nat, rec : Nat]

Frame == [type : {"log", "eob"}, pos : Nat, size : Nat, rec : Nat]

Offset(p) == p % Capacity

-----------------------------------------------------------------------------
(* RingBuffer::reserve.                                                     *)

RemainingPhys_Swapped == Offset(head) - Capacity

RemainingPhys == Capacity - Offset(head)

Wraps(n) == n > RemainingPhys

Needed(n) == IF Wraps(n) THEN n + RemainingPhys ELSE n

\* The position of the record itself: past the filler when it wraps.
RecordStart(n) == IF Wraps(n) THEN head + RemainingPhys ELSE head

NewHead(n) == RecordStart(n) + n

Fits_Full(n, t) == head + Needed(n) - t <= Capacity

Fits_IgnoresNeed(n, t) == head - t <= Capacity - 1

\* The test of try_ensure_capacity against a tail value t.
Fits(n, t) == head + Needed(n) - t <= Capacity - 1

BeginWrite_NoEob(n) == "assemble"

BeginWrite(n) == IF Wraps(n) THEN "eob" ELSE "assemble"

Init ==
  /\ policy \in Policies /\ fast \in FastTailCache
  /\ head = 0 /\ tail = 0 /\ tail_cache = 0 /\ head_cache = 0
  /\ live = TRUE
  /\ data = [i \in Index |-> Empty]
  /\ ppc = "idle" /\ psize = 0 /\ written = 0 /\ calls = 0
  /\ dpc = "idle" /\ dtail = 0 /\ dhead = 0
  /\ corrupt = FALSE
  /\ published = 0 /\ delivered = <<>> /\ frames = {}

\* try_ensure_capacity, fast path: the cached tail already shows room.
ReserveFast(n) ==
  /\ ppc = "idle" /\ calls < MaxCalls
  /\ Fits(n, tail_cache)
  /\ tail_cache' = IF fast THEN tail_cache ELSE tail
  /\ ppc' = BeginWrite(n)
  /\ psize' = n /\ written' = 0 /\ calls' = calls + 1
  /\ UNCHANGED <<config, sharedVars, drainVars, historyVars>>

\* The cached tail shows no room: enter the refresh loop.
ReserveCold(n) ==
  /\ ppc = "idle" /\ calls < MaxCalls
  /\ ~Fits(n, tail_cache)
  /\ ppc' = "refresh"
  /\ psize' = n /\ written' = 0 /\ calls' = calls + 1
  /\ UNCHANGED <<config, sharedVars, tail_cache, drainVars, historyVars>>

Refresh_NoReload ==
  /\ ppc = "refresh"
  /\ ppc' = IF Fits(psize, tail_cache) THEN BeginWrite(psize)
            ELSE IF policy = "Block" THEN "full" ELSE "idle"
  /\ UNCHANGED <<config, sharedVars, tail_cache, psize, written, calls,
                 drainVars, historyVars>>

\* One round of the loop: reload tail; write, drop, or spin.
Refresh ==
  /\ ppc = "refresh"
  /\ tail_cache' = tail
  /\ ppc' = IF Fits(psize, tail) THEN BeginWrite(psize)
            ELSE IF policy = "Block" THEN "full" ELSE "idle"
  /\ UNCHANGED <<config, sharedVars, psize, written, calls, drainVars,
                 historyVars>>

\* Backpressure::Block: back off and try again while the ring is live,
\* give the record up once it is dead.
Spin ==
  /\ ppc = "full"
  /\ ppc' = IF live THEN "refresh" ELSE "idle"
  /\ UNCHANGED <<config, sharedVars, tail_cache, psize, written, calls,
                 drainVars, historyVars>>

WriteEob_AtRecord ==
  /\ ppc = "eob"
  /\ data' = [data EXCEPT ![Offset(RecordStart(psize))] = Eob(RemainingPhys)]
  /\ ppc' = "assemble"
  /\ UNCHANGED <<config, head, tail, live, tail_cache, psize, written, calls,
                 drainVars, historyVars>>

WriteEob ==
  /\ ppc = "eob"
  /\ data' = [data EXCEPT ![Offset(head)] = Eob(RemainingPhys)]
  /\ ppc' = "assemble"
  /\ UNCHANGED <<config, head, tail, live, tail_cache, psize, written, calls,
                 drainVars, historyVars>>

Assemble_HeaderOnly ==
  /\ ppc = "assemble"
  /\ data' = [data EXCEPT ![Offset(RecordStart(psize))] =
                Header(psize, published + 1)]
  /\ written' = psize
  /\ ppc' = "publish"
  /\ UNCHANGED <<config, head, tail, live, tail_cache, psize, calls, drainVars,
                 historyVars>>

\* record::assemble through Reservation::ptr, one slot per step.
Assemble ==
  /\ ppc = "assemble"
  /\ data' = [data EXCEPT ![Offset(RecordStart(psize) + written)] =
                IF written = 0 THEN Header(psize, published + 1)
                               ELSE Body(published + 1)]
  /\ written' = written + 1
  /\ ppc' = IF written + 1 = psize THEN "publish" ELSE "assemble"
  /\ UNCHANGED <<config, head, tail, live, tail_cache, psize, calls, drainVars,
                 historyVars>>

\* The frames a publish makes visible: the filler, if any, and the record.
NewFrames(n) ==
  { [type |-> "log", pos |-> RecordStart(n), size |-> n,
     rec |-> published + 1] }
  \cup
  IF Wraps(n)
  THEN { [type |-> "eob", pos |-> head, size |-> RemainingPhys,
          rec |-> published + 1] }
  ELSE {}

Publish ==
  /\ ppc = "publish"
  /\ head' = NewHead(psize)
  /\ frames' = frames \cup NewFrames(psize)
  /\ published' = published + 1
  /\ ppc' = "idle"
  /\ UNCHANGED <<config, tail, live, data, tail_cache, psize, written, calls,
                 drainVars, delivered>>

\* RingBuffer::set_dead, by the guard or at the end of the thread.
SetDead ==
  /\ live
  /\ live' = FALSE
  /\ UNCHANGED <<config, head, tail, data, producerVars, drainVars, historyVars>>

-----------------------------------------------------------------------------
(* drain_ring_inner.                                                        *)

DrainBegin_NoReload ==
  /\ dpc = "idle"
  /\ dtail' = tail
  /\ dhead' = head_cache
  /\ dpc' = IF dhead' = tail THEN "idle" ELSE "walk"
  /\ UNCHANGED <<config, sharedVars, producerVars, head_cache, corrupt,
                 historyVars>>

\* Start of a pass: reload head only when the cache says "caught up"; an
\* empty ring ends the pass at once.
DrainBegin ==
  /\ dpc = "idle"
  /\ dtail' = tail
  /\ dhead' = IF tail = head_cache THEN head ELSE head_cache
  /\ dpc' = IF dhead' = tail THEN "idle" ELSE "walk"
  /\ UNCHANGED <<config, sharedVars, producerVars, head_cache, corrupt, historyVars>>

\* The validity test of Layer A; a header read out of a body slot is
\* whatever bytes lie there, taken as corrupt.
ValidFrame(slot, off) ==
  /\ slot.type \in {"log", "eob"}
  /\ off + slot.size <= Capacity

\* The bytes of a record of n slots at index `off`: its number if all its
\* slots belong to it, 0 if they do not (a torn record).
Contents(off, n) ==
  LET r == data[off].rec
  IN  IF \A k \in 1 .. n - 1 : data[off + k] = Body(r) THEN r ELSE 0

DrainRecord_NoAdvance ==
  LET off  == Offset(dtail)
      slot == data[off]
  IN  /\ dpc = "walk" /\ dtail < dhead
      /\ slot.type = "log" /\ ValidFrame(slot, off)
      /\ delivered' = Append(delivered, Contents(off, slot.size))
      /\ dpc' = "store"
      /\ UNCHANGED <<config, sharedVars, producerVars, head_cache, dtail, dhead,
                     corrupt, published, frames>>

\* The loop body for a log record: hand it to the sink, step over it.
DrainRecord ==
  LET off  == Offset(dtail)
      slot == data[off]
  IN  /\ dpc = "walk" /\ dtail < dhead
      /\ slot.type = "log" /\ ValidFrame(slot, off)
      /\ delivered' = Append(delivered, Contents(off, slot.size))
      /\ dtail' = dtail + slot.size
      /\ frames' = {f \in frames : f.pos # dtail}
      /\ UNCHANGED <<config, sharedVars, producerVars, head_cache, dpc, dhead,
                     corrupt, published>>

\* The loop body for END_OF_BUFFER and for frames it cannot use: a filler is
\* stepped over, a corrupt frame makes the pass resync to dhead, an empty
\* slot ends it.
DrainOther ==
  LET off  == Offset(dtail)
      slot == data[off]
  IN  /\ dpc = "walk" /\ dtail < dhead
      /\ ~(slot.type = "log" /\ ValidFrame(slot, off))
      /\ frames' = {f \in frames : f.pos # dtail}
      /\ IF slot.type = "eob" /\ ValidFrame(slot, off)
         THEN /\ dtail' = dtail + slot.size
              /\ UNCHANGED <<dpc, corrupt>>
         ELSE /\ dtail' = IF slot.type = "empty" THEN dtail ELSE dhead
              /\ dpc' = "store"
              /\ corrupt' = TRUE
      /\ UNCHANGED <<config, sharedVars, producerVars, head_cache, dhead, published,
                     delivered>>

\* End of the pass: the Release store of tail, and head_cache.
DrainEnd ==
  /\ dpc = "store" \/ (dpc = "walk" /\ dtail >= dhead)
  /\ tail' = dtail
  /\ head_cache' = dhead
  /\ dpc' = "idle"
  /\ UNCHANGED <<config, head, live, data, producerVars, dtail, dhead, corrupt,
                 historyVars>>

-----------------------------------------------------------------------------
Producer ==
  \/ \E n \in Sizes : ReserveFast(n) \/ ReserveCold(n)
  \/ Refresh \/ Spin \/ WriteEob \/ Assemble \/ Publish

Drain == DrainBegin \/ DrainRecord \/ DrainOther \/ DrainEnd

Next == Producer \/ SetDead \/ Drain

Spec == Init /\ [][Next]_vars

\* The drain thread polls for as long as the logger runs, and a log call
\* that has started goes on.  Nothing makes the program log again.
Fairness ==
  /\ WF_vars(Drain)
  /\ WF_vars(Refresh \/ Spin \/ WriteEob \/ Assemble \/ Publish)

FairSpec == Spec /\ Fairness

-----------------------------------------------------------------------------
(* Properties.                                                              *)

TypeOK ==
  /\ policy \in Policies /\ fast \in FastTailCache
  /\ head \in Nat /\ tail \in Nat /\ tail_cache \in Nat /\ head_cache \in Nat
  /\ live \in BOOLEAN
  /\ data \in [Index -> Slot]
  /\ ppc \in {"idle", "refresh", "full", "eob", "assemble", "publish"}
  /\ psize \in Nat /\ written \in Nat /\ calls \in 0 .. MaxCalls
  /\ dpc \in {"idle", "walk", "store"}
  /\ dtail \in Nat /\ dhead \in Nat
  /\ corrupt \in BOOLEAN
  /\ published \in Nat
  /\ delivered \in Seq(Nat)
  /\ frames \subseteq Frame

\* The slots the producer may be writing: from head to the head it will
\* publish (the "data partition" argument above `unsafe impl Sync`).
WriteRegion ==
  IF ppc \in {"eob", "assemble", "publish"} THEN head .. NewHead(psize) - 1
                                            ELSE {}

\* The producer and the drain never hold the same slot: what reserve hands
\* out overlaps nothing the drain may still read, although the room was
\* judged by a cached, possibly stale tail (ring.rs SAFETY, try_ensure_capacity).
DataPartition ==
  \A p \in WriteRegion, q \in tail .. head - 1 : Offset(p) # Offset(q)

\* What the drain has not consumed yet lies in the ring exactly as it was
\* published: no reservation, filler or wrap has touched it.
UnreadIntact ==
  \A f \in frames :
    /\ f.type = "log" =>
         /\ data[Offset(f.pos)] = Header(f.size, f.rec)
         /\ \A k \in 1 .. f.size - 1 : data[Offset(f.pos) + k] = Body(f.rec)
    /\ f.type = "eob" => data[Offset(f.pos)] = Eob(f.size)

\* The sink receives exactly the published records, each once, whole and in
\* the order of publication (drain_ring_inner over every wrap of the ring).
ExactlyOnceInOrder ==
  /\ Len(delivered) <= published
  /\ \A i \in 1 .. Len(delivered) : delivered[i] = i

\* "On a cooperative single-process channel this never fires": the drain
\* never meets an empty slot or a frame it must reject (drain.rs, Layer A).
NoCorruptFrame == ~corrupt

\* The cached cursors are conservative: the producer never believes a slot
\* free before the drain freed it, the drain never reads past head.
CachesConservative ==
  /\ tail_cache <= tail
  /\ tail <= dtail \/ dpc = "idle"
  /\ dpc = "walk" => dtail <= dhead /\ dhead <= head
  /\ head - tail <= Capacity - 1

Waiting == ppc \in {"refresh", "full"}

\* A reserve call that found no room comes back, for every record of at most
\* half the ring: with its filler such a record fits an empty ring, and the
\* drain empties it (try_ensure_capacity, Backpressure::Block and Drop).
HalfRingReserveReturns ==
  (Waiting /\ psize <= Capacity \div 2) ~> (~Waiting)

\* "Under Backpressure::Block this spins until space frees, so it always
\* returns Some" (reserve): space frees, so every waiting call comes back.
\* Does not hold: a record of more than half the ring that must wrap needs
\* its filler too, and the two together may never fit, even an empty ring.
ReserveReturns == Waiting ~> ~Waiting

\* Every published record reaches the sink, also from a ring that is dead.
PublishedIsDelivered ==
  \A n \in 1 .. MaxCalls : (published >= n) ~> (Len(delivered) >= n)

\* The records published and not yet delivered, as the channel's contents.
Pending ==
  [i \in 1 .. published - Len(delivered) |-> Len(delivered) + i]

Channel == INSTANCE RecordChannel WITH
  Bound <- Capacity - 1, chan <- Pending, sent <- published, got <- delivered

\* The ring implements the bounded channel: publish is its Send, the hand-over
\* to the sink its Receive, and every other step of either side is invisible.
ImplementsChannel == Channel!Spec
=============================================================================
