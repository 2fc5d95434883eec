----------------------------- MODULE Watermark ------------------------------
(***************************************************************************)
(* One ring in the watermark-head build: the producer keeps its position to *)
(* itself (local_head) and stores head, which the drain reads, only once    *)
(* per WATERMARK_HEAD_RECORDS publishes, when it hands a full segment off,  *)
(* and, once the ring is dead, through the drain, which then reads the      *)
(* producer's private position itself.                                      *)
(*                                                                          *)
(* Positions count slots.  What lies in the slots is Ring's subject: here a *)
(* publish is one step with its reservation, and a pass of the drain        *)
(* consumes all it sees.                                                    *)
(***************************************************************************)
EXTENDS Integers

CONSTANTS
  WmCapacity,              \* slots in the ring
  WmSizes,                 \* record sizes in slots
  WmLargest,               \* the largest of them
  WmCalls,                 \* bound: records the thread logs
  WATERMARK_HEAD_RECORDS   \* 1000 in the code

ASSUME WatermarkAssumption ==
  /\ {WmCapacity, WmLargest, WATERMARK_HEAD_RECORDS} \subseteq Nat \ {0}
  /\ WmSizes \subseteq 1 .. WmLargest /\ WmCalls \in Nat

VARIABLES
  wmPolicy,         \* Drop, Block or a segmented policy
  shared_head,      \* RingBuffer.head
  local_head,       \* producer-private position, read by the drain when dead
  since_watermark,  \* producer-private count, reset by the drain when dead
  ring_tail,        \* RingBuffer.tail
  seen_head,        \* the drain's head_cache
  ring_live,        \* RingBuffer.live
  gone,             \* the thread exited or handed the ring off: it publishes no more
  wmpc, wmSize,     \* where the thread is, and the record it logs
  wdpc, wmRead,     \* where the drain is, and the local_head it read
  wmLeft,           \* records still to log
  began, quiet      \* history: the pass began after `gone`; such a pass found nothing

watermarkVars == <<wmPolicy, shared_head, local_head, since_watermark, ring_tail, seen_head,
                   ring_live, gone, wmpc, wmSize, wdpc, wmRead, wmLeft, began, quiet>>

threadVars == <<gone, wmpc, wmSize, wmLeft>>
passVars   == <<ring_tail, seen_head, wdpc, wmRead, began, quiet>>

-----------------------------------------------------------------------------
\* reserve works from producer_head, which is local_head in this build.
ToPhysicalEnd == WmCapacity - (local_head % WmCapacity)
Filler(n)     == IF n > ToPhysicalEnd THEN ToPhysicalEnd ELSE 0
Room(n)       == local_head + Filler(n) + n - ring_tail <= WmCapacity - 1

WatermarkInit ==
  /\ wmPolicy \in {"Drop", "Block", "Quill"}
  /\ shared_head = 0 /\ local_head = 0 /\ since_watermark = 0 /\ ring_tail = 0 /\ seen_head = 0
  /\ ring_live = TRUE /\ gone = FALSE
  /\ wmpc = "idle" /\ wmSize = 0 /\ wmLeft = WmCalls
  /\ wdpc = "idle" /\ wmRead = 0 /\ began = FALSE /\ quiet = FALSE

\* A log call reaches reserve.
Call ==
  /\ wmpc = "idle" /\ ~gone /\ wmLeft > 0
  /\ \E n \in WmSizes : wmSize' = n
  /\ wmpc' = "reserve" /\ wmLeft' = wmLeft - 1
  /\ UNCHANGED <<wmPolicy, shared_head, local_head, since_watermark, ring_live, gone, passVars>>

\* There is room: the record is written, and publish moves the private
\* position and the count.
PublishLocal ==
  /\ wmpc = "reserve" /\ Room(wmSize)
  /\ local_head' = local_head + Filler(wmSize) + wmSize
  /\ since_watermark' = since_watermark + 1
  /\ wmpc' = "publish"
  /\ UNCHANGED <<wmPolicy, shared_head, ring_live, gone, wmSize, wmLeft, passVars>>

\* The rest of publish: flush_watermark when the count is reached.
PublishWatermark ==
  /\ wmpc = "publish"
  /\ IF since_watermark >= WATERMARK_HEAD_RECORDS
     THEN shared_head' = local_head /\ since_watermark' = 0
     ELSE UNCHANGED <<shared_head, since_watermark>>
  /\ wmpc' = "idle"
  /\ UNCHANGED <<wmPolicy, local_head, ring_live, gone, wmSize, wmLeft, passVars>>

\* No room: Drop gives the record up, Block does once the ring is dead (and
\* spins before), Quill publishes the watermark and hands the segment off.
NoRoom ==
  /\ wmpc = "reserve" /\ ~Room(wmSize)
  /\ \/ /\ wmPolicy = "Drop" \/ (wmPolicy = "Block" /\ ~ring_live)
        /\ UNCHANGED <<shared_head, since_watermark, gone>>
     \/ /\ wmPolicy = "Quill"
        /\ shared_head' = local_head /\ since_watermark' = 0 /\ gone' = TRUE
  /\ wmpc' = "idle"
  /\ UNCHANGED <<wmPolicy, local_head, ring_live, wmSize, wmLeft, passVars>>

\* ThreadBuf::drop at the end of the thread.
Exit ==
  /\ wmpc = "idle" /\ ~gone
  /\ gone' = TRUE /\ ring_live' = FALSE
  /\ UNCHANGED <<wmPolicy, shared_head, local_head, since_watermark, wmpc, wmSize, wmLeft, passVars>>

\* Guard::drop marks the ring dead while the thread may still log.
MarkDead ==
  /\ ring_live /\ ring_live' = FALSE
  /\ UNCHANGED <<wmPolicy, shared_head, local_head, since_watermark, threadVars, passVars>>

FlushDead_Skipped ==
  /\ wdpc = "idle" /\ ~ring_live
  /\ began' = gone /\ wdpc' = "load"
  /\ UNCHANGED <<wmPolicy, shared_head, local_head, since_watermark, ring_live, threadVars,
                 ring_tail, seen_head, wmRead, quiet>>

\* drain_ring_inner on a dead ring: flush_watermark by the drain, which resets
\* the producer's count and reads its position, then stores head.  The count
\* is a plain cell: while the thread of a ring the guard marked dead is in a
\* call, its own `+= 1` can overwrite the reset.
FlushDead ==
  /\ wdpc = "idle" /\ ~ring_live
  /\ since_watermark' \in {0} \cup (IF wmpc = "idle" THEN {} ELSE {since_watermark})
  /\ wmRead' = local_head
  /\ began' = gone /\ wdpc' = "store"
  /\ UNCHANGED <<wmPolicy, shared_head, local_head, ring_live, threadVars, ring_tail, seen_head, quiet>>

FlushDeadStore ==
  /\ wdpc = "store"
  /\ shared_head' = wmRead
  /\ wdpc' = "load"
  /\ UNCHANGED <<wmPolicy, local_head, since_watermark, ring_live, threadVars, ring_tail, seen_head,
                 wmRead, began, quiet>>

PassLive ==
  /\ wdpc = "idle" /\ ring_live
  /\ began' = gone /\ wdpc' = "load"
  /\ UNCHANGED <<wmPolicy, shared_head, local_head, since_watermark, ring_live, threadVars,
                 ring_tail, seen_head, wmRead, quiet>>

\* The cached head, reloaded when it shows nothing.
LoadHead ==
  /\ wdpc = "load"
  /\ seen_head' = IF ring_tail = seen_head THEN shared_head ELSE seen_head
  /\ wdpc' = IF seen_head' = ring_tail THEN "idle" ELSE "walk"
  /\ quiet' = (quiet \/ (began /\ seen_head' = ring_tail))
  /\ UNCHANGED <<wmPolicy, shared_head, local_head, since_watermark, ring_live, threadVars,
                 ring_tail, wmRead, began>>

\* The records up to it are consumed and tail is stored.
StoreTailSeen ==
  /\ wdpc = "walk"
  /\ ring_tail' = seen_head
  /\ wdpc' = "idle"
  /\ UNCHANGED <<wmPolicy, shared_head, local_head, since_watermark, ring_live, threadVars,
                 seen_head, wmRead, began, quiet>>

WatermarkNext ==
  \/ Call \/ PublishLocal \/ PublishWatermark \/ NoRoom \/ Exit \/ MarkDead
  \/ FlushDead \/ FlushDeadStore \/ PassLive \/ LoadHead \/ StoreTailSeen

WatermarkSpec == WatermarkInit /\ [][WatermarkNext]_watermarkVars

-----------------------------------------------------------------------------
(* Properties.                                                              *)

NeverAhead == {ring_tail, seen_head, shared_head} \subseteq 0 .. local_head

NothingLeft == quiet => ring_tail = local_head

\* Head lags behind by less than a batch of records and the filler of one lap.
LagsOneBatch ==
  ring_live =>
    /\ since_watermark < WATERMARK_HEAD_RECORDS
         \/ (wmpc = "publish" /\ since_watermark = WATERMARK_HEAD_RECORDS)
    /\ local_head - shared_head <= since_watermark * WmLargest + (WmLargest - 1)

\* A Block call waits, and the drain sees nothing that could make room for it.
Stalled ==
  /\ wmpc = "reserve" /\ wmPolicy = "Block" /\ ring_live /\ ~Room(wmSize)
  /\ ring_tail = shared_head

StallsBehindBatch == Stalled => WmCapacity < (since_watermark + 2) * WmLargest

\* What the lagging head costs, whatever the ring's size: the drain never reads
\* past what was published, even when it stores head itself while the thread
\* of a ring marked dead goes on logging; after the last publish of a thread
\* that exited or handed the ring off, a pass that finds nothing has left
\* nothing; head lags by at most one batch while the ring is live; and a Block
\* call waits with nothing for the drain to see only if the unpublished batch
\* and two records of the largest size overfill the ring, so never in a ring
\* for WATERMARK_HEAD_RECORDS + 1 of them (publish, flush_watermark,
\* drain_ring_inner).
WatermarkKeepsUp == NeverAhead /\ NothingLeft /\ LagsOneBatch /\ StallsBehindBatch
=============================================================================
