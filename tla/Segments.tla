------------------------------ MODULE Segments ------------------------------
(***************************************************************************)
(* The logger under the segmented policies Quill and NanoLog: a thread that *)
(* fills its segment hands it to the drain and goes on with another one     *)
(* (thread_buf.rs reserve_with_policy, segments.rs), the drain retires and  *)
(* recycles what it has emptied (drain.rs), and a NanoLog thread that finds *)
(* the pool exhausted formats its own segment.                              *)
(*                                                                          *)
(* The registry, the drain's list and the pool are sequences here: their    *)
(* order decides the order of the sink.  Records are one slot each.  A      *)
(* section under a mutex is one step, and so is each access to a shared     *)
(* atomic that another thread's decision depends on.  The sink's flush is   *)
(* module Logger's subject.                                                 *)
(***************************************************************************)
EXTENDS Integers, Sequences, SequencesExt

CONSTANTS
  Threads,     \* the logging threads
  Policies,    \* "Quill", "NanoLog"
  Slots,       \* slots of a segment; it holds Slots - 1 records
  PoolSize,    \* segments of the NanoLog pool
  FreshRings,  \* bound: segments carved with alloc_fresh
  MaxRecords   \* bound: records each thread publishes

ASSUME SegmentsAssumption ==
  /\ Policies \subseteq {"Quill", "NanoLog"}
  /\ Slots \in Nat \ {0, 1}
  /\ PoolSize \in Nat /\ FreshRings \in Nat
  /\ MaxRecords \in [Threads -> Nat]

Rings == 1 .. PoolSize + FreshRings

VARIABLES
  policy,     \* the configured Backpressure; never changes
  ring,       \* the control state and the slots of every segment
  registry,   \* REGISTRY, in order
  serials,    \* NEXT_SERIAL
  fresh,      \* segments carved so far
  spares,     \* Segments.spares, a stack
  lines,      \* Segments.lines
  tpc,        \* where each thread is in reserve_with_policy / take_pooled
  cur,        \* ThreadBuf.ring
  held,       \* the segment claimed but not yet registered; 0: none
  at,         \* Reservation: where the record of a call will be written
  copied,     \* a helper's pass: the records read, its tail, its head
  logged,     \* records published so far, per thread
  shutdown, gpc,
  dpc,        \* where Drain::run is
  final,      \* TRUE in the pass after the loop
  local,      \* Drain.rings: [ring, serial] entries
  finalize,   \* the rings sync_rings has still to drain for the last time
  idx,        \* poll_once's index, from 1
  cursor,     \* the pass in progress: [ring, tail, head]
  sink,       \* the records of each thread the sink has accepted, in order
  owed,       \* history: records of each thread when the guard was dropped
  helped,     \* history: TRUE once a thread has reserved a segment as helper
  slipped,    \* history: TRUE once a thread exited inside sync_rings' scan
  shared      \* history: segments claimed while another thread wrote to them

config     == <<policy>>
poolVars   == <<serials, fresh, spares, lines>>
threadVars == <<tpc, cur, held, at, copied, logged>>
guardVars  == <<shutdown, gpc>>
drainVars  == <<dpc, final, local, finalize, idx, cursor, sink>>
history    == <<owed, helped, slipped, shared>>
vars == <<config, ring, registry, poolVars, threadVars, guardVars, drainVars,
          history>>

-----------------------------------------------------------------------------
(* Segments.                                                                *)

None == 0

\* The elements of s in K, in their order: Iterator::filter and Vec::retain.
Filter(s, K) ==
  LET f[i \in 0 .. Len(s)] ==
        IF i = 0 THEN <<>>
        ELSE IF s[i] \in K THEN Append(f[i - 1], s[i]) ELSE f[i - 1]
  IN  f[Len(s)]

Reset_KeepsReservation(seg) ==
  [seg EXCEPT !.head = 0, !.tail = 0, !.tail_cache = 0, !.head_cache = 0,
              !.draining = FALSE, !.recycled = FALSE, !.handed_off = FALSE,
              !.live = TRUE]

\* reset_for_reuse: everything but the slots and the serial.
Reset(seg) ==
  [seg EXCEPT !.head = 0, !.tail = 0, !.tail_cache = 0, !.head_cache = 0,
              !.helper_reserved = FALSE, !.draining = FALSE,
              !.recycled = FALSE, !.handed_off = FALSE, !.live = TRUE]

NewSegment ==
  [head |-> 0, tail |-> 0, tail_cache |-> 0, head_cache |-> 0,
   helper_reserved |-> FALSE, draining |-> FALSE, recycled |-> FALSE,
   handed_off |-> FALSE, live |-> TRUE, serial |-> 0,
   data |-> [i \in 0 .. Slots - 1 |-> <<>>]]

\* Set in the constructor: only the preallocated pool is recyclable.
Recyclable(r) == r <= PoolSize

\* The u64 difference `head + 1 - t` against the mask: a negative one wraps
\* to a huge value.
Fits(seg, t) == seg.head + 1 - t \in 0 .. Slots - 1

\* drain_ring_inner's head: reloaded when the cache says "caught up".
PassHead(seg) == IF seg.tail = seg.head_cache THEN seg.head ELSE seg.head_cache

SlotAt(seg, p) == seg.data[p % Slots]

\* The records of a pass from tail up to `to`; it stops at an empty slot.
PassRecords(seg, to) ==
  LET stop == {p \in seg.tail .. to - 1 : SlotAt(seg, p) = <<>>}
      end  == IF stop = {} THEN to ELSE Min(stop)
  IN  [i \in 1 .. end - seg.tail |-> SlotAt(seg, seg.tail + i - 1)]

NoPass == [recs |-> <<>>, tail |-> 0, head |-> 0]

Init ==
  /\ policy \in Policies
  /\ ring = [r \in Rings |-> NewSegment]
  /\ registry = <<>> /\ serials = 1 /\ fresh = 0
  /\ spares = IF policy = "NanoLog" THEN [i \in 1 .. PoolSize |-> i] ELSE <<>>
  /\ lines = <<>>
  /\ tpc = [t \in Threads |-> "new"]
  /\ cur = [t \in Threads |-> None] /\ held = [t \in Threads |-> None]
  /\ at = [t \in Threads |-> 0] /\ copied = [t \in Threads |-> NoPass]
  /\ logged = [t \in Threads |-> 0]
  /\ shutdown = FALSE /\ gpc = "held"
  /\ dpc = "top" /\ final = FALSE /\ local = <<>> /\ finalize = <<>> /\ idx = 1
  /\ cursor = [ring |-> None, tail |-> 0, head |-> 0]
  /\ sink = [t \in Threads |-> <<>>]
  /\ owed = [t \in Threads |-> 0] /\ helped = FALSE /\ slipped = FALSE
  /\ shared = {}

\* The registry mutex is free: the drain is not inside sync_rings' section.
Unlocked == dpc \notin {"reconcile", "retain"}

Goto(t, pc) == tpc' = [tpc EXCEPT ![t] = pc]

\* A thread writes to its current segment until it hands it off or exits.
Writing(t) == tpc[t] \in {"idle", "reserve", "publish", "full"}

\* The segments a thread may write to: the one it has claimed, and its current
\* one while it is writing there.
Owns(t) ==
  {r \in Rings : \/ r = held[t]
                 \/ r = cur[t] /\ Writing(t)}

\* alloc_fresh: the next unused segment of the arena.
AllocFresh(t) ==
  /\ fresh < FreshRings
  /\ fresh' = fresh + 1
  /\ held' = [held EXCEPT ![t] = PoolSize + fresh + 1]
  /\ UNCHANGED <<ring, spares, shared>>

\* try_take_spare, when the pool has one: pop the newest and rewind it.
TakeSpare(t) ==
  /\ spares # <<>>
  /\ held' = [held EXCEPT ![t] = Last(spares)]
  /\ ring' = [ring EXCEPT ![Last(spares)] = Reset(@)]
  /\ spares' = Front(spares)
  /\ shared' = IF \E u \in Threads : Last(spares) \in Owns(u)
               THEN shared \cup {Last(spares)} ELSE shared
  /\ UNCHANGED fresh

-----------------------------------------------------------------------------
(* The logging threads.                                                     *)

\* with_thread_buf on the first call: initial_ring.
FirstRing(t) ==
  /\ tpc[t] = "new"
  /\ TakeSpare(t) \/ (spares = <<>> /\ AllocFresh(t))
  /\ Goto(t, "register")
  /\ UNCHANGED <<config, registry, serials, lines, cur, at, copied, logged,
                 guardVars, drainVars, owed, helped, slipped>>

\* register_ring under the lock: a fresh serial, in place if already there.
\* From the first call the thread goes on to log, from a hand-off it retries.
RegisterRing(t) ==
  LET r == held[t]
  IN  /\ tpc[t] = "register" /\ Unlocked
      /\ ring' = [ring EXCEPT ![r].serial = serials]
      /\ serials' = serials + 1
      /\ registry' = IF Contains(registry, r) THEN registry
                                              ELSE Append(registry, r)
      /\ cur' = [cur EXCEPT ![t] = r]
      /\ held' = [held EXCEPT ![t] = None]
      /\ Goto(t, IF cur[t] = None THEN "idle" ELSE "reserve")
      /\ UNCHANGED <<config, fresh, spares, lines, at, copied, logged,
                     guardVars, drainVars, history>>

BeginLog(t) ==
  /\ tpc[t] = "idle" /\ logged[t] < MaxRecords[t]
  /\ Goto(t, "reserve")
  /\ UNCHANGED <<config, ring, registry, poolVars, cur, held, at, copied,
                 logged, guardVars, drainVars, history>>

\* reserve on the current segment: by the cached tail, then by the real one.
\* Both outcomes leave the real tail in the cache.
Reserve(t) ==
  LET seg == ring[cur[t]]
  IN  /\ tpc[t] = "reserve"
      /\ ring' = [ring EXCEPT ![cur[t]].tail_cache = seg.tail]
      /\ at' = [at EXCEPT ![t] = seg.head]
      /\ Goto(t, IF Fits(seg, seg.tail_cache) \/ Fits(seg, seg.tail)
                 THEN "publish" ELSE "full")
      /\ UNCHANGED <<config, registry, poolVars, cur, held, copied, logged,
                     guardVars, drainVars, history>>

\* assemble and publish: by the position the reservation was given.
Publish(t) ==
  /\ tpc[t] = "publish"
  /\ ring' = [ring EXCEPT ![cur[t]] =
                 [@ EXCEPT !.data[at[t] % Slots] = <<t, logged[t] + 1>>,
                           !.head = at[t] + 1]]
  /\ logged' = [logged EXCEPT ![t] = @ + 1]
  /\ at' = [at EXCEPT ![t] = 0]
  /\ Goto(t, "idle")
  /\ UNCHANGED <<config, registry, poolVars, cur, held, copied, guardVars,
                 drainVars, history>>

\* The segment is full: mark_handed_off.
HandOff(t) ==
  /\ tpc[t] = "full"
  /\ ring' = [ring EXCEPT ![cur[t]].handed_off = TRUE]
  /\ at' = [at EXCEPT ![t] = 0]
  /\ Goto(t, IF policy = "Quill" THEN "alloc" ELSE "spare")
  /\ UNCHANGED <<config, registry, poolVars, cur, held, copied, logged,
                 guardVars, drainVars, history>>

\* Quill: carve another segment.
Grow(t) ==
  /\ tpc[t] = "alloc"
  /\ AllocFresh(t)
  /\ Goto(t, "register")
  /\ UNCHANGED <<config, registry, serials, lines, cur, at, copied, logged,
                 guardVars, drainVars, owed, helped, slipped>>

\* NanoLog: claim a spare, from the hand-off or again in take_pooled.
ClaimSpare(t) ==
  /\ tpc[t] \in {"spare", "take"}
  /\ TakeSpare(t)
  /\ Goto(t, "register")
  /\ UNCHANGED <<config, registry, serials, lines, cur, at, copied, logged,
                 guardVars, drainVars, owed, helped, slipped>>

PoolEmpty(t) ==
  /\ tpc[t] \in {"spare", "take"} /\ spares = <<>>
  /\ Goto(t, IF tpc[t] = "spare" THEN "help" ELSE "check")
  /\ UNCHANGED <<config, ring, registry, poolVars, cur, held, at, copied,
                 logged, guardVars, drainVars, history>>

\* Pool exhausted: reserve_for_helper on the thread's own segment.
ReserveForHelper(t) ==
  /\ tpc[t] = "help"
  /\ ring' = [ring EXCEPT ![cur[t]].helper_reserved = TRUE]
  /\ helped' = TRUE
  /\ Goto(t, "spin")
  /\ UNCHANGED <<config, registry, poolVars, cur, held, at, copied, logged,
                 guardVars, drainVars, owed, slipped, shared>>

\* format_segment: wait for the drain to leave the segment.
HelperSpin(t) ==
  /\ tpc[t] = "spin" /\ ~ring[cur[t]].draining
  /\ Goto(t, "format")
  /\ UNCHANGED <<config, ring, registry, poolVars, cur, held, at, copied,
                 logged, guardVars, drainVars, history>>

\* drain_ring_inner on the helper: read everything there is.
HelperFormat(t) ==
  LET seg  == ring[cur[t]]
      recs == PassRecords(seg, PassHead(seg))
  IN  /\ tpc[t] = "format"
      /\ copied' = [copied EXCEPT ![t] =
                      [recs |-> recs, tail |-> seg.tail + Len(recs),
                       head |-> PassHead(seg)]]
      /\ Goto(t, "queue")
      /\ UNCHANGED <<config, ring, registry, poolVars, cur, held, at, logged,
                     guardVars, drainVars, history>>

\* Its end stores tail and head_cache; push_lines queues what was read.
HelperQueue(t) ==
  /\ tpc[t] = "queue"
  /\ ring' = [ring EXCEPT ![cur[t]].tail = copied[t].tail,
                          ![cur[t]].head_cache = copied[t].head]
  /\ lines' = lines \o copied[t].recs
  /\ copied' = [copied EXCEPT ![t] = NoPass]
  /\ Goto(t, "recycle")
  /\ UNCHANGED <<config, registry, serials, fresh, spares, cur, held, at,
                 logged, guardVars, drainVars, history>>

\* recycle: push and notify_all.
Notified(pcs) ==
  [t \in Threads |-> IF pcs[t] = "wait" THEN "woken" ELSE pcs[t]]

\* reset_for_reuse, then recycle, without looking at recycled.
HelperRecycle(t) ==
  /\ tpc[t] = "recycle"
  /\ ring' = [ring EXCEPT ![cur[t]] = Reset(@)]
  /\ spares' = Append(spares, cur[t])
  /\ tpc' = [Notified(tpc) EXCEPT ![t] = "take"]
  /\ UNCHANGED <<config, registry, serials, fresh, lines, cur, held, at,
                 copied, logged, guardVars, drainVars, history>>

\* take_pooled with no spare: give up if the segment is dead, else wait on
\* the condition variable.  The record of a call that gives up is discarded.
CheckLive(t) ==
  /\ tpc[t] = "check"
  /\ Goto(t, IF ring[cur[t]].live THEN "wait" ELSE "idle")
  /\ UNCHANGED <<config, ring, registry, poolVars, cur, held, at, copied,
                 logged, guardVars, drainVars, history>>

\* Woken, with the pool locked again: pop a spare or start over.
Woken(t) ==
  /\ tpc[t] = "woken"
  /\ \/ TakeSpare(t) /\ Goto(t, "register")
     \/ /\ spares = <<>>
        /\ Goto(t, "take")
        /\ UNCHANGED <<ring, spares, fresh, held, shared>>
  /\ UNCHANGED <<config, registry, serials, lines, cur, at, copied, logged,
                 guardVars, drainVars, owed, helped, slipped>>

\* Drop for ThreadBuf: no lock is taken, and its helper slot is always empty
\* between two calls.
ThreadExit(t) ==
  /\ tpc[t] = "idle"
  /\ ring' = [ring EXCEPT ![cur[t]].live = FALSE]
  /\ Goto(t, "exited")
  /\ slipped' = (slipped \/ dpc = "reconcile")
  /\ UNCHANGED <<config, registry, poolVars, cur, held, at, copied, logged,
                 guardVars, drainVars, owed, helped, shared>>

-----------------------------------------------------------------------------
(* Drop for Guard.                                                          *)

GuardWalk ==
  /\ gpc = "held" /\ Unlocked
  /\ gpc' = "walked"
  /\ ring' = [r \in Rings |->
                [ring[r] EXCEPT !.live = @ /\ ~Contains(registry, r)]]
  /\ owed' = logged
  /\ UNCHANGED <<config, registry, poolVars, threadVars, shutdown, drainVars,
                 helped, slipped, shared>>

GuardSignal ==
  /\ gpc = "walked"
  /\ shutdown' = TRUE
  /\ gpc' = "joining"
  /\ UNCHANGED <<config, ring, registry, poolVars, threadVars, drainVars,
                 history>>

GuardJoin ==
  /\ gpc = "joining" /\ dpc = "done"
  /\ gpc' = "dropped"
  /\ UNCHANGED <<config, ring, registry, poolVars, threadVars, shutdown,
                 drainVars, history>>

-----------------------------------------------------------------------------
(* The drain thread.                                                        *)

others == <<config, poolVars, threadVars, guardVars, history>>

Top_NoFinalSync ==
  /\ dpc = "top"
  /\ final' = shutdown
  /\ dpc' = IF shutdown THEN "poll" ELSE "sync"
  /\ UNCHANGED <<others, ring, registry, local, finalize, idx, cursor, sink>>

Top_IgnoresShutdown ==
  /\ dpc = "top"
  /\ dpc' = "sync"
  /\ UNCHANGED <<others, ring, registry, final, local, finalize, idx, cursor,
                 sink>>

\* Segmented policies re-scan the registry on every pass.
Top ==
  /\ dpc = "top"
  /\ final' = shutdown
  /\ dpc' = "sync"
  /\ UNCHANGED <<others, ring, registry, local, finalize, idx, cursor, sink>>

\* A registration sync_rings keeps.
Keep(r) == ring[r].live \/ ring[r].helper_reserved

Entry(r) == [ring |-> r, serial |-> ring[r].serial]

\* Vec::swap_remove(i): the last element takes the place of the i-th.
SwapRemove(s, i) ==
  Front(IF i = Len(s) THEN s ELSE [s EXCEPT ![i] = Last(s)])

\* The reconcile loop over the local list: an entry still registered and kept
\* stays in place with its serial refreshed, any other is swap-removed.
Reconcile ==
  LET Stays(e) == Contains(registry, e.ring) /\ Keep(e.ring)
      Step(a)  == IF Stays(Head(a.rest))
                  THEN [kept |-> Append(a.kept, Entry(Head(a.rest).ring)),
                        rest |-> Tail(a.rest)]
                  ELSE [a EXCEPT !.rest = SwapRemove(@, 1)]
      loop[n \in 0 .. Len(local)] ==
        IF n = 0 THEN [kept |-> <<>>, rest |-> local] ELSE Step(loop[n - 1])
  IN  loop[Len(local)].kept

LocalRings(s) == [i \in DOMAIN s |-> s[i].ring]

\* sync_rings takes the lock and sets the rings to close aside for a last
\* drain: those of the registry, then stray ones of the local list.
SyncFilter ==
  LET gone == {r \in Rings : ~Keep(r)}
  IN  /\ dpc = "sync"
      /\ finalize' = Filter(registry, gone)
                     \o Filter(LocalRings(local), gone \ ToSet(registry))
      /\ dpc' = "reconcile"
      /\ UNCHANGED <<others, ring, registry, final, local, idx, cursor, sink>>

\* It reconciles the local list and adds the new registrations, in order.
SyncReconcile ==
  LET known == ToSet(LocalRings(Reconcile))
      added == Filter(registry, {r \in Rings : Keep(r)} \ known)
  IN  /\ dpc = "reconcile"
      /\ local' = Reconcile \o [i \in DOMAIN added |-> Entry(added[i])]
      /\ dpc' = "retain"
      /\ UNCHANGED <<others, ring, registry, final, finalize, idx, cursor, sink>>

\* It forgets what is not kept from the registry, and unlocks.
SyncRetain ==
  /\ dpc = "retain"
  /\ registry' = Filter(registry, {r \in Rings : Keep(r)})
  /\ dpc' = "finalize"
  /\ UNCHANGED <<others, ring, final, local, finalize, idx, cursor, sink>>

\* The next ring of the finalize loop, or the start of poll_once.
Finalize ==
  /\ dpc = "finalize"
  /\ IF finalize = <<>>
     THEN /\ dpc' = "poll" /\ idx' = 1
          /\ UNCHANGED <<finalize, cursor>>
     ELSE /\ dpc' = "drain"
          /\ cursor' = [cursor EXCEPT !.ring = Head(finalize)]
          /\ UNCHANGED <<finalize, idx>>
  /\ UNCHANGED <<others, ring, registry, final, local, sink>>

InFinalize == finalize # <<>>

\* poll_once at entry idx: skip a reincarnated or helper-reserved segment.
PollEntry ==
  /\ dpc = "poll" /\ idx <= Len(local)
  /\ LET e == local[idx]
     IN  IF ring[e.ring].serial # e.serial \/ ring[e.ring].helper_reserved
         THEN idx' = idx + 1 /\ UNCHANGED <<dpc, cursor>>
         ELSE /\ dpc' = "drain"
              /\ cursor' = [cursor EXCEPT !.ring = e.ring]
              /\ UNCHANGED idx
  /\ UNCHANGED <<others, ring, registry, final, local, finalize, sink>>

\* drain_ring: mark_draining, then the start of drain_ring_inner.
DrainRing ==
  LET r == cursor.ring
  IN  /\ dpc = "drain"
      /\ ring' = [ring EXCEPT ![r].draining = TRUE]
      /\ cursor' = [ring |-> r, tail |-> ring[r].tail,
                    head |-> PassHead(ring[r])]
      /\ dpc' = IF ring[r].tail = PassHead(ring[r]) THEN "clear" ELSE "walk"
      /\ UNCHANGED <<others, registry, final, local, finalize, idx, sink>>

\* One record to the sink.
Deliver ==
  LET rec == SlotAt(ring[cursor.ring], cursor.tail)
  IN  /\ dpc = "walk" /\ cursor.tail < cursor.head /\ rec # <<>>
      /\ sink' = [sink EXCEPT ![rec[1]] = Append(@, rec[2])]
      /\ cursor' = [cursor EXCEPT !.tail = @ + 1]
      /\ UNCHANGED <<others, ring, registry, dpc, final, local, finalize, idx>>

StoreTail_Missing ==
  /\ dpc = "walk"
  /\ \/ cursor.tail >= cursor.head
     \/ SlotAt(ring[cursor.ring], cursor.tail) = <<>>
  /\ dpc' = "clear"
  /\ UNCHANGED <<others, ring, registry, final, local, finalize, idx, cursor,
                 sink>>

StoreTail ==
  LET r == cursor.ring
  IN  /\ dpc = "walk"
      /\ cursor.tail >= cursor.head \/ SlotAt(ring[r], cursor.tail) = <<>>
      /\ ring' = [ring EXCEPT ![r].tail = cursor.tail,
                              ![r].head_cache = cursor.head]
      /\ dpc' = "clear"
      /\ UNCHANGED <<others, registry, final, local, finalize, idx, cursor,
                     sink>>

\* clear_draining, and on to drain_recycle (finalize) or maybe_retire (poll).
ClearDraining ==
  /\ dpc = "clear"
  /\ ring' = [ring EXCEPT ![cursor.ring].draining = FALSE]
  /\ dpc' = IF InFinalize THEN "recycle" ELSE "check"
  /\ UNCHANGED <<others, registry, final, local, finalize, idx, cursor, sink>>

RetireCheck_NotEmpty ==
  LET e   == local[idx]
      seg == ring[e.ring]
      ok  == seg.handed_off /\ ~seg.helper_reserved /\ seg.serial = e.serial
  IN  /\ dpc = "check"
      /\ dpc' = IF ok THEN "retire" ELSE "poll"
      /\ idx' = IF ok THEN idx ELSE idx + 1
      /\ UNCHANGED <<others, ring, registry, final, local, finalize, cursor,
                     sink>>

RetireCheck_InUse ==
  LET e   == local[idx]
      seg == ring[e.ring]
      ok  == /\ ~seg.helper_reserved
             /\ seg.serial = e.serial /\ seg.head = seg.tail
  IN  /\ dpc = "check"
      /\ dpc' = IF ok THEN "retire" ELSE "poll"
      /\ idx' = IF ok THEN idx ELSE idx + 1
      /\ UNCHANGED <<others, ring, registry, final, local, finalize, cursor,
                     sink>>

\* maybe_retire without the lock: handed off, unreserved, the same
\* incarnation, and empty.
RetireCheck ==
  LET e   == local[idx]
      seg == ring[e.ring]
      ok  == /\ seg.handed_off /\ ~seg.helper_reserved
             /\ seg.serial = e.serial /\ seg.head = seg.tail
  IN  /\ dpc = "check"
      /\ dpc' = IF ok THEN "retire" ELSE "poll"
      /\ idx' = IF ok THEN idx ELSE idx + 1
      /\ UNCHANGED <<others, ring, registry, final, local, finalize, cursor,
                     sink>>

Retire_StaysRegistered ==
  LET e  == local[idx]
      ok == ring[e.ring].serial = e.serial /\ Contains(registry, e.ring)
  IN  /\ dpc = "retire"
      /\ local' = IF ok THEN SwapRemove(local, idx) ELSE local
      /\ dpc' = IF ok THEN "recycle" ELSE "poll"
      /\ idx' = IF ok THEN idx ELSE idx + 1
      /\ UNCHANGED <<others, ring, registry, final, finalize, cursor, sink>>

\* maybe_retire under the lock: the same incarnation still, and registered.
Retire ==
  LET e  == local[idx]
      ok == ring[e.ring].serial = e.serial /\ Contains(registry, e.ring)
  IN  /\ dpc = "retire"
      /\ registry' = IF ok THEN Filter(registry, Rings \ {e.ring}) ELSE registry
      /\ local' = IF ok THEN SwapRemove(local, idx) ELSE local
      /\ dpc' = IF ok THEN "recycle" ELSE "poll"
      /\ idx' = IF ok THEN idx ELSE idx + 1
      /\ UNCHANGED <<others, ring, final, finalize, cursor, sink>>

\* drain_recycle: a pool segment not marked recycled yet goes back.
DrainRecycle ==
  LET r  == cursor.ring
      ok == Recyclable(r) /\ ~ring[r].recycled
  IN  /\ dpc = "recycle"
      /\ ring' = [ring EXCEPT ![r].recycled = @ \/ Recyclable(r)]
      /\ spares' = IF ok THEN Append(spares, r) ELSE spares
      /\ tpc' = IF ok THEN Notified(tpc) ELSE tpc
      /\ finalize' = IF InFinalize THEN Tail(finalize) ELSE finalize
      /\ dpc' = IF InFinalize THEN "finalize" ELSE "poll"
      /\ UNCHANGED <<config, registry, serials, fresh, lines, cur, held, at,
                     copied, logged, guardVars, history, final, local, idx, cursor,
                     sink>>

\* The end of poll_once: take_lines to the sink; then the loop, or the end.
TakeLines ==
  LET Of(t) == LET mine == Filter(lines, {t} \X Nat)
               IN  [i \in DOMAIN mine |-> mine[i][2]]
  IN  /\ dpc = "poll" /\ idx > Len(local)
      /\ sink' = [t \in Threads |-> sink[t] \o Of(t)]
      /\ lines' = <<>>
      /\ dpc' = IF final THEN "done" ELSE "top"
      /\ cursor' = [ring |-> None, tail |-> 0, head |-> 0]
      /\ idx' = 1
      /\ UNCHANGED <<config, ring, registry, serials, fresh, spares,
                     threadVars, guardVars, history, final, local, finalize>>

-----------------------------------------------------------------------------
InCall(t) ==
  \/ RegisterRing(t) \/ Reserve(t) \/ Publish(t) \/ HandOff(t) \/ Grow(t)
  \/ ClaimSpare(t) \/ PoolEmpty(t) \/ ReserveForHelper(t) \/ HelperSpin(t)
  \/ HelperFormat(t) \/ HelperQueue(t) \/ HelperRecycle(t) \/ CheckLive(t)
  \/ Woken(t)

Thread(t) == FirstRing(t) \/ BeginLog(t) \/ InCall(t) \/ ThreadExit(t)

Guard == GuardWalk \/ GuardSignal \/ GuardJoin

Drain ==
  \/ Top \/ SyncFilter \/ SyncReconcile \/ SyncRetain
  \/ Finalize \/ PollEntry \/ DrainRing \/ Deliver
  \/ StoreTail \/ ClearDraining \/ RetireCheck \/ Retire \/ DrainRecycle
  \/ TakeLines

Next == (\E t \in Threads : Thread(t)) \/ Guard \/ Drain

Spec == Init /\ [][Next]_vars

\* The drain runs until it returns; a log call or a guard drop that has
\* started goes on.  Nothing makes a thread log or exit, or drops the guard.
Fairness ==
  /\ WF_vars(Drain)
  /\ \A t \in Threads : WF_vars(InCall(t))
  /\ WF_vars(GuardSignal \/ GuardJoin)

FairSpec == Spec /\ Fairness

-----------------------------------------------------------------------------
(* Properties.                                                              *)

\* "Exactly one worker formats each handed-off segment" (RingBuffer, ring.rs):
\* no record reaches the sink twice.  Does not hold under NanoLog: poll_once
\* looks at helper_reserved before mark_draining, the helper looks at
\* draining after it reserves, and both can go ahead.
AtMostOnce ==
  \A t \in Threads : \A i, j \in DOMAIN sink[t] :
    i # j => sink[t][i] # sink[t][j]

\* As long as no thread formats its own segment, and so always under Quill,
\* no record reaches the sink twice: not by the last drain of a dead segment
\* and a poll of it, not through a stale list entry of a reused one.  The other
\* exception is a thread that logs on after the guard's walk, whose segment
\* sync_rings recycles: once another thread claims it, two threads write to it.
DrainedOnce == (~helped /\ shared = {}) => AtMostOnce

\* What the drain owes t: before the guard is dropped all it has published,
\* afterwards what it had published when the guard walked the registry.
Owes(t) == 1 .. IF gpc = "held" THEN logged[t] ELSE owed[t]

Behind(t) == ~(Owes(t) \subseteq ToSet(sink[t]))

\* When the drain has stopped, no record published before the guard was
\* dropped is missing: no segment was retired, recycled or forgotten with
\* records in it ("records are never dropped, only delayed", segments.rs),
\* but by a helper, or because its thread exited inside sync_rings' scan.
StoppedMeansDelivered ==
  (dpc = "done" /\ ~helped /\ ~slipped) => \A t \in Threads : ~Behind(t)

\* "Must only be called when no thread is reading or writing the ring"
\* (reset_for_reuse, at every claim): while the guard is held and no thread
\* acts as helper, a spare is parked once, and no segment is at the same time
\* a spare, or another thread's, and a thread's own.
PoolExclusive ==
  (~helped /\ gpc = "held") =>
    /\ IsInjective(spares)
    /\ \A t \in Threads :
         /\ Owns(t) \cap ToSet(spares) = {}
         /\ \A u \in Threads \ {t} : Owns(t) \cap Owns(u) = {}

\* "Strict per-thread record order is guaranteed for the Quill policy"
\* (segments.rs).  Does not hold: swap_remove in maybe_retire moves the newest
\* segment before older ones, and the last segment of a thread that exits is
\* drained by sync_rings before its handed-off ones are polled.
PerThreadOrder ==
  \A t \in Threads : \A i, j \in DOMAIN sink[t] :
    i < j => sink[t][i] < sink[t][j]

\* Every record published while the guard is held reaches the sink, over
\* every hand-off, exit and shutdown, unless a thread has acted as helper or
\* has exited inside sync_rings' scan.
BacklogIsDelivered ==
  \A t \in Threads : Behind(t) ~> (~Behind(t) \/ helped \/ slipped)

\* A handed-off segment leaves the registry (or is claimed anew), "so their
\* control objects don't accumulate" (poll_once).
HandedOffIsRetired ==
  \A r \in Rings :
    (gpc = "held" /\ ring[r].handed_off /\ Contains(registry, r))
      ~> (~ring[r].handed_off \/ ~Contains(registry, r))

\* "The entry is never skipped forever" (poll_once): a segment reserved by a
\* helper is released, and the helper never waits for ever on `draining`.
ReservationEnds ==
  \A r \in Rings : ring[r].helper_reserved ~> ~ring[r].helper_reserved

\* Guard::drop comes back: no reservation, empty pool or waiting helper can
\* hold up the drain's final pass.
GuardDropReturns == (gpc = "walked") ~> (gpc = "dropped")
=============================================================================
