# ticklog: TLA+ models, model checking and proofs

ticklog is a low-latency asynchronous logger. A logging thread encodes a record
into a ring of its own and returns; one drain thread walks all rings, renders
the lines and hands them to a sink; a `Guard` stops the drain when it is
dropped. This directory models the concurrent core of that design and the way
of a record around it (configuration, codec, rendering, timestamps, sinks),
checks both with TLC on small instances, and proves with TLAPS what the runs
show of the rings, the logger, the segment pool, the optional backends, the
configuration and the sinks for every size and number of threads, records, callers
and sinks, and of the codec, the timestamps, the integers, the format specs and
the messages for every call, instant, number and text. Paths below
are relative to the repository (`src/ring.rs` is the file `src/src/ring.rs` of
this tree).

## 1. The system

| Component | State | Operations | Interacts with |
|---|---|---|---|
| SPSC ring (`ring.rs`) | `head`, `tail` (atomics), `tail_cache`, `head_cache`, `live`, the slots; for segments also `handed_off`, `helper_reserved`, `draining`, `recycled`, `serial` | `reserve`, `publish`, `write_eob`, `set_dead`, `reset_for_reuse` | written by its thread, read by the drain, killed by thread exit or guard |
| Thread buffers (`thread_buf.rs`, `macros.rs`) | thread-local ring, re-entrancy flag, cached name and id, assembly scratch | first-call registration, `dispatch`, `reserve_with_policy`, drop at thread exit | global `REGISTRY` (mutex), rings, segment pool |
| Drain (`drain.rs`) | local ring list, cadence counter, `dirty`, `had_work` | `run`, `sync_rings`, `poll_once`, `drain_ring`, `maybe_retire`, `flush_sink` | registry, rings, pool, sink, shutdown flag |
| Guard (`guard.rs`) | shutdown flag, join handle | `drop`: mark rings dead, signal, join | registry, drain |
| Segment pool (`segments.rs`) | `spares`, `lines`, a condition variable, the arena | `try_take_spare`, `take_pooled`, `recycle`, `alloc_fresh`, `format_helper_segment`, `take_lines` | threads, drain |
| Configuration (`builder.rs`, `lib.rs`) | the once-only statics `BACKPRESSURE`, `REGISTRY`, `SEGMENTS`, `RING_CAPACITY` | `configure!` | all |
| Wire codec (`record.rs`, `encode.rs`, decode half of `drain.rs`) | none | `encode`, `write_args`, `assemble`, `Cursor`, `format_arg` | ring slots |
| Line rendering (`format.rs`, part of `drain.rs`) | none | `check_fmt`, `Template::parse`, `interleave`, `render_pattern`, padding | macros, configuration, drain |
| Sinks (`sink/`) | a `BufWriter`, the in-memory stores behind a mutex, levels | `accept`, `accept_raw`, `flush`, `clear` | drain, handles held by other threads |
| FIFO backends (`rtrb_backend.rs`, `ringbuf_backend.rs`, `ringbuffer_backend.rs`, `triple_buffer_backend.rs`) | byte FIFOs, a staged chunk | alternative `reserve`/`publish`, reassembly in the drain | as the ring |
| Timestamps (`timestamp.rs`), levels (`level.rs`) | a calibration, fixed at start | `calibrate`, `ticks_to_ns`, `format_iso8601`; order and names | macros, drain, sinks |
| Back-off, affinity, profiler, errors | none that another part sees | spin hints, one system call, counters, display strings | all |

What is hard to test here: the two ends of a ring run without a lock and judge
room and work by cached cursors; a record may wrap over the physical end behind
a filler; `live` is cleared without the lock that protects the registry; the
guard, the exit of a thread, a registration and the drain's scans meet in any
order; a `Block` call must not outlive the drain; under the segmented policies
ownership of a segment moves between a thread, the drain, a helper and a pool;
under `watermark-head` the drain sees only every thousandth publish, and reads
the thread's private position once the ring is dead. Around the rings: three
scanners read the same format specs and must agree, encoder and decoder share a
layout that no type describes, lengths are cut to 16 bits, the counter wraps, a
write may fail half way through a line, and the statics of `configure!` are set
one after the other while threads may already log.
`PROJECT.json` lists each hazard at its line with the properties that cover it.

## 2. Modules and how they correspond to the code

**`RecordChannel`** is the abstract specification: a bounded first-in first-out
channel of numbered records (`Send`, `Receive`).

**`Ring`** is one ring with its two ends. State: the cursors, both caches, the
slots, and the program counters of the producer (`reserve` ->
`try_ensure_capacity` -> `write_eob` -> `assemble` -> `publish`) and of the drain
(`drain_ring_inner`). A record is written one slot per step and read one frame
per step, so that a write into a region the drain still reads would show as a
torn record. The policy (Drop, Block) and the `fast-tail-cache` build are chosen
in `Init`. Positions count slots: `reserve` rounds all sizes to `SLOT_SIZE`, so
byte inequalities carry over. The loads and stores of `head`, `tail` and `live`
are Acquire/Release (or stronger) in the code and each variable has one writer;
the model treats them as sequentially consistent. The history variable `frames`
remembers what was published and not yet consumed.

**`Logger`** is the whole system under Drop and Block: any number of threads
that register, log, panic inside an `encode`, and exit; the guard's drop in its three
steps; the drain's loop with its cadence, its three-part registry scan, the last
drain of dead rings, the poll, the flush when idle and the final pass. A ring is
two counters here (what `Ring` shows a ring to be). `sync_rings` is split into
`SyncFilter`, `SyncReconcile` and `SyncRetain`, because it reads `live` afresh in
each of them while `ThreadBuf::drop` clears it without the lock; a section that
reads nothing a lock-free step can change is one action. The history variables are
`owed` (what was published when `live` was cleared), `late` (threads that
register after the guard's walk) and `slipped` (threads that exit between the
first and second reading of `live`).

**`Segments`** is the system under Quill and NanoLog: hand-off of a full
segment, growth, the pool as a stack, the helper path of a thread that finds
the pool exhausted, the condition variable, retirement by the drain under the
registry lock, recycling, incarnation serials, and the swap-removes that reorder
the drain's list. Every access to `helper_reserved`, `draining`, `recycled`,
`live`, `head` and `tail` that another thread's decision depends on is a step of
its own. A reservation carries the position it was given (`at`), as `Reservation`
does, and `Publish` writes there and stores the head from it. Registry, list, pool and
lines are sequences because their order is the
order of the sink; `Filter` is `Iterator::filter` and `Vec::retain` over them. The
history variables are `owed`, `helped` (a thread has acted as helper), `slipped` (a
thread exited inside the scan) and `shared` (segments that were claimed while another
thread still wrote to them). The flush is not repeated here. A wait on the condition
variable ends by a notification only; the operating system's spurious wake-ups
would merely repeat the test of the pool.

**`Fifo`** is one ring under the four optional FIFO backends. Bytes are cells
that know which byte of which record they are; a backend differs in its test for
room (rtrb counts the bytes its producer has staged, the triple buffer has one
slot) and in what its library does with a commit (ringbuffer overwrites, ringbuf
truncates, rtrb refuses, a triple buffer replaces). rtrb's chunk is staged record by
record and flushed whole. The drain pops all there is into the one staging
buffer that serves every ring and is cleared before each, and cuts it back into
records.

**`Watermark`** is one ring in the `watermark-head` build: `local_head` and
`since_watermark` belong to the thread, `head` follows every
`WATERMARK_HEAD_RECORDS` publishes, at a hand-off, and through the drain when it
finds the ring dead (`drain.rs:719`). That last flush writes two cells of the
thread. The guard marks rings dead while their threads still log, so this is a
data race: `FlushDead` reads `local_head` and `FlushDeadStore` stores it in
separate steps, and whether the reset of the count survives the thread's
increment is a choice. What lies in the slots, and the caches of the
cursors, are `Ring`'s subject: room is judged by the true tail here.

**`Codec`** is the wire format: tags, sizes, `encode`, `write_args`, `assemble`,
the drop of oversize records, and the drain's `Cursor` with its clamped reads and
all flagged sections. A byte is a number below `ByteBase`, and all layouts and widths
are the code's own. A float is the integer of its bits. Sections that the
current macros never write (source, thread, process, complex) are built by
`LegacySections`, marked external.

**`Format`** is `format.rs`: the macros' compile-time scanner (`validate_fmt`,
`parse_spec_const`), the run-time ones (`validate_spec_rt`, `parse_spec_body`),
`Template::parse`, and padding, precision and radix. A text is a sequence of
symbols, and a field name is one symbol. **`Render`** is the drain's half: `interleave`,
`render_pattern` and `decode_and_format` on the bytes of `Codec`. A slice of
the payload too short for its type is a panic in the code and `Err` here.
**`Timestamp`** is `timestamp.rs`: frequency, calibration, `ticks_to_ns` with the wrap of
the counter, `civil_from_days` with Rust's truncating division, time of day and
zone. **`Line`** puts these together: it grows inputs (format strings, specs,
patterns, calls, values with specs, days) and states, for each kind, what a reader
of the output expects, by a definition that does not mention the code: a
grammar as a set of texts with their meanings, the values that were encoded, a
calendar that counts days.

**`Sinks`** is what stands behind the drain: file, writer, console, null and
in-memory sinks, alone or as children of a `FanOut`, with the levels of
`WithLevel`, the raw path, the flush when idle and the final one. A write to a
destination may transfer a part and fail; `BufWriter` and `write_all` are
external, modelled as the sinks use them. `FanOut::accept` is one step per child,
and a handle may clear an in-memory store between any two. Standard output's
own line buffer counts as the destination. `Trees` is every tree of sinks that can
be configured; the constant `SinkTrees` names the ones of an instance.

**`Configure`** is `__configure_rt` step by step, for callers that race, with
refused requests and a spawn that fails, while a thread registers its ring from
whatever is installed so far. It covers the crate-local and the `fifo-backend` build.

**`RingProofs`** (`Ring` and `Watermark`), **`LoggerProofs`**, **`FifoProofs`**,
**`ConfigureProofs`**, **`SinksProofs`**, **`SegmentsProofs`** and **`LineProofs`**
(`Line`, `Codec`, `Format`, `Render` and `Timestamp`) hold the theorems about the modules they
are named after. **`Lemmas`** has what they share: `LeastNatural`, `Induction` and
`Recursion`, and facts on runs of consecutive record numbers. **`MCLogger`** and
**`MCSegments`** give the constants their values. **`MCOutput`** puts `Line`,
`Sinks`, `Configure` and `Watermark` into one run. They share no variable, so the
variable `running` lets one of them take steps while the others rest: the run
visits the sum of their states, not the product.

Operators whose names end in `_Something` next to a definition (for instance
`Fits_Full` before `Fits`) are plausible mistakes in that definition. Each one
breaks a property that the correct definition satisfies; `PROJECT.json` pairs
them. No specification uses them.

## 3. What the runs show

| Run | Instance | Result |
|---|---|---|
| `ring` | 4 slots, records of 1 to 3 slots, 5 calls, both policies, both builds | holds: the ends never touch the same slot, unread frames stay intact, records come out once, whole, in order; no frame is ever rejected; caches are conservative; waiting calls for records of at most half the ring return; what is published is delivered; `Ring` implements `RecordChannel` |
| `ring_oversize` | as above, Block, 3 calls | **violated**: `reserve` under Block does not always return |
| `logger` | 2 threads (2 and 1 records), room for 1, scan every 2nd pass, Block | holds: order and uniqueness per thread, losses only through the exit window, flushed when stopped, backlog delivered, guard drop returns, registered waiters return |
| `logger_exit_race` | same, Drop | **violated**: a ring is forgotten with records in it |
| `logger_late_waiter` | same, Block | **violated**: a Block call waits for ever |
| `logger_flush` | same, Drop | **violated**: an accepted record is never flushed |
| `segments` | 1 thread, 3 records, segments of 1 record, pool of 2 and 3 to carve, Quill and NanoLog | holds: nothing lost, nothing duplicated (until a helper acts or a segment is shared), backlog delivered, handed-off segments leave the registry |
| `segments_pool` | 2 threads (2 records and none), pool of 1, NanoLog | holds: one owner per segment while the guard is held and no helper acts, reservations end, guard drop returns |
| `fifo` | 6 bytes, records of 1 to 3, 5 calls, four backends, chunks of 1 and 2, both policies | holds: every backend implements `RecordChannel`, a pop never ends inside a record, a staged chunk always fits when it is flushed, complete chunks are delivered, Block calls that fit an empty FIFO return |
| `output` | `Line`, `Sinks`, `Configure`, `Watermark`, one at a time; 943,011 states | holds: see below |
| `quill_order` | 1 thread, 3 records, Quill | **violated**: per-thread order |
| `nanolog_once` | 1 thread, 3 records, pool of 1, NanoLog | **violated**: a record reaches the sink twice |

The properties of `output`:

* `CallRoundTrip`: a call whose record fits comes back from the drain's cursor with its
  level, stamp, site and arguments, the cursor stopping exactly at the record's
  end, also behind every combination of legacy sections; a call that does not fit
  leaves no record.
* `AcceptedFormatRenders`, `SpecScannersAgree`, `PatternRenders`: the scanners
  accept exactly the grammar, agree with each other although one of them sees
  the text after the closing brace, and whatever was accepted renders as the
  grammar says, without a missing argument, a lone brace or a panic.
* `IntegerReadsBack`: the text of an integer under any combination of fill,
  alignment, width, precision, `#` and radix denotes that integer; the zero flag is
  covered where it pads digits only: no sign, no prefix, not set left or centred.
* `StampShowsLocalTime`: the line shows the local date and time of its stamp,
  every day, on both sides of UTC, when the counter wraps too.
* `FanOutIsolation`, `FlushOnlyDelays`, `RetentionHolds`: a child's failures stay
  its own, and a child of a `FanOut` gets the records up to its level and no other
  (of a sink at the root only that it gets them all is claimed, see below); what `accept` returned `Ok` for is never lost or repeated, only
  delayed, when writes or flushes fail; an in-memory sink keeps and counts exactly what
  its policy promises under clears from another thread.
* `WinnerInstalled`: of racing callers at most one installs anything but
  `BACKPRESSURE`; a caller that got `Ok` finds its own pool, capacity and drain
  installed; a refused request leaves no trace in the others; a thread that
  starts after `Ok` gets the ring that was asked for.
* `WatermarkKeepsUp`: the drain never reads past what was published, even when
  it stores `head` itself; nothing stays behind a thread that is gone; on a live ring
  `head` lags by at most one batch, as `ring.rs:91` and `Cargo.toml:58` say; and a
  Block call waits while the drain sees nothing only if that batch and two records of the
  largest size overfill the ring.

Disagreements between the code and what it says of itself:

1. *Oversized Block records* (`ring.rs:634`, doc at 598). A record of more than
   half the ring that meets the physical end needs its filler too; if both exceed
   the capacity the Block loop spins although the ring is empty.
2. *Exit inside the scan* (`drain.rs:391`, comment at 445). `sync_rings` reads
   `live` once to choose the rings for a last drain and again to drop rings from
   its lists. A thread that exits in between is dropped without a drain.
   `OnlySlippedLost` shows that this is the only such window.
3. *Late registration* (`guard.rs:49`, comment at 42). Only rings registered at
   the walk are marked dead; a thread that registers later and logs under Block
   hangs once its ring is full and the drain is gone.
4. *Flush after a last drain* (`drain.rs:454`, doc at `sink/mod.rs:55`). The last
   drain does not set `dirty`, so an idle logger keeps those records unflushed.
   `PolledIsFlushed` shows that polled records do not suffer from this.
5. *Quill order* (`drain.rs:452` and 597, doc at `segments.rs:37`). The last
   segment of a thread that exits overtakes its handed-off ones.
6. *NanoLog helper* (`drain.rs:491`, doc at `ring.rs:234`). The drain and the
   helper each test the other's flag once, in an order that lets both proceed.

Two consequences of the FIFO models deserve a note. Clearing the staging buffer
would lose the "incomplete tail" that `drain_ring` speaks of (`drain.rs:875`);
`WholeRecords` shows there never is one. With a chunk size above 1, which only
the benchmark harness sets, rtrb neither flushes an incomplete chunk at thread
exit nor while a Block call waits; `ChunkIsDelivered` and `FittingReserveReturns`
say exactly what remains true.

Met while modelling, and not made into a run:

* *Levels at the root.* Only `FanOut` asks for `max_level` (`sink/mod.rs:183`). A
  sink given to `configure!` as `with_max_level(..)` gets every record, though
  `sink/mod.rs:46` says that records above the level are not passed on, and
  `RawLogSink` (`sink/mod.rs:85`) that the drain has checked. `Due` is what these
  lines promise. `FanOutIsolation` claims for every leaf that it gets what it is due, and
  for the children of a `FanOut` that it gets nothing else; at the root the second half is
  false, in the instance too (`Writer(1)` alone is offered records of level 5).
* *Fills.* `format.rs:7` and `is_valid_fill` (`format.rs:525`) allow `}` as a fill, but
  the first `}` ends a placeholder for every scanner, so such a spec cannot be written.
  The reference grammar of `Line` leaves it out.
* *Width and flags.* Width counts bytes (`format.rs:650`), and the doc at
  `format.rs:41` says characters. The zero flag pads before a sign or a prefix
  (`00-7`, `000x7`), so `IntegerReadsBack` looks at it only where it pads digits.
* *Counts.* The argument count is one byte and wraps at 256 arguments; the bound
  of `Line` stops one short of it. Seconds of a zone offset do not show in the suffix.
* *Failed writes.* After a failed flush `dirty` is false, so what is buffered
  waits for the next burst or the shutdown. A newline that fails after its line was
  written joins that line to the next one.
* *Configuration.* `BACKPRESSURE` is set before the registry is claimed, so a
  loser may set it; nothing reads it. A failed spawn leaves the registry
  claimed and every later `configure!` refused. A thread that registers between the
  claim and the later sets gets a plain ring of the default size, contrary to the
  comment at `builder.rs:225`.
* *Watermark.* A Block ring that fills before `WATERMARK_HEAD_RECORDS` publishes
  waits until it is marked dead, although `ring.rs:598` says that Block always returns
  `Some`. Nothing in `configure!` asks for a larger ring. The instance reaches
  the wait (`Stalled`, after three records of 2 slots in 8 with a watermark of 4), and
  `WatermarkKeepsUp` says how full the ring must be for it. The comment at
  `drain.rs:714` assumes that `live = false` follows the last publish, which the
  guard's walk does not respect.
* *Logging on after the guard's walk.* The walk marks the segment of a running thread
  dead, `sync_rings` drains it for the last time and `drain_recycle` parks it
  (`drain.rs:465`), while the thread still writes to it. Another thread may claim
  it; the two then write the same slots and head, and a record may reach the sink
  twice. The attempt to prove `DrainedOnce` without an exception showed it, and
  TLC has a behaviour of 32 steps. `shared` names these segments.

The passing properties name the windows they exclude (`slipped`, `late`,
`helped`, `shared`) instead of assuming them away: all those behaviours are in the model.

### Bounds

`MaxCalls` and `MaxRecords` bound the records. The ring instance wraps in every
alignment (sizes 1 to 3 on 4 slots reach filler of 1 and 2 slots, an exactly
full ring and a record that ends at the physical end). Rings of one record make
the second record of a thread meet a full ring; two threads are enough for each
ordering of register, exit, guard walk and scan between two rings, and the drain
treats rings alike. `SyncEvery = 2` gives passes with and without a scan. Three
records and segments of one record give two hand-offs, the least with which a
list entry is moved by a swap-remove. Under Drop a full ring discards the record
and `Logger` stutters, so each Drop behaviour is a Block behaviour; the passing
run uses Block only. `CHECK_DEADLOCK FALSE` in the logger and segment runs: the
program may stop once its threads have exited and the guard is dropped; and in
`output`, whose inputs, records and calls end. In `Ring` and `Fifo` the drain's
empty pass is always possible. `Fifo` uses 6 bytes so that two records of 3 do
not fit together, and 3 fit rtrb only when nothing is staged.

In `output`, `ByteBase = 12` makes a `u16` end at 143, so that a record of
maximal size, one byte less and one more, a string longer than a `u16` and as
many arguments as a count byte holds (11) all occur with the code's layout; with
256 the same inputs would be thousands of bytes long. Calls have at most 2
arguments of any type at the ends of its range, or up to 11 Booleans. Format
strings have up to 6 symbols and specs up to 5 (a fill, an alignment, the zero
flag, a width and more after it), patterns up to 6 with a field name counting as
one. Days run from 1970 to 2110 over the real calendar, which includes the leap
year 2000 and the common year 2100; the units below a day are scaled to TLC's
integers. Sinks get 3 records of 1 to 3 bytes, a buffer of 3 bytes, so that a
line is smaller than, fills and exceeds it, and 2 failures per child, of writes
or of flushes. Two
callers race in `Configure`: a third would only lose as the second does.
`Watermark` has 8 slots, records of 1 and 2, a watermark of 4 and 7 calls,
enough to wrap once, and to fill the ring before `head` is stored.

### Fairness

Weak fairness of the drain's steps (a thread the operating system schedules
until it returns), of the steps of a log call that has begun, and of a guard
drop that has begun. Nothing obliges a thread to log, register or exit, or the
program to drop its guard. The waiting loops are modelled as in the code: a
spinning thread has a step only when its test can change its course.

## 4. What is proved

All theorems hold for every value of the constants; each module's named ASSUME
only gives them their types (a capacity is a positive number, the sizes of records
are positive and fit, and so on). TLC evaluates these assumptions in the runs, and has
checked each inductive invariant on the instance of the run first.

**`RingProofs`**: every capacity, every set of record sizes, both policies and builds, any
number of calls.

* `RingTypeCorrect` - `Spec => []TypeOK`;
* `RingInvariant` - `Spec => []IInv`, the inductive invariant;
* `RingDelivery`, `RingNeverCorrupt`, `RingUnreadIntact`, `RingDataPartition`,
  `RingCachesConservative` - the safety properties of the run;
* `RingImplementsChannel` - `Spec => Channel!Spec`, the refinement.

The safety properties are not inductive: that the drain finds a whole record at
`dtail` depends on what the producer wrote laps before. `IInv` supplies the
missing link: `CursorInv` orders the cursors and caches (`tail_cache <= tail <=
dtail <= dhead <= head`, distance below the capacity) and says that a
reservation in progress fits the tail it was judged by; `FrameInv` says that the
unconsumed frames tile the interval from the drain's position to `head` without
gap or overlap, with consecutive record numbers, none crossing the physical end,
and that the drain's bounds are frame boundaries; `UnreadIntact` says their
slots hold them; `WriteInv` says that the slots written so far hold the filler
and the new record's prefix; `DeliveryInv` says the records came out in order;
`RoomInv` counts at most one record per slot, which is the channel's bound. Each
action is one step of the proof, and under it each part it can disturb; lemmas
on remainders show that positions less than a lap apart have different indices,
which is where `DataPartition` comes from.

In the same module, for one ring of the `watermark-head` build, `WatermarkCorrect` proves
`WatermarkKeepsUp` for rings of any size, any bounded set of record sizes and any
`WATERMARK_HEAD_RECORDS`. `WmInv` holds the cursors, which the drain may set back
while it stores `head` for a dead ring but never behind what it has seen, and what a pass that
begins after the thread is gone will find. `LagInv` adds that `head` is behind by at most the
records counted, and by one filler if it is still in an earlier lap; a second filler would have to
pass the tail. The bound on a waiting Block call follows: what it is short of is
the lag, its own filler and its own size. A ring for `WATERMARK_HEAD_RECORDS + 1` records of
the largest size therefore never makes a call wait like that. The bound is tight for records of up
to 2 slots and a watermark of 3, where TLC finds the wait with 7 slots and not with 8.

**`LoggerProofs`**: any number of threads and records, both policies, rings of any size, any
cadence. `LoggerTypeCorrect`, `LoggerDelivery` (`ExactlyOnceInOrder`),
`LoggerOnlySlippedLost` and `LoggerStoppedMeansFlushed`, all from
`LoggerInvariant`. Beside the types, `IInv` says what a pass in
progress is (`PassInv`), that the sink of a thread is level with the ring's tail or with the
head the pass has read (`SinkInv`), that a ring is registered while it is
live (`LifeInv`), on which list a dead ring with undelivered records stands, which
differs between the three parts of `sync_rings` (`ListInv`), and that `shutdown`
is raised after the guard's walk, so that the final scan finds every dead ring
(`FinalInv`). `ListInv` is where the exit window shows: it holds for threads
outside `slipped` only, and the step that breaks it for others is `SyncReconcile`.

**`FifoProofs`**: all four backends, every capacity, every set of record sizes and
chunk size. `FifoWholeRecords`, `FifoFlushHasRoom`, and
`FifoImplementsChannel`. That a pop yields whole records needs the
byte stream that runs from the drain's position over its staging buffer and the
FIFO to rtrb's chunk to be cut into consecutive whole records, with a cut at each
border (`StreamInv`); `RoomInv` adds that a reservation keeps the room it was given.
The witness is a function from record numbers to the positions where they end, so
that appending, popping and cutting are statements about intervals and need no induction
over the bytes.

**`ConfigureProofs`**: `ConfigWinnerInstalled`, for any number of racing callers, any
requests and either build. `IInv` adds how far the one caller that passed
`REGISTRY.set` has come (`ClaimInv`, `StaticsInv`), and what a thread that
began after an `Ok` has read so far (`ThreadInv`).

**`SinksProofs`**: `SinksFlushOnlyDelays`, `SinksFanOutIsolation` and
`SinksRetentionHolds`, for any tree of sinks, any capacity of buffer and stores, any
number of records and failures. Lines are counted by the cardinality of the set of
newlines before a position, so what a write does to the lines of a stream follows from
facts about finite sets. Under these are lemmas on one `accept` or
`flush` of a leaf: `BufWriter` bypasses its buffer only when it is empty, so what reaches
the destination is always a prefix of what was accepted, also after a failure half
way; and `Pushed` keeps exactly the newest or the oldest records. `IInv` combines them
with which leaves the record in progress has reached (`DueInv`).

**`SegmentsProofs`**: any number of threads and records, segments of any size, any pool
and arena, both policies.

* `PoolStaysExclusive` - `PoolExclusive`, from `PoolInvariant`;
* `NoRecordTwice` - `DrainedOnce`, from `OnceInvariant`;
* `NothingLeftBehind` - `StoppedMeansDelivered`, from `StopInvariant`.

None of the three is inductive. Beside the types, the invariants are made of these
parts, each needed by the next.

* `Structure`: pool, registry, local list and finalize list hold no segment twice
  (`Lists`); what is parked, claimed, listed and never used does not overlap
  (`Apart`), which is what a spare taken from the pool relies on; and which list the
  pass in progress works from, for each point of the drain's loop (`Phase`).
* `Pool`, while the guard is held: the segment a thread writes to is live, not
  handed off, and nobody else's; what `maybe_retire` and `drain_recycle` are about to
  give away has been handed off. Both flags are needed: a segment goes
  back to the pool by the one or the other.
* `Positions`, of a segment that is not `shared`: the cached and real tail, the
  position of the pass and the head are in order and less than a segment apart, a
  reservation is for the next position and has room, and at most one thread writes.
* `Once`: a record not read yet is in one segment at one position, and not in the sink.
* `NothingLeft`: a record owed is in the sink or unread in some segment (`Accounted`);
  a segment with such a record is one the drain will come to (`Reachable`, whose
  parts say by which list in each section of `sync_rings` and in the final pass);
  what is retired is empty and a last drain reads to the end (`Passing`). The step
  that breaks `Reachable` for a thread that exits inside the scan is `SyncReconcile`,
  as in `Logger`.

Each step is quiet (no unread record appears, moves or leaves), publishes one record,
or delivers one; `Once` and `NothingLeft` are proved from these three effects, and the
actions are looked at only to show which effect they have. `Filter` and the reconcile loop
are recursive functions on an initial piece of the naturals. `LeastNatural`,
`Induction` and `Recursion` state induction and recursion over such a piece with a set
or a function in the place of an operator, so that `FilterDistinct` and
`ReconcileKeeps` hold for lists of any length.

**`LineProofs`**: the properties of `Line`, for every even byte base above 11, every unit
of time, counter, zone and bound on a text (`ByteAssumption`, `TimeAssumption`,
`LineAssumption`).

* `CivilIsCalendar`, `LocalDate`, `LineShowsLocalTime` - `StampShowsLocalTime`, which samples
  offsets, frequencies and seconds of a day; `LocalDate` holds for any offset and second. The era arithmetic of
  `civil_from_days` is shown to step from each day to the next as month lengths and
  the leap rule say: over the days of a year, the years of a century, the centuries of an
  era, and from era to era. `DayInv` says that the calendar `Line` counts and the
  number of days it has counted belong together.
* `RecordDecodes`, `LineCallsRoundTrip` - `CallRoundTrip`. The first is about a record of
  any level, stamp, site, legacy sections and arguments, the second about the calls that
  `Line` makes, for every byte base and any number of arguments.
  `Holds(r, at, x)`, that the bytes `x` stand in record `r` after the first `at`, is the statement
  everything is reduced to. A number split into bytes is read back; so is the word of tag
  and length at the head of a record, each legacy section, each argument, and, by induction over the
  arguments, the whole payload, where the cursor's position after an argument is the length
  of the bytes before it. `CallInv` says what calls the machine makes.
* `IntegersReadBack`, `LineIntegersReadBack` - `IntegerReadsBack`. The digits of a number
  denote it (strong induction over the quotients), zeros put before them to reach a
  precision change neither value nor alphabet, and `format_with_spec` frames a text
  by padding that the reader can strip.
* `ScannersAgree`, `GrammarScanned`, `LineSpecScannersAgree` - `SpecScannersAgree`.
  `ScannersAgree` relates the two scanners position by position up to the brace: what
  follows it cannot change the course of the macros' scanner, which looks one symbol
  ahead for an alignment. For the grammar, five cuts of a text are a `Layout` when
  each piece has the form of its part; the scanner's own positions are such cuts if it accepts,
  any cuts of the grammar are the scanner's positions, and the pieces then have the
  meanings `parse_spec_body` gives them. A width is the number its digits denote,
  cut at the largest `u16` (`SaturatedReads`, `SaturatesAtEnd`), for runs of any length.
* `FormatCut`, `AcceptedCallsRender` - what the macros check at compile time is enough at
  run time. `validate_fmt` and the cutting loop of `interleave` are recursions from the
  end of a string to its beginning (`Descending`); `PlaceCloses` shows that an accepted
  placeholder ends at the first closing brace, where the cutting loop looks for it, because
  the spec scanner passes over none (`SpecFree`), so both go on at the same place.
  `Chained` gives the cursor's position after each argument, and the
  state of `interleave` after `i` pieces is then known: the message so far
  (`MessageOf`), the placeholders among them, and that position. This holds for strings
  of any length and for every record that `LineCallsRoundTrip` is about.
* `PatternMessageOnce`, `AcceptedPatternsRender` - the same for a whole line. The
  segments of an accepted pattern hold `{message}` at most once, by induction from the
  end of the pattern over the flag that `Template::parse` carries from its beginning
  (`Parses`, `OneMessage`). This is what the cursor of `render_pattern` rests on: until
  the message it stands at the first argument, and after it at the end of the record
  (`CursorAt`), for patterns of any length.

What recursive functions compute is proved with `Recursed` and `Induction` of `Lemmas`,
which take the function or a set of naturals in the place of an operator.

Only model-checked: all liveness properties (they need fairness, which this
prover does not handle), and `AcceptedFormatRenders` and `PatternRenders`.
`AcceptedCallsRender` and `AcceptedPatternsRender` prove, for strings and patterns of any
length, that what is accepted renders completely and without a panic. What is left
to the run is that exactly the texts of the two grammars are accepted, and the
padding of each placeholder as these grammars list it, up to the bound on their length.

## 5. Not modelled

* Weak memory beyond the Acquire/Release pairs, allocation failure, poisoned
  mutexes.
* Colours, opening of files, the cutting of long thread names, the text `core::fmt`
  makes of a float or a quoted string.
* The reading of the hardware counter (an input of `Timestamp`); the float ratio
  is a rational, so rounding over long uptimes is not examined.
* The re-entrancy flag of a thread buffer, except that a thread logs one
  record at a time.
* Back-off (timing only), error display strings, thread affinity (one system
  call), the profiler, the benchmarks and the vendored arena, which `Segments`
  sees as a supply of segments.
* A property for the wait in `take_pooled` (`segments.rs:251`): the thread tests the
  pool, lets the lock go, and waits without a second test, so a wake-up in between is
  missed. The step is in `Segments`, but a thread may also wait rightly for
  as long as others keep their segments, and a property that tells the two apart
  needs holders that give back in bounded time.

`PROJECT.json` gives the reason for each component.

## 6. Plan

1. Done: `RecordChannel`, `Ring`, `Logger`, `Segments`, `Fifo`, `Codec`,
   `Format`, `Render`, `Timestamp`, `Line`, `Sinks`, `Configure`, `Watermark`, and the
   theorems about them: every safety property of the runs but `AcceptedFormatRenders`
   and `PatternRenders`.
2. Grammars of whole format strings and line patterns without a bound on a width, and the
   acceptance of exactly their texts, from the theorems on specs, messages and lines.
3. A wait on the pool with a bounded holder, to state that a wake-up is not lost.
