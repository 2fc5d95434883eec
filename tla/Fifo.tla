-------------------------------- MODULE Fifo --------------------------------
(***************************************************************************)
(* One ring under the optional FIFO backends: ringbuffer_backend.rs,        *)
(* ringbuf_backend.rs, rtrb_backend.rs and triple_buffer_backend.rs, with   *)
(* the dispatch of the logging thread and the drain_ring pass that cuts a   *)
(* byte stream back into records.                                           *)
(*                                                                          *)
(* A byte is a cell [rec, k, n]: the k-th of the n bytes of record `rec`;   *)
(* the first one stands for the header with its total_size.  The libraries  *)
(* behind the backends appear in the Commit operators and in PopAvailable.  *)
(***************************************************************************)
EXTENDS Integers, Sequences

CONSTANTS
  Backends,    \* the backend-* features considered
  Policies,    \* the Backpressure settings considered
  ChunkSizes,  \* the settings of rtrb's DEFAULT_CHUNK_SIZE considered
  Capacity,    \* the configured ring capacity, in bytes
  Sizes,       \* the record sizes the program logs, in bytes
  MaxCalls     \* bound: how many times the thread logs

ASSUME FifoAssumption ==
  /\ Backends \subseteq {"ringbuffer", "ringbuf", "rtrb", "triple-buffer"}
  /\ Policies \subseteq {"Drop", "Block"}
  /\ ChunkSizes \subseteq Nat \ {0}
  /\ Capacity \in Nat \ {0}
  /\ Sizes \subseteq Nat \ {0}
  /\ MaxCalls \in Nat

VARIABLES
  backend, policy,  \* the build and the setting; never change
  chunk_size,       \* rtrb: records flushed together; never changes
  fifo,             \* the bytes the drain can pop
  staged,           \* rtrb: the bytes of the chunk under construction
  staged_records,   \* rtrb: how many records they are
  live,             \* cleared by thread exit or by the guard
  ppc, psize,       \* where the thread is, and the record it logs
  calls,            \* log calls made (bounded by MaxCalls)
  panicked,         \* TRUE once an expect of write_record has failed
  dpc,              \* where the drain is in drain_ring
  staging, pos,     \* its staging buffer and its position in it
  written,          \* history: records written
  delivered         \* history: the records handed to the sink, in order

config       == <<backend, policy, chunk_size>>
producerVars == <<staged, staged_records, ppc, psize, calls, panicked, written>>
drainVars    == <<dpc, staging, pos, delivered>>
vars         == <<config, fifo, live, producerVars, drainVars>>

Cell == [rec : Nat, k : Nat, n : Nat]

Bytes(r, n) == [i \in 1 .. n |-> [rec |-> r, k |-> i, n |-> n]]

Init ==
  /\ backend \in Backends
  /\ policy \in Policies
  /\ chunk_size \in IF backend = "rtrb" THEN ChunkSizes ELSE {1}
  /\ fifo = <<>> /\ staged = <<>> /\ staged_records = 0
  /\ live = TRUE
  /\ ppc = "idle" /\ psize = 0 /\ calls = 0 /\ panicked = FALSE
  /\ dpc = "idle" /\ staging = <<>> /\ pos = 0
  /\ written = 0 /\ delivered = <<>>

-----------------------------------------------------------------------------
(* The logging thread.                                                      *)

\* rtrb keeps one slot of slack.
Usable == Capacity - 1

\* The tests of the four reserve functions.  All leave one byte free; rtrb
\* counts what is staged; the triple buffer has one slot, free once consumed.
RingbufferRoom(n) == Len(fifo) + n < Capacity

RingbufRoom(n) == Len(fifo) + n < Capacity

RtrbRoom(n) == Len(fifo) + Len(staged) + n < Usable

TripleBufferRoom == fifo = <<>>

HasRoom_IgnoresSize(n) ==
  IF backend = "triple-buffer" THEN TripleBufferRoom ELSE Len(fifo) < Capacity

HasRoom_IgnoresStaged(n) ==
  CASE backend = "ringbuffer"    -> RingbufferRoom(n)
    [] backend = "ringbuf"       -> RingbufRoom(n)
    [] backend = "rtrb"          -> Len(fifo) + n < Usable
    [] backend = "triple-buffer" -> TripleBufferRoom

HasRoom(n) ==
  CASE backend = "ringbuffer"    -> RingbufferRoom(n)
    [] backend = "ringbuf"       -> RingbufRoom(n)
    [] backend = "rtrb"          -> RtrbRoom(n)
    [] backend = "triple-buffer" -> TripleBufferRoom

\* reserve: room, or a record that Drop discards, or the wait of Block; the
\* triple buffer waits under both policies.
Reserve(n) ==
  /\ ppc = "idle" /\ calls < MaxCalls
  /\ calls' = calls + 1
  /\ psize' = n
  /\ ppc' = IF HasRoom(n) THEN "reserved"
            ELSE IF policy = "Drop" /\ backend # "triple-buffer" THEN "idle"
            ELSE "waiting"
  /\ UNCHANGED <<config, fifo, live, staged, staged_records, panicked, written,
                 drainVars>>

Spin_NoRecheck ==
  /\ ppc = "waiting" /\ ~live
  /\ ppc' = "idle"
  /\ UNCHANGED <<config, fifo, live, staged, staged_records, psize, calls,
                 panicked, written, drainVars>>

\* A further round of reserve's loop that ends it.
Spin ==
  /\ ppc = "waiting"
  /\ HasRoom(psize) \/ ~live
  /\ ppc' = IF HasRoom(psize) THEN "reserved" ELSE "idle"
  /\ UNCHANGED <<config, fifo, live, staged, staged_records, psize, calls,
                 panicked, written, drainVars>>

\* The FIFO after a commit.  A full AllocRingBuffer overwrites its oldest
\* bytes, ringbuf's push_slice stops when it is full, a triple buffer holds
\* the last value published.
RingbufferCommit(s) ==
  LET all == fifo \o s
  IN  IF Len(all) > Capacity
      THEN SubSeq(all, Len(all) - Capacity + 1, Len(all)) ELSE all

RingbufCommit(s) ==
  LET all == fifo \o s
  IN  IF Len(all) > Capacity THEN SubSeq(all, 1, Capacity) ELSE all

TripleBufferCommit(s) == s

Commit(s) ==
  CASE backend = "ringbuffer"    -> RingbufferCommit(s)
    [] backend = "ringbuf"       -> RingbufCommit(s)
    [] backend = "rtrb"          -> fifo \o s
    [] backend = "triple-buffer" -> TripleBufferCommit(s)

\* rtrb's write_chunk finds too little room, and the expect on it panics.
Overruns(s) == backend = "rtrb" /\ Len(fifo \o s) > Usable

WriteRecord_KeepsStaged ==
  LET chunk == staged \o Bytes(written + 1, psize)
      full  == staged_records + 1 >= chunk_size
  IN  /\ ppc = "reserved"
      /\ written' = written + 1
      /\ panicked' = (panicked \/ (full /\ Overruns(chunk)))
      /\ fifo' = IF full /\ ~Overruns(chunk) THEN Commit(chunk) ELSE fifo
      /\ staged' = IF backend = "rtrb" THEN chunk ELSE <<>>
      /\ staged_records' = IF full THEN 0 ELSE staged_records + 1
      /\ ppc' = "idle"
      /\ UNCHANGED <<config, live, psize, calls, drainVars>>

WriteRecord_LateFlush ==
  LET chunk == staged \o Bytes(written + 1, psize)
      full  == backend # "rtrb" \/ staged_records >= chunk_size
  IN  /\ ppc = "reserved"
      /\ written' = written + 1
      /\ panicked' = (panicked \/ (full /\ Overruns(chunk)))
      /\ IF full /\ ~Overruns(chunk)
         THEN /\ fifo' = Commit(chunk)
              /\ staged' = <<>> /\ staged_records' = 0
         ELSE /\ staged' = chunk /\ staged_records' = staged_records + 1
              /\ UNCHANGED fifo
      /\ ppc' = "idle"
      /\ UNCHANGED <<config, live, psize, calls, drainVars>>

\* write_record: assemble, and make the bytes visible at once; rtrb stages
\* them until the chunk is complete.
WriteRecord ==
  LET chunk == staged \o Bytes(written + 1, psize)
      full  == staged_records + 1 >= chunk_size
  IN  /\ ppc = "reserved"
      /\ written' = written + 1
      /\ panicked' = (panicked \/ (full /\ Overruns(chunk)))
      /\ IF full /\ ~Overruns(chunk)
         THEN /\ fifo' = Commit(chunk)
              /\ staged' = <<>> /\ staged_records' = 0
         ELSE /\ staged' = chunk /\ staged_records' = staged_records + 1
              /\ UNCHANGED fifo
      /\ ppc' = "idle"
      /\ UNCHANGED <<config, live, psize, calls, drainVars>>

\* A panic in an argument's encode: nothing is pushed or staged.
Abandon ==
  /\ ppc = "reserved"
  /\ ppc' = "idle"
  /\ UNCHANGED <<config, fifo, live, staged, staged_records, psize, calls,
                 panicked, written, drainVars>>

\* set_dead, at the end of the thread or by the guard: what is staged stays.
SetDead ==
  /\ live
  /\ live' = FALSE
  /\ UNCHANGED <<config, fifo, producerVars, drainVars>>

-----------------------------------------------------------------------------
(* The drain.                                                               *)

\* staging.clear() in poll_once or sync_rings, then pop_available.
PopAvailable ==
  /\ dpc = "idle"
  /\ staging' = fifo
  /\ fifo' = <<>>
  /\ dpc' = "walk"
  /\ UNCHANGED <<config, live, producerVars, pos, delivered>>

\* The record at pos is not complete.
Partial == pos + staging[pos + 1].n > Len(staging)

\* The bytes of a record of n at pos: its number, or 0 if some are not its own.
Contents(n) ==
  LET r == staging[pos + 1].rec
  IN  IF SubSeq(staging, pos + 1, pos + n) = Bytes(r, n) THEN r ELSE 0

\* The loop body: a complete record goes to the sink; a byte that is no
\* header is skipped.
Walk ==
  LET byte   == staging[pos + 1]
      header == byte.k = 1
  IN  /\ dpc = "walk" /\ pos < Len(staging)
      /\ header => ~Partial
      /\ pos' = IF header THEN pos + byte.n ELSE pos + 1
      /\ delivered' = IF header THEN Append(delivered, Contents(byte.n))
                                ELSE delivered
      /\ UNCHANGED <<config, fifo, live, producerVars, dpc, staging>>

\* The end of the pass: staging.drain(..pos).
PassEnd ==
  /\ dpc = "walk"
  /\ pos < Len(staging) => staging[pos + 1].k = 1 /\ Partial
  /\ staging' = SubSeq(staging, pos + 1, Len(staging))
  /\ pos' = 0
  /\ dpc' = "idle"
  /\ UNCHANGED <<config, fifo, live, producerVars, delivered>>

-----------------------------------------------------------------------------
InCall == Spin \/ WriteRecord \/ Abandon

Drain == PopAvailable \/ Walk \/ PassEnd

Next == (\E n \in Sizes : Reserve(n)) \/ InCall \/ SetDead \/ Drain

Spec == Init /\ [][Next]_vars

\* The drain polls; a log call that has started goes on.
Fairness == WF_vars(Drain) /\ WF_vars(InCall)

FairSpec == Spec /\ Fairness

-----------------------------------------------------------------------------
(* Properties.                                                              *)

\* poll_once and sync_rings clear the one staging buffer before each ring,
\* although drain_ring "keeps the incomplete tail for the next poll".  No
\* byte is lost by that, because every pop yields whole records and a pass
\* leaves nothing behind.
WholeRecords == dpc = "idle" => staging = <<>>

\* "reserve verified staged.len() bytes of room [...] so write_chunk with the
\* whole staged slice can never fail" (rtrb write_record), although reserve
\* runs once per record and the chunk is flushed several records later.
FlushHasRoom == ~panicked

\* The records written and not yet delivered, as the channel's contents.
Pending == [i \in 1 .. written - Len(delivered) |-> Len(delivered) + i]

Channel == INSTANCE RecordChannel WITH
  Bound <- 2 * Capacity + 2, chan <- Pending, sent <- written, got <- delivered

\* Every backend implements the channel that the custom ring implements: what
\* is written comes out once, whole and in order, over every wrap and chunk.
\* (Bound: the FIFO full, the drain's staging full, one record in each hand.)
ImplementsChannel == Channel!Spec

\* A record is delivered once chunk_size - 1 more are written (at once by the
\* backends that do not stage): the drain sees every complete chunk.  Nothing
\* flushes an incomplete one, not even the end of the thread.
ChunkIsDelivered ==
  \A n \in 1 .. MaxCalls :
    (written >= n + chunk_size - 1) ~> (Len(delivered) >= n)

FitsEmpty ==
  CASE backend = "triple-buffer" -> TRUE
    [] backend = "rtrb"          -> Len(staged) + psize < Usable
    [] OTHER                     -> psize < Capacity

\* A Block call comes back if its record, with what the thread has staged
\* itself, fits an empty FIFO.  (One that does not fit waits for ever: reserve
\* never flushes the staged chunk.)
FittingReserveReturns == (ppc = "waiting" /\ FitsEmpty) ~> (ppc # "waiting")
=============================================================================
