------------------------------- MODULE Sinks --------------------------------
(***************************************************************************)
(* The sinks behind the drain (sink/*.rs): what a FileSink, WriterSink,     *)
(* ConsoleSink, NullSink or InMemorySink does with a line or a raw record,  *)
(* alone or as one child of a FanOut, when writes to their destinations may *)
(* stop half way and fail, and while another thread clears the in-memory    *)
(* stores through a handle.                                                 *)
(*                                                                          *)
(* Record i is rendered as i symbols i; NewLine ends a line.  Wording and   *)
(* colour of a line are left out.                                           *)
(***************************************************************************)
EXTENDS Integers, Sequences, FiniteSets, SequencesExt

CONSTANTS
  SinkTrees,     \* the sinks that may be configured
  SinkRecords,   \* bound: records the drain delivers
  BufCapacity,   \* bytes of FileSink's BufWriter: FILE_BUF_CAPACITY in the code
  MemCapacity,   \* capacity of a bounded InMemorySink
  Failures       \* bound: writes to a destination that fail

VARIABLES
  tree,      \* the configured sink: its leaves, and whether a FanOut holds them
  stage,     \* what the drain is doing
  child,     \* the leaf whose turn it is
  current,   \* the record being accepted: its number and its level
  sent,      \* the levels of the records delivered so far
  dirty,     \* accepted since the last flush
  stopping,  \* the flush under way is the final one
  writer,    \* per leaf: what the destination holds, what the buffer holds
  memory,    \* per leaf: the State behind the InMemorySink's mutex
  faults,    \* per leaf: failed writes
  accepted,  \* history, per leaf: the lines accept returned Ok for
  offered    \* history, per leaf: records offered since the last clear

sinkVars == <<tree, stage, child, current, sent, dirty, stopping, writer, memory, faults,
              accepted, offered>>

-----------------------------------------------------------------------------
(* Sinks.                                                                   *)

\* A leaf, with the level of the WithLevel around it (5 = Trace: none).
Leaf(kind, max_level, overflow) == [kind |-> kind, max_level |-> max_level, overflow |-> overflow]

File(max_level)    == Leaf("file", max_level, "Unbounded")
Writer(max_level)  == Leaf("writer", max_level, "Unbounded")
Console(max_level) == Leaf("console", max_level, "Unbounded")
Null               == Leaf("null", 5, "Unbounded")
InMemory(max_level, overflow) == Leaf("memory", max_level, overflow)

MaxLevels == 1 .. 5

LeafSinks ==
  {File(m) : m \in MaxLevels} \cup {Writer(m) : m \in MaxLevels} \cup {Console(m) : m \in MaxLevels}
  \cup {Null}
  \cup {InMemory(m, o) : m \in MaxLevels, o \in {"Unbounded", "DropNewest", "DropOldest"}}

\* One sink, or a FanOut of any number of them.
Trees ==
  {t \in [fanout : BOOLEAN, leaves : Seq(LeafSinks)] : t.fanout \/ Len(t.leaves) = 1}

ASSUME SinkAssumption ==
  /\ SinkTrees \subseteq Trees
  /\ SinkRecords \in Nat /\ Failures \in Nat /\ {BufCapacity, MemCapacity} \subseteq Nat \ {0}

Leaves == DOMAIN tree.leaves

\* raw_sink: Some for a NullSink or an InMemorySink at the root, through
\* WithLevel; a FanOut always takes formatted lines.
raw_sink == ~tree.fanout /\ tree.leaves[1].kind \in {"null", "memory"}

NewLine == 0
Body(i) == [n \in 1 .. i |-> i]

-----------------------------------------------------------------------------
(* Destinations: std::io, as the sinks use it.  A writer is [out, buf] with *)
(* the outcome of the last call and the failures still possible.            *)

\* io::Write::write_all: everything, or a part of it and an error.
WriteAll(w, data) ==
  {[w EXCEPT !.out = @ \o data, !.ok = TRUE]}
  \cup {[w EXCEPT !.out = @ \o SubSeq(data, 1, n), !.ok = FALSE, !.left = @ - 1] :
          n \in IF w.left = 0 THEN {} ELSE 0 .. Len(data) - 1}

\* BufWriter::flush_buf: what was not written stays in the buffer.
FlushBuf(w) ==
  {[x EXCEPT !.buf = SubSeq(w.buf, Len(x.out) - Len(w.out) + 1, Len(w.buf))] : x \in WriteAll(w, w.buf)}

\* BufWriter::write_all: flush first if the data do not fit, and bypass the
\* buffer for data as large as it.
BufWriteAll(w, data) ==
  LET room == BufCapacity - Len(w.buf)
      made == IF Len(data) > room THEN FlushBuf(w) ELSE {[w EXCEPT !.ok = TRUE]}
  IN UNION {IF ~x.ok THEN {x}
            ELSE IF Len(data) >= BufCapacity THEN WriteAll(x, data)
            ELSE {[x EXCEPT !.buf = @ \o data]} : x \in made}

-----------------------------------------------------------------------------
(* accept and flush of the leaves that write.                               *)

accept_file_KeepsGoing(w, line) ==
  UNION {BufWriteAll(x, <<NewLine>>) : x \in BufWriteAll(w, line)}

\* FileSink::accept: the newline only after the whole line.
accept_file(w, line) ==
  UNION {IF x.ok THEN BufWriteAll(x, <<NewLine>>) ELSE {x} : x \in BufWriteAll(w, line)}

\* WriterSink::accept: the same two writes, unbuffered.
accept_writer(w, line) ==
  UNION {IF x.ok THEN WriteAll(x, <<NewLine>>) ELSE {x} : x \in WriteAll(w, line)}

\* ConsoleSink::accept: line and newline rendered first, then one write.
accept_console(w, line) == WriteAll(w, Append(line, NewLine))

Writes(kind) == kind \in {"file", "writer", "console"}

accept(kind, w, line) ==
  CASE kind = "file"    -> accept_file(w, line)
    [] kind = "writer"  -> accept_writer(w, line)
    [] kind = "console" -> accept_console(w, line)

\* FileSink's buffer emptied, by flush or by the drop of its BufWriter; the
\* other leaves hold nothing back.
Emptied(kind, w) == IF kind = "file" THEN FlushBuf(w) ELSE {[w EXCEPT !.ok = TRUE]}

\* flush of a leaf: a WriterSink or ConsoleSink passes the call on to its
\* destination, which may report an error.
flush(kind, w) ==
  Emptied(kind, w)
  \cup (IF kind \in {"writer", "console"} /\ w.left > 0
        THEN {[w EXCEPT !.ok = FALSE, !.left = @ - 1]} ELSE {})

-----------------------------------------------------------------------------
(* InMemorySink.                                                            *)

EmptyState == [records |-> <<>>, lines |-> <<>>, dropped_records |-> 0, dropped_lines |-> 0]

\* push_record and push_line on one store: the store and the drops to add.
Pushed_OffByOne(overflow, store, r) ==
  IF overflow = "Unbounded" \/ Len(store) <= MemCapacity THEN <<Append(store, r), 0>>
  ELSE IF overflow = "DropNewest" THEN <<store, 1>>
  ELSE <<Append(Tail(store), r), 1>>

Pushed(overflow, store, r) ==
  IF overflow = "Unbounded" \/ Len(store) < MemCapacity THEN <<Append(store, r), 0>>
  ELSE IF overflow = "DropNewest" THEN <<store, 1>>
  ELSE <<Append(Tail(store), r), 1>>

push_record(overflow, st, r) ==
  LET p == Pushed(overflow, st.records, r)
  IN [st EXCEPT !.records = p[1], !.dropped_records = @ + p[2]]

push_line(overflow, st, r) ==
  LET p == Pushed(overflow, st.lines, r)
  IN [st EXCEPT !.lines = p[1], !.dropped_lines = @ + p[2]]

-----------------------------------------------------------------------------
SinkInit ==
  /\ tree \in SinkTrees
  /\ stage = "idle" /\ child = 1 /\ current = [id |-> 0, level |-> 1] /\ sent = <<>>
  /\ dirty = FALSE /\ stopping = FALSE
  /\ writer   = [l \in Leaves |-> [out |-> <<>>, buf |-> <<>>, ok |-> TRUE, left |-> Failures]]
  /\ memory   = [l \in Leaves |-> EmptyState]
  /\ faults   = [l \in Leaves |-> 0]
  /\ accepted = [l \in Leaves |-> <<>>]
  /\ offered  = [l \in Leaves |-> <<>>]

leafVars == <<writer, memory, faults, accepted, offered>>

\* The drain takes the next record to the sink (drain_ring_inner, or the
\* helpers' payloads in poll_once).
Deliver ==
  /\ stage = "idle" /\ ~stopping /\ Len(sent) < SinkRecords
  /\ \E level \in {1, 5} :
       /\ current' = [id |-> Len(sent) + 1, level |-> level]
       /\ sent' = Append(sent, level)
  /\ stage' = "accept" /\ child' = 1
  /\ UNCHANGED <<tree, dirty, stopping, leafVars>>

\* Nothing is left to accept: FanOut::accept returns Ok, and poll_once
\* reports work.
AcceptDone ==
  /\ stage = "accept" /\ child \notin Leaves
  /\ stage' = "idle" /\ dirty' = TRUE
  /\ UNCHANGED <<tree, child, current, sent, stopping, leafVars>>

\* FanOut::accept passes over a child whose max_level is below the record's;
\* a sink at the root is not asked.
Skipped ==
  /\ stage = "accept" /\ child \in Leaves
  /\ tree.fanout /\ current.level > tree.leaves[child].max_level
  /\ child' = child + 1
  /\ UNCHANGED <<tree, stage, current, sent, dirty, stopping, leafVars>>

Wanted == ~tree.fanout \/ current.level <= tree.leaves[child].max_level

NextChild_StopsOnError(ok) == IF ok THEN child + 1 ELSE Len(tree.leaves) + 1

\* FanOut::accept reports the error of a child and goes on with the next.
NextChild(ok) == child + 1

\* accept of a leaf that writes; its error is reported and forgotten.
AcceptLine ==
  /\ stage = "accept" /\ child \in Leaves /\ Wanted /\ Writes(tree.leaves[child].kind)
  /\ \E w \in accept(tree.leaves[child].kind, writer[child], Body(current.id)) :
       /\ writer' = [writer EXCEPT ![child] = w]
       /\ faults' = [faults EXCEPT ![child] = @ + (IF w.left < writer[child].left THEN 1 ELSE 0)]
       /\ accepted' = [accepted EXCEPT ![child] = IF w.ok THEN Append(@, current.id) ELSE @]
       /\ child' = NextChild(w.ok)
  /\ offered' = [offered EXCEPT ![child] = Append(@, current.id)]
  /\ UNCHANGED <<tree, stage, current, sent, dirty, stopping, memory>>

\* accept or accept_raw of an InMemorySink, and of a NullSink.
AcceptCapture ==
  /\ stage = "accept" /\ child \in Leaves /\ Wanted /\ ~Writes(tree.leaves[child].kind)
  /\ LET l == tree.leaves[child]
     IN memory' = [memory EXCEPT ![child] =
                     IF l.kind = "null" THEN @
                     ELSE IF raw_sink THEN push_record(l.overflow, @, current.id)
                     ELSE push_line(l.overflow, @, current.id)]
  /\ offered' = [offered EXCEPT ![child] = Append(@, current.id)]
  /\ child' = NextChild(TRUE)
  /\ UNCHANGED <<tree, stage, current, sent, dirty, stopping, writer, faults, accepted>>

\* Going idle with something accepted, or the final pass of Drain::run.
BeginFlush ==
  /\ stage = "idle" /\ ~stopping
  /\ \/ dirty /\ UNCHANGED stopping
     \/ stopping' = TRUE
  /\ stage' = "flush" /\ child' = 1 /\ dirty' = FALSE
  /\ UNCHANGED <<tree, current, sent, leafVars>>

\* flush of one leaf, or the drop of it; an error of flush is reported and
\* forgotten, by FanOut::flush and by flush_sink, one of a drop not reported.
FlushLeaf ==
  /\ stage \in {"flush", "drop"} /\ child \in Leaves
  /\ \E w \in IF stage = "drop" THEN Emptied(tree.leaves[child].kind, writer[child])
              ELSE flush(tree.leaves[child].kind, writer[child]) :
       /\ writer' = [writer EXCEPT ![child] = w]
       /\ faults' = [faults EXCEPT ![child] = @ + (IF w.ok THEN 0 ELSE 1)]
  /\ child' = child + 1
  /\ UNCHANGED <<tree, stage, current, sent, dirty, stopping, memory, accepted, offered>>

\* Drain::run returns after the final flush and the sink is dropped.
FlushDone ==
  /\ stage \in {"flush", "drop"} /\ child \notin Leaves
  /\ stage' = IF stage = "drop" THEN "gone" ELSE IF stopping THEN "drop" ELSE "idle"
  /\ child' = 1
  /\ UNCHANGED <<tree, current, sent, dirty, stopping, leafVars>>

\* InMemoryHandle::clear, by a thread that holds a handle.
clear ==
  /\ \E l \in Leaves :
       /\ tree.leaves[l].kind = "memory" /\ memory[l] # EmptyState
       /\ memory' = [memory EXCEPT ![l] = EmptyState]
       /\ offered' = [offered EXCEPT ![l] = <<>>]
  /\ UNCHANGED <<tree, stage, child, current, sent, dirty, stopping, writer, faults, accepted>>

SinkNext ==
  Deliver \/ AcceptDone \/ Skipped \/ AcceptLine \/ AcceptCapture \/ BeginFlush \/ FlushLeaf
  \/ FlushDone \/ clear

SinkSpec == SinkInit /\ [][SinkNext]_sinkVars

-----------------------------------------------------------------------------
(* Properties.                                                              *)

Stream(l) == writer[l].out \o writer[l].buf

\* The lines ended among the first n symbols of s.
Ends(s, n) == Cardinality({m \in 1 .. n : s[m] = NewLine})

\* The lines ended in s are those of ids, in order and each one whole; parts
\* of other lines may stand between them.
EndsLines(s, ids) ==
  /\ Ends(s, Len(s)) = Len(ids)
  /\ \A n \in DOMAIN s : s[n] = NewLine =>
       LET i == ids[Ends(s, n)] IN n > i /\ \A m \in n - i .. n - 1 : s[m] = i

\* Nothing stands before, between or after the lines of ids.
NoRemnant(s, ids) ==
  \A n \in DOMAIN s :
    /\ n = Len(s) => s[n] = NewLine
    /\ s[n] = NewLine => LET first == n - ids[Ends(s, n)]
                         IN first = 1 \/ (first > 1 /\ s[first - 1] = NewLine)

\* The records up to the level of a leaf, which are the ones it is to get.
Due(l) == {n \in DOMAIN sent : sent[n] <= tree.leaves[l].max_level}

InOrder(ids) == \A m, n \in DOMAIN ids : m < n => ids[m] < ids[n]

WritesTo == {l \in Leaves : Writes(tree.leaves[l].kind)}

\* A leaf none of whose own writes and flushes failed is offered every record
\* up to its level, once and in order, and holds exactly the lines it was
\* offered, whole and in order, whatever its siblings in the FanOut ran into;
\* and once the drain is gone all of it has reached the destination
\* (FanOut::accept, FanOut::flush, Drain::run's final flush).  A child of a
\* FanOut is offered no record above its level.  That is not claimed of a sink
\* at the root: only FanOut::accept asks for max_level, so a WithLevel at the
\* root is given every record, although LogSink::max_level and with_max_level
\* promise the filter of any sink.
FanOutIsolation ==
  \A l \in WritesTo : faults[l] = 0 =>
    /\ EndsLines(Stream(l), offered[l]) /\ NoRemnant(Stream(l), offered[l])
    /\ stage = "gone" => writer[l].buf = <<>>
    /\ InOrder(offered[l])
    /\ stage = "idle" => Due(l) \subseteq ToSet(offered[l])
    /\ stage = "idle" /\ tree.fanout => ToSet(offered[l]) \subseteq Due(l)

\* A write or a flush that fails only delays, for the lines accept said Ok to:
\* destination and buffer together hold each of them whole, once and in order,
\* and no other line is ever ended, though parts of refused lines may stand
\* between (FileSink, WriterSink and ConsoleSink::accept, flush_sink).
FlushOnlyDelays == \A l \in WritesTo : EndsLines(Stream(l), accepted[l])

\* An InMemorySink keeps of the records offered since the last clear what its
\* policy promises, the first ones, the last ones or all, and counts exactly
\* the others as dropped; records and lines are never mixed, and a clear
\* between two records leaves no count behind (push_record, push_line, clear).
RetentionHolds ==
  \A l \in Leaves : tree.leaves[l].kind = "memory" =>
    LET st   == memory[l]
        all  == offered[l]
        kept == IF tree.leaves[l].overflow = "Unbounded" THEN Len(all)
                ELSE IF Len(all) < MemCapacity THEN Len(all) ELSE MemCapacity
        want == IF tree.leaves[l].overflow = "DropOldest" THEN SubSeq(all, Len(all) - kept + 1, Len(all))
                ELSE SubSeq(all, 1, kept)
        lost == Len(all) - kept
    IN IF raw_sink
       THEN <<st.records, st.dropped_records, st.lines, st.dropped_lines>> = <<want, lost, <<>>, 0>>
       ELSE <<st.lines, st.dropped_lines, st.records, st.dropped_records>> = <<want, lost, <<>>, 0>>
=============================================================================
