------------------------------- MODULE Logger -------------------------------
(***************************************************************************)
(* The logger under Backpressure::Drop and Backpressure::Block: threads     *)
(* that register a ring, log and exit (thread_buf.rs), the drain thread's   *)
(* loop (drain.rs), and the Guard whose drop stops it (guard.rs).           *)
(*                                                                          *)
(* A thread's ring is named by its thread and is the bounded channel that   *)
(* module Ring implements: `head` and `tail` count its records.  The        *)
(* registry and the drain's list are sets: under these policies a thread    *)
(* has one ring for life, so their order only decides which thread's        *)
(* records reach the sink first.  Sections under the registry mutex are one *)
(* step each, but for sync_rings: it reads `live` several times, and a      *)
(* thread that exits clears `live` without the mutex.                       *)
(***************************************************************************)
EXTENDS Integers, Sequences

CONSTANTS
  Threads,    \* the logging threads
  Policies,   \* the Backpressure settings considered
  Room,       \* the records a ring holds
  SyncEvery,  \* passes between two registry scans (SYNC_EVERY, 1024)
  MaxRecords  \* bound: records each thread publishes

ASSUME LoggerAssumption ==
  /\ Policies \subseteq {"Drop", "Block"}
  /\ Room \in Nat \ {0}
  /\ SyncEvery \in Nat \ {0}
  /\ MaxRecords \in [Threads -> Nat]

VARIABLES
  policy,      \* the configured Backpressure; never changes
  registry,    \* REGISTRY: the registered rings
  live,        \* RingBuffer.live
  head, tail,  \* the records published to, and consumed from, each ring
  tpc,         \* where each thread is
  shutdown,    \* the flag shared by the guard and the drain
  gpc,         \* where Guard::drop is
  dpc,         \* where Drain::run is
  final,       \* TRUE in the pass after the loop
  rings,       \* Drain.rings
  todo,        \* the rings this finalize loop or this poll has yet to drain
  pass,        \* the ring being drained, as a set of at most one thread
  seen,        \* the head that pass goes up to
  since_sync,  \* the cadence counter, modulo SyncEvery
  had_work, dirty,
  sink,        \* the records of each thread the sink has accepted, in order
  flushed,     \* how many of them a flush has made visible
  owed,        \* history: head of each ring when its `live` was cleared
  late,        \* history: threads that registered after the guard's walk
  slipped      \* history: threads that exited inside sync_rings' scan

ringVars    == <<live, head, tail>>
guardVars   == <<shutdown, gpc>>
loopVars    == <<dpc, final, rings, todo, since_sync, had_work, dirty>>
passVars    == <<pass, seen>>
sinkVars    == <<sink, flushed>>
historyVars == <<owed, late, slipped>>
vars == <<policy, registry, ringVars, tpc, guardVars, loopVars,
          passVars, sinkVars, historyVars>>

Init ==
  /\ policy \in Policies
  /\ registry = {}
  /\ live = [t \in Threads |-> TRUE]
  /\ head = [t \in Threads |-> 0] /\ tail = [t \in Threads |-> 0]
  /\ tpc = [t \in Threads |-> "new"]
  /\ shutdown = FALSE /\ gpc = "held"
  /\ dpc = "top" /\ final = FALSE /\ rings = {} /\ todo = {}
  /\ pass = {} /\ seen = 0
  /\ since_sync = 0 /\ had_work = FALSE /\ dirty = FALSE
  /\ sink = [t \in Threads |-> <<>>] /\ flushed = [t \in Threads |-> 0]
  /\ owed = [t \in Threads |-> 0] /\ late = {} /\ slipped = {}

-----------------------------------------------------------------------------
(* The logging threads.                                                     *)

\* The registry mutex is free: the drain is not inside sync_rings' section.
Unlocked == dpc \notin {"reconcile", "retain"}

HasRoom(t) == head[t] - tail[t] < Room

\* First log call or warm_up: a ring, and register_ring under the lock.
Register(t) ==
  /\ tpc[t] = "new" /\ Unlocked
  /\ registry' = registry \cup {t}
  /\ tpc' = [tpc EXCEPT ![t] = "idle"]
  /\ late' = IF gpc = "held" THEN late ELSE late \cup {t}
  /\ UNCHANGED <<policy, ringVars, guardVars, loopVars, passVars,
                 sinkVars, owed, slipped>>

\* dispatch up to the outcome of reserve: a slot, a full ring that Block
\* waits on, or a record that Drop discards.
Reserve(t) ==
  /\ tpc[t] = "idle" /\ head[t] < MaxRecords[t]
  /\ tpc' = [tpc EXCEPT ![t] = IF HasRoom(t) THEN "reserved"
                               ELSE IF policy = "Block" THEN "waiting"
                               ELSE "idle"]
  /\ UNCHANGED <<policy, registry, ringVars, guardVars, loopVars, passVars,
                 sinkVars, historyVars>>

\* One round of the Block loop of try_ensure_capacity.
Spin(t) ==
  /\ tpc[t] = "waiting"
  /\ HasRoom(t) \/ ~live[t]
  /\ tpc' = [tpc EXCEPT ![t] = IF HasRoom(t) THEN "reserved" ELSE "idle"]
  /\ UNCHANGED <<policy, registry, ringVars, guardVars, loopVars,
                 passVars, sinkVars, historyVars>>

Publish(t) ==
  /\ tpc[t] = "reserved"
  /\ head' = [head EXCEPT ![t] = @ + 1]
  /\ tpc' = [tpc EXCEPT ![t] = "idle"]
  /\ UNCHANGED <<policy, registry, live, tail, guardVars, loopVars,
                 passVars, sinkVars, historyVars>>

\* A panic in an argument's encode unwinds out of dispatch: the reservation
\* is forgotten, nothing is published, and ActiveGuard lets the thread log on.
Abandon(t) ==
  /\ tpc[t] = "reserved"
  /\ tpc' = [tpc EXCEPT ![t] = "idle"]
  /\ UNCHANGED <<policy, registry, ringVars, guardVars, loopVars,
                 passVars, sinkVars, historyVars>>

\* set_dead on the rings of S, remembering what each had published.
SetDead(S) ==
  /\ live' = [t \in Threads |-> live[t] /\ t \notin S]
  /\ owed' = [t \in Threads |-> IF t \in S /\ live[t] THEN head[t] ELSE owed[t]]

\* Drop for ThreadBuf: no lock is taken.
ThreadExit(t) ==
  /\ tpc[t] = "idle"
  /\ tpc' = [tpc EXCEPT ![t] = "exited"]
  /\ SetDead({t})
  /\ slipped' = IF live[t] /\ dpc = "reconcile" THEN slipped \cup {t}
                                                ELSE slipped
  /\ UNCHANGED <<policy, registry, head, tail, guardVars, loopVars,
                 passVars, sinkVars, late>>

-----------------------------------------------------------------------------
(* Drop for Guard.                                                          *)

GuardWalk_Nothing ==
  /\ gpc = "held" /\ Unlocked
  /\ gpc' = "walked"
  /\ UNCHANGED <<policy, registry, ringVars, tpc, shutdown, loopVars,
                 passVars, sinkVars, historyVars>>

GuardWalk ==
  /\ gpc = "held" /\ Unlocked
  /\ gpc' = "walked"
  /\ SetDead(registry)
  /\ UNCHANGED <<policy, registry, head, tail, tpc, shutdown, loopVars,
                 passVars, sinkVars, late, slipped>>

GuardSignal ==
  /\ gpc = "walked"
  /\ shutdown' = TRUE
  /\ gpc' = "joining"
  /\ UNCHANGED <<policy, registry, ringVars, tpc, loopVars, passVars,
                 sinkVars, historyVars>>

GuardJoin ==
  /\ gpc = "joining" /\ dpc = "done"
  /\ gpc' = "dropped"
  /\ UNCHANGED <<policy, registry, ringVars, tpc, shutdown, loopVars,
                 passVars, sinkVars, historyVars>>

-----------------------------------------------------------------------------
(* Drain::run.                                                              *)

Top_CounterNotMasked ==
  /\ dpc = "top"
  /\ final' = shutdown
  /\ dpc' = IF shutdown \/ since_sync = 0 THEN "sync" ELSE "poll"
  /\ since_sync' = IF shutdown THEN since_sync ELSE since_sync + 1
  /\ todo' = IF dpc' = "poll" THEN rings ELSE {}
  /\ had_work' = FALSE
  /\ UNCHANGED <<policy, registry, ringVars, tpc, guardVars, rings,
                 dirty, passVars, sinkVars, historyVars>>

Top_IgnoresShutdown ==
  /\ dpc = "top"
  /\ dpc' = IF since_sync = 0 THEN "sync" ELSE "poll"
  /\ since_sync' = (since_sync + 1) % SyncEvery
  /\ todo' = IF dpc' = "poll" THEN rings ELSE {}
  /\ had_work' = FALSE
  /\ UNCHANGED <<policy, registry, ringVars, tpc, guardVars, final, rings,
                 dirty, passVars, sinkVars, historyVars>>

\* Top of the loop: leave it on shutdown, re-scan the registry on cadence.
Top ==
  /\ dpc = "top"
  /\ final' = shutdown
  /\ dpc' = IF shutdown \/ since_sync = 0 THEN "sync" ELSE "poll"
  /\ since_sync' = IF shutdown THEN since_sync ELSE (since_sync + 1) % SyncEvery
  /\ todo' = IF dpc' = "poll" THEN rings ELSE {}
  /\ had_work' = FALSE
  /\ UNCHANGED <<policy, registry, ringVars, tpc, guardVars, rings,
                 dirty, passVars, sinkVars, historyVars>>

SyncFilter_LocalOnly ==
  /\ dpc = "sync"
  /\ todo' = {t \in rings : ~live[t]}
  /\ dpc' = "reconcile"
  /\ UNCHANGED <<policy, registry, ringVars, tpc, guardVars, final, rings,
                 since_sync, had_work, dirty, passVars, sinkVars, historyVars>>

\* sync_rings takes the lock and sets the dead rings of the registry, and of
\* the local list, aside for a last drain.
SyncFilter ==
  /\ dpc = "sync"
  /\ todo' = {t \in registry \cup rings : ~live[t]}
  /\ dpc' = "reconcile"
  /\ UNCHANGED <<policy, registry, ringVars, tpc, guardVars, final, rings,
                 since_sync, had_work, dirty, passVars, sinkVars, historyVars>>

SyncReconcile_NoNewRings ==
  /\ dpc = "reconcile"
  /\ rings' = {t \in rings : t \in registry /\ live[t]}
  /\ dpc' = "retain"
  /\ UNCHANGED <<policy, registry, ringVars, tpc, guardVars, final, todo,
                 since_sync, had_work, dirty, passVars, sinkVars, historyVars>>

\* It drops what is unregistered or dead by now from the local list, and adds
\* the registered rings that are live.
SyncReconcile ==
  /\ dpc = "reconcile"
  /\ rings' = {t \in registry : live[t]}
  /\ dpc' = "retain"
  /\ UNCHANGED <<policy, registry, ringVars, tpc, guardVars, final, todo,
                 since_sync, had_work, dirty, passVars, sinkVars, historyVars>>

\* It drops what is dead by now from the registry, and unlocks.
SyncRetain ==
  /\ dpc = "retain"
  /\ registry' = {t \in registry : live[t]}
  /\ dpc' = "finalize"
  /\ UNCHANGED <<policy, ringVars, tpc, guardVars, final, rings, todo,
                 since_sync, had_work, dirty, passVars, sinkVars, historyVars>>

\* drain_ring on t, from the finalize loop or from poll_once: read head and
\* hand what is there to the sink; an empty ring ends the pass at once.
\* Only poll_once looks at the result.
DrainRing(t) ==
  /\ dpc \in {"finalize", "poll"} /\ pass = {} /\ t \in todo
  /\ todo' = todo \ {t}
  /\ pass' = IF head[t] > tail[t] THEN {t} ELSE {}
  /\ seen' = IF head[t] > tail[t] THEN head[t] ELSE 0
  /\ sink' = [sink EXCEPT ![t] = @ \o [i \in 1 .. head[t] - tail[t] |-> tail[t] + i]]
  /\ had_work' = (had_work \/ (dpc = "poll" /\ head[t] > tail[t]))
  /\ UNCHANGED <<policy, registry, ringVars, tpc, guardVars, dpc, final,
                 rings, since_sync, dirty, flushed, historyVars>>

StoreTail_Missing ==
  /\ pass # {}
  /\ pass' = {} /\ seen' = 0
  /\ UNCHANGED <<policy, registry, live, head, tail, tpc, guardVars,
                 loopVars, sinkVars, historyVars>>

\* The end of a non-empty pass: the Release store of tail.
StoreTail ==
  /\ pass # {}
  /\ tail' = [t \in Threads |-> IF t \in pass THEN seen ELSE tail[t]]
  /\ pass' = {} /\ seen' = 0
  /\ UNCHANGED <<policy, registry, live, head, tpc, guardVars, loopVars,
                 sinkVars, historyVars>>

FinalizeDone ==
  /\ dpc = "finalize" /\ todo = {} /\ pass = {}
  /\ dpc' = "poll"
  /\ todo' = rings
  /\ UNCHANGED <<policy, registry, ringVars, tpc, guardVars, final,
                 rings, since_sync, had_work, dirty, passVars, sinkVars,
                 historyVars>>

\* What a flush makes visible: all the sink has accepted.
Accepted == [t \in Threads |-> Len(sink[t])]

PollDone == dpc = "poll" /\ todo = {} /\ pass = {}

\* poll_once found work: poll again at once.
Repoll ==
  /\ PollDone /\ ~final /\ had_work
  /\ dirty' = TRUE
  /\ dpc' = "top"
  /\ UNCHANGED <<policy, registry, ringVars, tpc, guardVars, final, rings,
                 todo, since_sync, had_work, passVars, sinkVars, historyVars>>

GoIdle_NoFlush ==
  /\ PollDone /\ ~final /\ ~had_work
  /\ dirty' = FALSE
  /\ dpc' = "top"
  /\ UNCHANGED <<policy, registry, ringVars, tpc, guardVars, final, rings,
                 todo, since_sync, had_work, passVars, sinkVars, historyVars>>

\* poll_once found nothing: flush once if the sink is dirty, back off.
GoIdle ==
  /\ PollDone /\ ~final /\ ~had_work
  /\ flushed' = IF dirty THEN Accepted ELSE flushed
  /\ dirty' = FALSE
  /\ dpc' = "top"
  /\ UNCHANGED <<policy, registry, ringVars, tpc, guardVars, final, rings,
                 todo, since_sync, had_work, passVars, sink, historyVars>>

FinalFlush_IfDirty ==
  /\ PollDone /\ final
  /\ flushed' = IF dirty THEN Accepted ELSE flushed
  /\ dpc' = "done"
  /\ UNCHANGED <<policy, registry, ringVars, tpc, guardVars, final, rings,
                 todo, since_sync, had_work, dirty, passVars, sink, historyVars>>

\* The end of the pass after the loop: flush, and the thread ends.
FinalFlush ==
  /\ PollDone /\ final
  /\ flushed' = Accepted
  /\ dpc' = "done"
  /\ UNCHANGED <<policy, registry, ringVars, tpc, guardVars, final, rings,
                 todo, since_sync, had_work, dirty, passVars, sink, historyVars>>

-----------------------------------------------------------------------------
Thread(t) ==
  \/ Register(t) \/ Reserve(t) \/ Spin(t) \/ Publish(t) \/ Abandon(t)
  \/ ThreadExit(t)

Guard == GuardWalk \/ GuardSignal \/ GuardJoin

Drain ==
  \/ Top \/ SyncFilter \/ SyncReconcile \/ SyncRetain
  \/ \E t \in Threads : DrainRing(t)
  \/ StoreTail \/ FinalizeDone \/ Repoll \/ GoIdle \/ FinalFlush

Next == (\E t \in Threads : Thread(t)) \/ Guard \/ Drain

Spec == Init /\ [][Next]_vars

\* The drain thread runs until it returns; a log call that has started goes
\* on; a guard whose drop has started goes on.  Nothing makes a thread log,
\* a thread exit or the program drop its guard.
Fairness ==
  /\ WF_vars(Drain)
  /\ \A t \in Threads : WF_vars(Spin(t) \/ Publish(t) \/ Abandon(t))
  /\ WF_vars(GuardSignal \/ GuardJoin)

FairSpec == Spec /\ Fairness

-----------------------------------------------------------------------------
(* Properties.                                                              *)

TypeOK ==
  /\ policy \in Policies
  /\ registry \subseteq Threads
  /\ live \in [Threads -> BOOLEAN]
  /\ head \in [Threads -> Nat] /\ tail \in [Threads -> Nat]
  /\ tpc \in [Threads -> {"new", "idle", "waiting", "reserved", "exited"}]
  /\ shutdown \in BOOLEAN
  /\ gpc \in {"held", "walked", "joining", "dropped"}
  /\ dpc \in {"top", "sync", "reconcile", "retain", "finalize", "poll", "done"}
  /\ final \in BOOLEAN
  /\ rings \subseteq Threads /\ todo \subseteq Threads /\ pass \subseteq Threads
  /\ seen \in Nat /\ since_sync \in 0 .. SyncEvery - 1
  /\ had_work \in BOOLEAN /\ dirty \in BOOLEAN
  /\ sink \in [Threads -> Seq(Nat)] /\ flushed \in [Threads -> Nat]
  /\ owed \in [Threads -> Nat]
  /\ late \subseteq Threads /\ slipped \subseteq Threads

\* The sink receives each thread's records once and in the order of the
\* thread's calls, however the last drain of a dead ring (sync_rings) and
\* the polls of the live ones (poll_once) interleave with its log calls.
ExactlyOnceInOrder ==
  \A t \in Threads :
    /\ Len(sink[t]) <= head[t]
    /\ \A i \in 1 .. Len(sink[t]) : sink[t][i] = i

\* t's ring is dead and on no list any more.
Forgotten(t) == ~live[t] /\ t \notin registry \cup rings \cup todo

\* "A single liveness check per ring decided both drain and removal, so a ring
\* cannot slip from kept to dropped between the two" (sync_rings): a ring that
\* is on no list any more has nothing left that was published before its
\* `live` was cleared.  Does not hold: the lists are reconciled by reading
\* `live` again, after the scan for rings that need a last drain.
NoOrphan ==
  \A t \in Threads : Forgotten(t) => Len(sink[t]) >= owed[t]

\* That window is the only one: a ring whose thread did not exit inside it is
\* forgotten only when its records are delivered, for any order of exits,
\* guard drop, registry scans and passes.
OnlySlippedLost ==
  \A t \in Threads \ slipped : Forgotten(t) => Len(sink[t]) >= owed[t]

\* Once the drain has stopped, every record published before Guard::drop
\* (or the thread's own exit) cleared `live` is in the sink and flushed: "so
\* records written just before shutdown are not lost" (run, final pass).
StoppedMeansFlushed ==
  dpc = "done" =>
    /\ flushed = Accepted
    /\ \A t \in Threads \ (late \cup slipped) : Len(sink[t]) >= owed[t]

\* Records of t the drain still has to deliver: those published before its
\* ring's `live` was cleared.
Behind(t) == Len(sink[t]) < IF live[t] THEN head[t] ELSE owed[t]

\* A registered thread's backlog is worked off, also when the thread exits at
\* once or the guard is dropped next (run: cadence of sync_rings, final pass);
\* threads that slip through sync_rings' scan excepted.
BacklogIsDelivered ==
  \A t \in Threads : (Behind(t) /\ t \notin late) ~> (~Behind(t) \/ t \in slipped)

\* What a poll delivered is flushed: the flush that follows the drain going
\* idle, or the final one, covers it.
PolledIsFlushed == dirty ~> (flushed = Accepted)

\* Guard::drop comes back whatever the threads do.
GuardDropReturns == (gpc = "walked") ~> (gpc = "dropped")

\* A Block call on a full ring comes back: the drain makes room, or the guard
\* found the ring in the registry and cleared its `live`.
RegisteredWaiterReturns ==
  \A t \in Threads :
    (tpc[t] = "waiting" /\ t \notin late) ~> (tpc[t] # "waiting")

\* "Mark every registered ring dead before the drain exits [...] preventing a
\* hang after the drain is gone" (Guard::drop): no Block call hangs.
\* Does not hold: a thread whose first log call registers its ring after the
\* guard's walk keeps `live` set and spins for ever on a ring nobody drains.
WaiterReturns ==
  \A t \in Threads : (tpc[t] = "waiting") ~> (tpc[t] # "waiting")

\* "[flush is called] when the drain goes idle [...] so a buffered sink never
\* holds a record indefinitely" (LogSink::flush): what the sink holds is
\* flushed at some later time.  Does not hold: the last drain of a dead ring
\* in sync_rings does not set `dirty`, and the next idle pass skips the flush.
AcceptedIsFlushed == (flushed # Accepted) ~> (flushed = Accepted)
=============================================================================
