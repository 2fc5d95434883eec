---------------------------- MODULE LoggerProofs ----------------------------
(***************************************************************************)
(* Proofs about Logger for any number of threads, both policies, rings of   *)
(* any size, any cadence of the registry scan and any number of records.    *)
(*                                                                          *)
(* None of Logger's properties is inductive.  That a pass delivers what     *)
(* follows in order depends on the sink being level with tail between       *)
(* passes; that nothing is forgotten depends on where sync_rings is in its  *)
(* section when a thread dies; and that the final pass is complete depends  *)
(* on the guard having walked the registry before it raised shutdown.       *)
(* IInv states all of it.                                                   *)
(***************************************************************************)
EXTENDS Logger, Lemmas, TLAPS

(* The inductive invariant.                                                 *)

\* A pass is over one ring, within the finalize loop or poll_once, and goes
\* beyond tail up to a head it has read.
PassInv ==
  /\ \A t, u \in pass : t = u
  /\ pass # {} => dpc \in {"finalize", "poll"}
  /\ \A t \in pass : tail[t] < seen /\ seen <= head[t]

\* The sink holds the first records of each thread: as many as the ring's
\* tail says, or as the pass in progress will make it say.
SinkInv ==
  \A t \in Threads :
    /\ Len(sink[t]) = IF t \in pass THEN seen ELSE tail[t]
    /\ Len(sink[t]) <= head[t]
    /\ \A i \in 1 .. Len(sink[t]) : sink[t][i] = i

\* A ring's life: unpublished and unregistered at first, registered as long
\* as it is live; what is owed at its death was published.
LifeInv ==
  \A t \in Threads :
    /\ owed[t] <= head[t]
    /\ live[t] => owed[t] = 0
    /\ tpc[t] = "new" => live[t] /\ t \notin registry
    /\ tpc[t] # "new" /\ live[t] => t \in registry

\* Records published before the death of t's ring are not delivered yet.
Unpaid(t) == ~live[t] /\ Len(sink[t]) < owed[t]

\* A dead ring with records to deliver is on a list sync_rings or the drain
\* looks at next; inside the section this depends on the step it is at.
ListInv ==
  /\ todo # {} => dpc \in {"reconcile", "retain", "finalize", "poll"}
  /\ dpc = "retain" => \A t \in registry : live[t] => t \in rings
  /\ \A t \in Threads \ slipped : Unpaid(t) =>
       /\ dpc = "reconcile" => t \in todo
       /\ dpc = "retain" => t \in todo \cup rings
       /\ t \in registry \cup rings \cup todo

\* shutdown is raised after the walk, which leaves only late rings live, so
\* in the final pass the scan finds every ring that matters, and the finalize
\* loop pays what it owes.
FinalInv ==
  /\ shutdown => gpc \in {"joining", "dropped"}
  /\ final => shutdown /\ dpc # "top"
  /\ gpc # "held" => \A t \in Threads \ late : tpc[t] = "new" \/ ~live[t]
  /\ final => \A t \in Threads \ (late \cup slipped) : Unpaid(t) =>
       /\ dpc \in {"reconcile", "retain", "finalize"} => t \in todo
       /\ dpc \notin {"poll", "done"}
  /\ dpc = "done" => final /\ flushed = Accepted

IInv == TypeOK /\ PassInv /\ SinkInv /\ LifeInv /\ ListInv /\ FinalInv
-----------------------------------------------------------------------------
(* What the pass hands to the sink.                                         *)

\* A pass brings the sink level with the head it has read.
LEMMA DrainRingSink ==
  ASSUME IInv, NEW t \in Threads, DrainRing(t)
  PROVE  /\ tail[t] <= head[t]
         /\ sink' \in [Threads -> Seq(Nat)]
         /\ Len(sink'[t]) = head[t]
         /\ \A i \in 1 .. head[t] : sink'[t][i] = i
         /\ \A u \in Threads : u # t => sink'[u] = sink[u]
<1>1. /\ sink[t] \in Seq(Nat) /\ tail[t] \in Nat /\ head[t] \in Nat
      /\ sink \in [Threads -> Seq(Nat)]
  BY DEF IInv, TypeOK
<1>2. Len(sink[t]) = tail[t] /\ tail[t] <= head[t]
  BY DEF IInv, SinkInv, DrainRing
<1>3. \A i \in 1 .. tail[t] : sink[t][i] = i
  BY <1>2 DEF IInv, SinkInv
<1> DEFINE r == sink[t] \o Run(tail[t], head[t])
<1>4. r \in Seq(Nat) /\ Len(r) = head[t] /\ \A i \in 1 .. head[t] : r[i] = i
  BY <1>1, <1>2, <1>3, RunConcat
<1>5. sink' = [sink EXCEPT ![t] = r]
  BY DEF DrainRing, Run
<1> HIDE DEF r
<1> QED BY <1>1, <1>2, <1>4, <1>5
-----------------------------------------------------------------------------
(* Type correctness.                                                        *)

\* Clearing `live` leaves both functions in their types.
LEMMA SetDeadType ==
  ASSUME TypeOK, NEW S, SetDead(S)
  PROVE  /\ live' \in [Threads -> BOOLEAN] /\ owed' \in [Threads -> Nat]
         /\ \A t \in Threads : live'[t] <=> live[t] /\ t \notin S
         /\ \A t \in Threads :
              owed'[t] = IF t \in S /\ live[t] THEN head[t] ELSE owed[t]
  BY DEF TypeOK, SetDead

\* Every step of a thread, the guard or the drain keeps every variable in its
\* type.
LEMMA TypeStep == IInv /\ [Next]_vars => TypeOK'
<1> SUFFICES ASSUME IInv, [Next]_vars PROVE TypeOK'
  OBVIOUS
<1> USE LoggerAssumption
<1>t. TypeOK
  BY DEF IInv
<1>1. ASSUME NEW t \in Threads, Thread(t) PROVE TypeOK'
  <2>1. CASE Register(t)
    BY <1>t, <2>1 DEF TypeOK, Register, ringVars, guardVars, loopVars, passVars,
                      sinkVars
  <2>2. CASE Reserve(t) \/ Spin(t) \/ Abandon(t)
    <3>1. tpc' \in [Threads -> {"new", "idle", "waiting", "reserved", "exited"}]
      BY <1>t, <2>2 DEF TypeOK, Reserve, Spin, Abandon
    <3>2. UNCHANGED <<policy, registry, ringVars, guardVars, loopVars,
                      passVars, sinkVars, historyVars>>
      BY <2>2 DEF Reserve, Spin, Abandon
    <3> QED BY <1>t, <3>1, <3>2 DEF TypeOK, ringVars, guardVars, loopVars,
                                    passVars, sinkVars, historyVars
  <2>3. CASE Publish(t)
    BY <1>t, <2>3 DEF TypeOK, Publish, guardVars, loopVars, passVars, sinkVars,
                      historyVars
  <2>4. CASE ThreadExit(t)
    <3>1. live' \in [Threads -> BOOLEAN] /\ owed' \in [Threads -> Nat]
      BY <1>t, <2>4, SetDeadType DEF ThreadExit
    <3> QED BY <1>t, <2>4, <3>1 DEF TypeOK, ThreadExit, guardVars, loopVars,
                                    passVars, sinkVars
  <2> QED BY <1>1, <2>1, <2>2, <2>3, <2>4 DEF Thread
<1>2. CASE GuardWalk
  <2>1. live' \in [Threads -> BOOLEAN] /\ owed' \in [Threads -> Nat]
    BY <1>t, <1>2, SetDeadType DEF GuardWalk
  <2> QED BY <1>t, <1>2, <2>1 DEF TypeOK, GuardWalk, loopVars, passVars,
                                  sinkVars
<1>3. CASE GuardSignal \/ GuardJoin
  BY <1>t, <1>3 DEF TypeOK, GuardSignal, GuardJoin, ringVars, loopVars,
                    passVars, sinkVars, historyVars
<1>4. CASE Top
  <2>1. since_sync' \in 0 .. SyncEvery - 1
    BY <1>t, <1>4 DEF TypeOK, Top
  <2> QED BY <1>t, <1>4, <2>1 DEF TypeOK, Top, ringVars, guardVars, passVars,
                                  sinkVars, historyVars
<1>5. CASE SyncFilter \/ SyncReconcile \/ SyncRetain
  BY <1>t, <1>5 DEF TypeOK, SyncFilter, SyncReconcile, SyncRetain, ringVars,
                    guardVars, passVars, sinkVars, historyVars
<1>6. ASSUME NEW t \in Threads, DrainRing(t) PROVE TypeOK'
  <2>1. sink' \in [Threads -> Seq(Nat)]
    BY <1>6, DrainRingSink
  <2>2. pass' \subseteq Threads /\ seen' \in Nat /\ had_work' \in BOOLEAN
    BY <1>t, <1>6 DEF TypeOK, DrainRing
  <2> QED BY <1>t, <1>6, <2>1, <2>2 DEF TypeOK, DrainRing, ringVars, guardVars,
                                        historyVars
<1>7. CASE StoreTail
  BY <1>t, <1>7 DEF TypeOK, StoreTail, guardVars, loopVars, sinkVars,
                    historyVars
<1>8. CASE FinalizeDone \/ Repoll
  BY <1>t, <1>8 DEF TypeOK, FinalizeDone, Repoll, PollDone, ringVars, guardVars,
                    passVars, sinkVars, historyVars
<1>9. CASE GoIdle \/ FinalFlush
  <2>1. Accepted \in [Threads -> Nat]
    BY <1>t DEF TypeOK, Accepted
  <2> QED BY <1>t, <1>9, <2>1 DEF TypeOK, GoIdle, FinalFlush, PollDone,
               ringVars, guardVars, passVars, historyVars
<1>10. CASE UNCHANGED vars
  BY <1>t, <1>10 DEF TypeOK, vars, ringVars, guardVars, loopVars, passVars,
                     sinkVars, historyVars
<1> QED BY <1>1, <1>2, <1>3, <1>4, <1>5, <1>6, <1>7, <1>8, <1>9, <1>10
           DEF Next, Guard, Drain
-----------------------------------------------------------------------------
(* The pass and the sink.                                                   *)

\* What the threads and the guard do to the rings' cursors: they only publish.
LEMMA ThreadsOnlyPublish ==
  ASSUME TypeOK, NEW t \in Threads, Thread(t)
  PROVE  /\ \A u \in Threads : head'[u] >= head[u]
         /\ UNCHANGED <<tail, pass, seen, sink, dpc>>
<1>1. CASE Publish(t)
  BY <1>1 DEF TypeOK, Publish, loopVars, passVars, sinkVars
<1>2. CASE ~Publish(t)
  <2>1. UNCHANGED <<head, tail, pass, seen, sink, dpc>>
    BY <1>2 DEF Thread, Register, Reserve, Spin, Abandon, ThreadExit, ringVars,
                loopVars, passVars, sinkVars
  <2> QED BY <2>1 DEF TypeOK
<1> QED BY <1>1, <1>2

\* A pass stays within what is published, and the sink level with it.
LEMMA SinkStep ==
  ASSUME IInv, TypeOK', [Next]_vars PROVE PassInv' /\ SinkInv'
<1>1. CASE /\ \A u \in Threads : head'[u] >= head[u]
           /\ UNCHANGED <<tail, pass, seen, sink, dpc>>
  <2>1. PassInv'
    BY <1>1 DEF IInv, PassInv, TypeOK
  <2>2. SinkInv'
    <3> SUFFICES ASSUME NEW u \in Threads
                 PROVE  /\ Len(sink[u]) = IF u \in pass THEN seen ELSE tail[u]
                        /\ Len(sink[u]) <= head'[u]
                        /\ \A i \in 1 .. Len(sink[u]) : sink[u][i] = i
      BY <1>1 DEF SinkInv
    <3>1. Len(sink[u]) \in Nat /\ head[u] \in Nat /\ head'[u] \in Nat
      BY DEF IInv, TypeOK
    <3> QED BY <1>1, <3>1 DEF IInv, SinkInv
  <2> QED BY <2>1, <2>2
<1>2. ASSUME NEW t \in Threads, Thread(t) PROVE PassInv' /\ SinkInv'
  BY <1>1, <1>2, ThreadsOnlyPublish DEF IInv
<1>3. CASE Guard \/ UNCHANGED vars
  <2>1. UNCHANGED <<head, tail, pass, seen, sink, dpc>>
    BY <1>3 DEF Guard, GuardWalk, GuardSignal, GuardJoin, vars, ringVars,
                loopVars, passVars, sinkVars
  <2>2. \A u \in Threads : head'[u] >= head[u]
    BY <2>1 DEF IInv, TypeOK
  <2> QED BY <1>1, <2>1, <2>2
<1>4. CASE \/ Top \/ SyncFilter \/ SyncReconcile \/ SyncRetain
           \/ FinalizeDone \/ Repoll \/ GoIdle \/ FinalFlush
  <2>1. pass = {}
    BY <1>4 DEF IInv, PassInv, Top, SyncFilter, SyncReconcile, SyncRetain,
                FinalizeDone, Repoll, GoIdle, FinalFlush, PollDone
  <2>2. UNCHANGED <<head, tail, pass, seen, sink>>
    BY <1>4 DEF Top, SyncFilter, SyncReconcile, SyncRetain, FinalizeDone,
                Repoll, GoIdle, FinalFlush, ringVars, passVars, sinkVars
  <2>3. PassInv'
    BY <2>1, <2>2 DEF PassInv
  <2>4. SinkInv'
    BY <2>2 DEF IInv, SinkInv
  <2> QED BY <2>3, <2>4
<1>5. ASSUME NEW t \in Threads, DrainRing(t) PROVE PassInv' /\ SinkInv'
  <2>1. /\ tail[t] <= head[t]
        /\ Len(sink'[t]) = head[t]
        /\ \A i \in 1 .. head[t] : sink'[t][i] = i
        /\ \A u \in Threads : u # t => sink'[u] = sink[u]
    BY <1>5, DrainRingSink
  <2>2. /\ pass = {} /\ dpc \in {"finalize", "poll"}
        /\ pass' = IF head[t] > tail[t] THEN {t} ELSE {}
        /\ seen' = IF head[t] > tail[t] THEN head[t] ELSE 0
        /\ UNCHANGED <<head, tail, dpc>>
    BY <1>5 DEF DrainRing, ringVars
  <2>3. head[t] \in Nat /\ tail[t] \in Nat
    BY DEF IInv, TypeOK
  <2>4. PassInv'
    BY <2>2, <2>3 DEF PassInv
  <2>5. SinkInv'
    <3> SUFFICES ASSUME NEW u \in Threads
                 PROVE  /\ Len(sink'[u]) = IF u \in pass' THEN seen' ELSE tail[u]
                        /\ Len(sink'[u]) <= head[u]
                        /\ \A i \in 1 .. Len(sink'[u]) : sink'[u][i] = i
      BY <2>2 DEF SinkInv
    <3>1. CASE u = t
      BY <2>1, <2>2, <2>3, <3>1
    <3>2. CASE u # t
      BY <2>1, <2>2, <3>2 DEF IInv, SinkInv
    <3> QED BY <3>1, <3>2
  <2> QED BY <2>4, <2>5
<1>6. CASE StoreTail
  <2>1. /\ pass' = {} /\ UNCHANGED <<head, sink>>
        /\ \A u \in Threads : tail'[u] = IF u \in pass THEN seen ELSE tail[u]
    BY <1>6 DEF StoreTail, sinkVars
  <2>2. PassInv'
    BY <2>1 DEF PassInv
  <2>3. SinkInv'
    BY <2>1 DEF IInv, SinkInv
  <2> QED BY <2>2, <2>3
<1> QED BY <1>2, <1>3, <1>4, <1>5, <1>6 DEF Next, Drain
-----------------------------------------------------------------------------
(* The life of a ring.                                                      *)

\* What a step of the drain leaves alone: the threads, the guard and `live`.
LEMMA DrainKeeps ==
  ASSUME Drain
  PROVE  UNCHANGED <<live, head, tpc, shutdown, gpc, owed, late, slipped>>
  BY DEF Drain, Top, SyncFilter, SyncReconcile, SyncRetain, DrainRing,
         StoreTail, FinalizeDone, Repoll, GoIdle, FinalFlush, ringVars,
         guardVars, historyVars

\* A ring is registered before it carries anything and stays so while live.
LEMMA LifeStep ==
  ASSUME IInv, TypeOK', [Next]_vars PROVE LifeInv'
<1> USE DEF LifeInv
<1>t. TypeOK /\ LifeInv
  BY DEF IInv
<1>1. ASSUME NEW t \in Threads, Thread(t) PROVE LifeInv'
  <2>1. CASE Register(t)
    BY <1>t, <2>1 DEF TypeOK, Register, ringVars
  <2>2. CASE Reserve(t) \/ Spin(t) \/ Abandon(t)
    <3>1. UNCHANGED <<owed, head, live, registry>>
      BY <2>2 DEF Reserve, Spin, Abandon, ringVars, historyVars
    <3>2. PICK p \in {"idle", "waiting", "reserved"} :
            tpc' = [tpc EXCEPT ![t] = p]
      BY <2>2 DEF Reserve, Spin, Abandon
    <3>3. tpc[t] # "new"
      BY <2>2 DEF Reserve, Spin, Abandon
    <3> QED BY <1>t, <3>1, <3>2, <3>3 DEF TypeOK
  <2>3. CASE Publish(t)
    <3>1. UNCHANGED <<owed, live, registry>> /\ tpc[t] # "new"
      BY <2>3 DEF Publish, historyVars
    <3>2. \A u \in Threads : tpc'[u] = "new" <=> tpc[u] = "new"
      BY <1>t, <2>3 DEF TypeOK, Publish
    <3>3. \A u \in Threads : /\ head[u] \in Nat /\ owed[u] \in Nat
                             /\ head'[u] = head[u] \/ head'[u] = head[u] + 1
      BY <1>t, <2>3 DEF TypeOK, Publish
    <3>4. \A u \in Threads : owed[u] <= head'[u]
      BY <1>t, <3>3
    <3> QED BY <1>t, <3>1, <3>2, <3>4
  <2>4. CASE ThreadExit(t)
    <3>1. /\ \A u \in Threads : live'[u] <=> live[u] /\ u \notin {t}
          /\ \A u \in Threads :
               owed'[u] = IF u \in {t} /\ live[u] THEN head[u] ELSE owed[u]
      BY <1>t, <2>4, SetDeadType DEF ThreadExit
    <3>2. /\ UNCHANGED <<head, registry>> /\ tpc[t] = "idle"
          /\ tpc'[t] = "exited" /\ \A u \in Threads \ {t} : tpc'[u] = tpc[u]
      BY <1>t, <2>4 DEF TypeOK, ThreadExit
    <3>3. \A u \in Threads : head[u] \in Nat
      BY <1>t DEF TypeOK
    <3> QED BY <1>t, <3>1, <3>2, <3>3
  <2> QED BY <1>1, <2>1, <2>2, <2>3, <2>4 DEF Thread
<1>2. CASE GuardWalk
  <2>1. /\ \A u \in Threads : live'[u] <=> live[u] /\ u \notin registry
        /\ \A u \in Threads :
             owed'[u] = IF u \in registry /\ live[u] THEN head[u] ELSE owed[u]
    BY <1>t, <1>2, SetDeadType DEF GuardWalk
  <2>2. UNCHANGED <<head, registry, tpc>>
    BY <1>2 DEF GuardWalk
  <2> QED BY <1>t, <2>1, <2>2 DEF TypeOK
<1>3. CASE SyncRetain
  BY <1>t, <1>3 DEF SyncRetain, ringVars, historyVars
<1>4. CASE (Drain /\ ~SyncRetain) \/ GuardSignal \/ GuardJoin \/ UNCHANGED vars
  <2>1. UNCHANGED <<owed, head, live, registry, tpc>>
    BY <1>4, DrainKeeps
       DEF Drain, Top, SyncFilter, SyncReconcile, DrainRing, StoreTail,
           FinalizeDone, Repoll, GoIdle, FinalFlush, GuardSignal, GuardJoin,
           vars, ringVars, historyVars
  <2> QED BY <1>t, <2>1
<1> QED BY <1>1, <1>2, <1>3, <1>4 DEF Next, Guard
-----------------------------------------------------------------------------
(* What is owed, and the lists.                                             *)

\* Only a thread's own exit and the guard's walk kill a ring, and it is
\* registered when they do.
LEMMA Deaths ==
  ASSUME IInv, [Next]_vars, NEW u \in Threads, live[u], ~live'[u]
  PROVE  u \in registry /\ (ThreadExit(u) \/ GuardWalk)
<1>t. TypeOK /\ LifeInv
  BY DEF IInv
<1>1. ASSUME NEW t \in Threads, ThreadExit(t)
      PROVE  u = t /\ u \in registry
  <2>1. live'[u] <=> live[u] /\ u \notin {t}
    BY <1>t, <1>1, SetDeadType DEF ThreadExit
  <2>2. tpc[t] # "new"
    BY <1>1 DEF ThreadExit
  <2> QED BY <1>t, <2>1, <2>2 DEF LifeInv
<1>2. CASE GuardWalk
  <2>1. live'[u] <=> live[u] /\ u \notin registry
    BY <1>t, <1>2, SetDeadType DEF GuardWalk
  <2> QED BY <2>1, <1>2
<1>3. ASSUME NEW t \in Threads, Thread(t), ~ThreadExit(t) PROVE FALSE
  <2>1. live' = live
    BY <1>3 DEF Thread, Register, Reserve, Spin, Publish, Abandon, ringVars
  <2> QED BY <2>1
<1>4. ~(Drain \/ GuardSignal \/ GuardJoin \/ UNCHANGED vars)
  <2>1. Drain \/ GuardSignal \/ GuardJoin \/ UNCHANGED vars => live' = live
    BY DrainKeeps DEF GuardSignal, GuardJoin, vars, ringVars
  <2> QED BY <2>1
<1> QED BY <1>1, <1>2, <1>3, <1>4 DEF Next, Guard

\* The debt of a ring that is dead already never grows.
LEMMA DebtShrinks ==
  ASSUME IInv, TypeOK', [Next]_vars, NEW u \in Threads, ~live[u], Unpaid(u)'
  PROVE  Unpaid(u)
<1>t. /\ TypeOK /\ Len(sink[u]) \in Nat /\ Len(sink'[u]) \in Nat
      /\ owed[u] \in Nat
  <2>1. /\ sink[u] \in Seq(Nat) /\ sink'[u] \in Seq(Nat) /\ owed[u] \in Nat
    BY DEF IInv, TypeOK
  <2> QED BY <2>1 DEF IInv
<1>1. owed'[u] = owed[u]
  <2>1. ASSUME NEW S, SetDead(S) PROVE owed'[u] = owed[u]
    BY <1>t, <2>1, SetDeadType
  <2>2. ASSUME NEW t \in Threads, Thread(t) PROVE owed'[u] = owed[u]
    BY <2>1, <2>2 DEF Thread, Register, Reserve, Spin, Publish, Abandon,
                      ThreadExit, historyVars
  <2> QED BY <2>1, <2>2, DrainKeeps DEF Next, Guard, GuardWalk, GuardSignal,
                                        GuardJoin, vars, historyVars
<1>2. Len(sink[u]) <= Len(sink'[u])
  <2>1. ASSUME NEW t \in Threads, DrainRing(t)
        PROVE  Len(sink[u]) <= Len(sink'[u])
    <3>1. /\ Len(sink'[t]) = head[t]
          /\ u # t => sink'[u] = sink[u]
      BY <2>1, DrainRingSink
    <3>2. Len(sink[t]) <= head[t]
      BY DEF IInv, SinkInv
    <3> QED BY <1>t, <3>1, <3>2
  <2>2. (\A t \in Threads : ~DrainRing(t)) => sink' = sink
    BY DEF Next, Thread, Register, Reserve, Spin, Publish, Abandon, ThreadExit,
           Guard, GuardWalk, GuardSignal, GuardJoin, Drain, Top, SyncFilter,
           SyncReconcile, SyncRetain, StoreTail, FinalizeDone, Repoll, GoIdle,
           FinalFlush, vars, sinkVars
  <2> QED BY <1>t, <2>1, <2>2
<1> QED BY <1>t, <1>1, <1>2 DEF Unpaid

\* A pass over a ring pays its debt.
LEMMA PassPays ==
  ASSUME IInv, NEW t \in Threads, DrainRing(t) PROVE ~Unpaid(t)'
<1>1. Len(sink'[t]) = head[t] /\ owed' = owed
  BY DrainRingSink DEF DrainRing, historyVars
<1>2. owed[t] <= head[t] /\ owed[t] \in Nat /\ head[t] \in Nat
  BY DEF IInv, LifeInv, TypeOK
<1> QED BY <1>1, <1>2 DEF Unpaid

\* No step of a thread, the guard, the scan or a pass takes a ring that owes
\* records off the list it will be drained from.
LEMMA ListStep ==
  ASSUME IInv, TypeOK', [Next]_vars PROVE ListInv'
<1>t. TypeOK /\ LifeInv /\ ListInv
  BY DEF IInv
<1>a. ASSUME NEW u \in Threads, ~live[u], Unpaid(u)' PROVE Unpaid(u)
  BY <1>a, DebtShrinks
<1>b. ASSUME NEW u \in Threads, Unpaid(u)', live[u]
      PROVE  u \in registry /\ (ThreadExit(u) \/ GuardWalk)
  BY <1>b, Deaths DEF Unpaid
<1>1. ASSUME NEW t \in Threads, Thread(t) PROVE ListInv'
  <2>1. CASE Register(t)
    <3>1. /\ dpc \notin {"reconcile", "retain"} /\ registry' = registry \cup {t}
          /\ UNCHANGED <<dpc, todo, rings, live, slipped>>
      BY <2>1 DEF Register, Unlocked, ringVars, loopVars
    <3>2. \A u \in Threads : Unpaid(u)' => Unpaid(u)
      BY <1>a, <3>1 DEF Unpaid
    <3> QED BY <1>t, <3>1, <3>2 DEF ListInv
  <2>2. CASE Reserve(t) \/ Spin(t) \/ Publish(t) \/ Abandon(t)
    <3>1. UNCHANGED <<dpc, todo, rings, registry, live, slipped>>
      BY <2>2 DEF Reserve, Spin, Publish, Abandon, ringVars, loopVars,
                  historyVars
    <3>2. \A u \in Threads : Unpaid(u)' => Unpaid(u)
      BY <1>a, <3>1 DEF Unpaid
    <3> QED BY <1>t, <3>1, <3>2 DEF ListInv
  <2>3. CASE ThreadExit(t)
    <3>1. /\ UNCHANGED <<dpc, todo, rings, registry>>
          /\ slipped' = IF live[t] /\ dpc = "reconcile" THEN slipped \cup {t}
                                                        ELSE slipped
          /\ \A u \in Threads : live'[u] => live[u]
      BY <1>t, <2>3, SetDeadType DEF ThreadExit, loopVars
    <3>2. \A u \in Threads : live[u] /\ Unpaid(u)' => u = t /\ u \in registry
      <4> SUFFICES ASSUME NEW u \in Threads, live[u], Unpaid(u)'
                   PROVE  u = t /\ u \in registry
        OBVIOUS
      <4>1. u # t => live'[u]
        BY <1>t, <2>3, SetDeadType DEF ThreadExit
      <4> QED BY <4>1, <1>b DEF Unpaid
    <3>3. /\ todo' # {} => dpc' \in {"reconcile", "retain", "finalize", "poll"}
          /\ dpc' = "retain" => \A u \in registry' : live'[u] => u \in rings'
      BY <1>t, <3>1 DEF ListInv, TypeOK
    <3>4. ASSUME NEW u \in Threads \ slipped', Unpaid(u)'
          PROVE  /\ dpc' = "reconcile" => u \in todo'
                 /\ dpc' = "retain" => u \in todo' \cup rings'
                 /\ u \in registry' \cup rings' \cup todo'
      <4>1. CASE ~live[u]
        BY <1>t, <1>a, <3>1, <3>4, <4>1 DEF ListInv
      <4>2. CASE live[u]
        BY <1>t, <3>1, <3>2, <3>4, <4>2 DEF ListInv
      <4> QED BY <4>1, <4>2
    <3> QED BY <3>3, <3>4 DEF ListInv
  <2> QED BY <1>1, <2>1, <2>2, <2>3 DEF Thread
<1>2. CASE GuardWalk
  <2>1. /\ dpc \notin {"reconcile", "retain"}
        /\ UNCHANGED <<dpc, todo, rings, registry, slipped>>
    BY <1>2 DEF GuardWalk, Unlocked, loopVars
  <2>2. ASSUME NEW u \in Threads \ slipped, Unpaid(u)'
        PROVE  u \in registry \cup rings \cup todo
    BY <1>t, <1>a, <1>b, <2>2 DEF ListInv
  <2> QED BY <1>t, <2>1, <2>2 DEF ListInv
<1>3. CASE GuardSignal \/ GuardJoin \/ UNCHANGED vars
  <2>1. UNCHANGED <<dpc, todo, rings, registry, live, slipped>>
    BY <1>3 DEF GuardSignal, GuardJoin, vars, ringVars, loopVars, historyVars
  <2>2. \A u \in Threads : Unpaid(u)' => Unpaid(u)
    BY <1>a, <2>1 DEF Unpaid
  <2> QED BY <1>t, <2>1, <2>2 DEF ListInv
<1>4. CASE Drain
  <2>1. UNCHANGED <<live, slipped>> /\ \A u \in Threads : Unpaid(u)' => Unpaid(u)
    BY <1>a, <1>4, DrainKeeps DEF Unpaid
  <2>2. CASE \/ Top \/ FinalizeDone \/ Repoll \/ GoIdle \/ FinalFlush
    <3>1. /\ dpc \notin {"reconcile", "retain"}
          /\ dpc' \notin {"reconcile", "retain"}
          /\ todo = {} /\ UNCHANGED <<rings, registry>>
      BY <1>t, <2>2 DEF ListInv, Top, FinalizeDone, Repoll, GoIdle, FinalFlush,
                        PollDone
    <3>2. todo' # {} => dpc' = "poll"
      BY <2>2, <3>1 DEF Top, FinalizeDone, Repoll, GoIdle, FinalFlush
    <3> QED BY <1>t, <2>1, <3>1, <3>2 DEF ListInv
  <2>3. CASE SyncFilter
    <3>1. /\ dpc = "sync" /\ dpc' = "reconcile" /\ todo = {}
          /\ todo' = {t \in registry \cup rings : ~live[t]}
          /\ UNCHANGED <<rings, registry>>
      BY <1>t, <2>3 DEF ListInv, SyncFilter
    <3>2. ASSUME NEW u \in Threads \ slipped, Unpaid(u)' PROVE u \in todo'
      BY <1>t, <2>1, <3>1, <3>2 DEF ListInv, Unpaid
    <3> QED BY <2>1, <3>1, <3>2 DEF ListInv
  <2>4. CASE SyncReconcile
    <3>1. /\ dpc = "reconcile" /\ dpc' = "retain"
          /\ rings' = {t \in registry : live[t]}
          /\ UNCHANGED <<todo, registry>>
      BY <2>4 DEF SyncReconcile
    <3> QED BY <1>t, <2>1, <3>1 DEF ListInv
  <2>5. CASE SyncRetain
    <3>1. /\ dpc = "retain" /\ dpc' = "finalize" /\ UNCHANGED <<todo, rings>>
      BY <2>5 DEF SyncRetain
    <3> QED BY <1>t, <2>1, <3>1 DEF ListInv
  <2>6. ASSUME NEW t \in Threads, DrainRing(t) PROVE ListInv'
    <3>1. /\ dpc \in {"finalize", "poll"} /\ todo' = todo \ {t}
          /\ UNCHANGED <<dpc, rings, registry>>
      BY <2>6 DEF DrainRing
    <3>2. \A u \in Threads : Unpaid(u)' => u # t
      BY <2>6, PassPays
    <3> QED BY <1>t, <2>1, <3>1, <3>2 DEF ListInv
  <2>7. CASE StoreTail
    <3>1. UNCHANGED <<dpc, todo, rings, registry>>
      BY <2>7 DEF StoreTail, loopVars
    <3> QED BY <1>t, <2>1, <3>1 DEF ListInv
  <2> QED BY <1>4, <2>2, <2>3, <2>4, <2>5, <2>6, <2>7 DEF Drain
<1> QED BY <1>1, <1>2, <1>3, <1>4 DEF Next, Guard
-----------------------------------------------------------------------------
(* Shutdown.                                                                *)

\* After the walk a ring that is not late is dead or still to be made.
LEMMA WalkStep ==
  ASSUME IInv, TypeOK', [Next]_vars
  PROVE  gpc' # "held" =>
           \A t \in Threads \ late' : tpc'[t] = "new" \/ ~live'[t]
<1>t. /\ TypeOK /\ LifeInv
      /\ gpc # "held" => \A t \in Threads \ late : tpc[t] = "new" \/ ~live[t]
  BY DEF IInv, FinalInv
<1>1. ASSUME NEW t \in Threads, Register(t), gpc' # "held"
      PROVE  \A u \in Threads \ late' : tpc'[u] = "new" \/ ~live'[u]
  <2>1. /\ gpc # "held" /\ late' = late \cup {t} /\ live' = live
        /\ \A u \in Threads \ {t} : tpc'[u] = tpc[u]
    BY <1>t, <1>1 DEF TypeOK, Register, guardVars, ringVars
  <2> QED BY <1>t, <2>1
<1>2. ASSUME NEW t \in Threads, gpc' # "held",
             Reserve(t) \/ Spin(t) \/ Publish(t) \/ Abandon(t)
      PROVE  \A u \in Threads \ late' : tpc'[u] = "new" \/ ~live'[u]
  <2>1. UNCHANGED <<late, gpc, live>> /\ tpc[t] # "new"
    BY <1>2 DEF Reserve, Spin, Publish, Abandon, guardVars, ringVars, historyVars
  <2>2. \A u \in Threads \ {t} : tpc'[u] = tpc[u]
    <3>1. PICK p : tpc' = [tpc EXCEPT ![t] = p]
      BY <1>2 DEF Reserve, Spin, Publish, Abandon
    <3> QED BY <1>t, <3>1 DEF TypeOK
  <2> QED BY <1>t, <1>2, <2>1, <2>2
<1>3. ASSUME NEW t \in Threads, ThreadExit(t), gpc' # "held"
      PROVE  \A u \in Threads \ late' : tpc'[u] = "new" \/ ~live'[u]
  <2>1. \A u \in Threads : live'[u] <=> live[u] /\ u \notin {t}
    BY <1>t, <1>3, SetDeadType DEF ThreadExit
  <2>2. UNCHANGED <<late, gpc>> /\ \A u \in Threads \ {t} : tpc'[u] = tpc[u]
    BY <1>t, <1>3 DEF TypeOK, ThreadExit, guardVars
  <2> QED BY <1>t, <1>3, <2>1, <2>2
<1>4. CASE GuardWalk
  <2>1. \A u \in Threads : live'[u] <=> live[u] /\ u \notin registry
    BY <1>t, <1>4, SetDeadType DEF GuardWalk
  <2>2. tpc' = tpc
    BY <1>4 DEF GuardWalk
  <2> QED BY <1>t, <2>1, <2>2 DEF LifeInv
<1>5. CASE Drain \/ GuardSignal \/ GuardJoin \/ UNCHANGED vars
  <2>1. UNCHANGED <<tpc, live, late>> /\ (gpc' # "held" => gpc # "held")
    BY <1>5, DrainKeeps DEF GuardSignal, GuardJoin, vars, ringVars, guardVars,
                            historyVars
  <2> QED BY <1>t, <2>1
<1> QED BY <1>1, <1>2, <1>3, <1>4, <1>5 DEF Next, Thread, Guard

\* In the final pass nothing but a late ring can come to owe records, and the
\* finalize loop ends only when nothing is owed.
LEMMA FinalPassStep ==
  ASSUME IInv, TypeOK', [Next]_vars, final',
         NEW u \in Threads \ (late' \cup slipped'), Unpaid(u)'
  PROVE  /\ dpc' \in {"reconcile", "retain", "finalize"} => u \in todo'
         /\ dpc' \notin {"poll", "done"}
<1>t. TypeOK /\ ListInv /\ FinalInv
  BY DEF IInv
<1>1. CASE Top
  BY <1>1 DEF Top
<1>2. CASE ~Top
  <2>1. /\ final /\ gpc # "held" /\ u \notin late /\ u \notin slipped
    <3>1. final' = final
      BY <1>2 DEF Next, Thread, Register, Reserve, Spin, Publish, Abandon,
             ThreadExit, Guard, GuardWalk, GuardSignal, GuardJoin, Drain,
             SyncFilter, SyncReconcile, SyncRetain, DrainRing, StoreTail,
             FinalizeDone, Repoll, GoIdle, FinalFlush, vars, loopVars
    <3>2. late \subseteq late' /\ slipped \subseteq slipped'
      BY DrainKeeps DEF Next, Thread, Register, Reserve, Spin, Publish,
             Abandon, ThreadExit, Guard, GuardWalk, GuardSignal, GuardJoin,
             vars, historyVars
    <3> QED BY <1>t, <3>1, <3>2 DEF FinalInv
  <2>2. Unpaid(u)
    <3>1. CASE live[u]
      <4>1. ThreadExit(u)
        BY <2>1, <3>1, Deaths DEF Unpaid, GuardWalk
      <4>2. tpc[u] = "idle"
        BY <4>1 DEF ThreadExit
      <4> QED BY <1>t, <2>1, <3>1, <4>2 DEF FinalInv
    <3>2. CASE ~live[u]
      BY <3>2, DebtShrinks
    <3> QED BY <3>1, <3>2
  <2>3. /\ dpc \in {"reconcile", "retain", "finalize"} => u \in todo
        /\ dpc \notin {"poll", "done", "top"}
    BY <1>t, <2>1, <2>2 DEF FinalInv
  <2>4. CASE ~Drain
    <3>1. UNCHANGED <<dpc, todo>>
      BY <2>4 DEF Next, Thread, Register, Reserve, Spin, Publish, Abandon,
             ThreadExit, Guard, GuardWalk, GuardSignal, GuardJoin, vars,
             loopVars
    <3> QED BY <2>3, <3>1
  <2>5. CASE SyncFilter
    <3>1. /\ dpc = "sync" /\ dpc' = "reconcile"
          /\ todo' = {t \in registry \cup rings : ~live[t]}
      BY <2>5 DEF SyncFilter
    <3> QED BY <1>t, <2>1, <2>2, <3>1 DEF ListInv, Unpaid
  <2>6. CASE SyncReconcile \/ SyncRetain \/ StoreTail
    <3>1. /\ UNCHANGED todo
          /\ dpc' = dpc \/ (dpc' \in {"retain", "finalize"}
                            /\ dpc \in {"reconcile", "retain"})
      BY <2>6 DEF SyncReconcile, SyncRetain, StoreTail, loopVars
    <3> QED BY <2>3, <3>1
  <2>7. ASSUME NEW t \in Threads, DrainRing(t)
        PROVE  dpc' = "finalize" /\ u \in todo'
    <3>1. /\ dpc \in {"finalize", "poll"} /\ todo' = todo \ {t} /\ dpc' = dpc
      BY <2>7 DEF DrainRing
    <3>2. u # t
      BY <2>7, PassPays
    <3> QED BY <2>3, <3>1, <3>2
  <2>8. CASE FinalizeDone \/ Repoll \/ GoIdle \/ FinalFlush
    BY <2>3, <2>8 DEF FinalizeDone, Repoll, GoIdle, FinalFlush, PollDone
  <2> QED BY <1>2, <2>4, <2>5, <2>6, <2>7, <2>8 DEF Drain
<1> QED BY <1>1, <1>2

\* Shutdown follows the walk, the final pass follows shutdown, and the drain
\* ends in a flush.
LEMMA FinalStep ==
  ASSUME IInv, TypeOK', [Next]_vars PROVE FinalInv'
<1>t. TypeOK /\ FinalInv
  BY DEF IInv
<1>1. gpc' # "held" => \A t \in Threads \ late' : tpc'[t] = "new" \/ ~live'[t]
  BY WalkStep
<1>2. final' => \A t \in Threads \ (late' \cup slipped') : Unpaid(t)' =>
        /\ dpc' \in {"reconcile", "retain", "finalize"} => t \in todo'
        /\ dpc' \notin {"poll", "done"}
  BY FinalPassStep
<1>3. /\ shutdown' => gpc' \in {"joining", "dropped"}
      /\ final' => shutdown' /\ dpc' # "top"
      /\ dpc' = "done" => final' /\ flushed' = Accepted'
  <2>1. ASSUME NEW t \in Threads, Thread(t)
        PROVE  UNCHANGED <<shutdown, gpc, final, dpc, flushed, sink>>
    BY <2>1 DEF Thread, Register, Reserve, Spin, Publish, Abandon, ThreadExit,
                guardVars, loopVars, sinkVars
  <2>2. CASE UNCHANGED <<shutdown, gpc, final, dpc, flushed, sink>>
    BY <1>t, <2>2 DEF FinalInv, Accepted
  <2>3. CASE Guard \/ UNCHANGED vars
    <3>1. UNCHANGED <<final, dpc, flushed, sink>>
      BY <2>3 DEF Guard, GuardWalk, GuardSignal, GuardJoin, vars, loopVars,
                  sinkVars
    <3>2. /\ shutdown' => gpc' \in {"joining", "dropped"}
          /\ shutdown => shutdown'
      BY <1>t, <2>3 DEF FinalInv, TypeOK, Guard, GuardWalk, GuardSignal,
                        GuardJoin, vars, guardVars
    <3> QED BY <1>t, <3>1, <3>2 DEF FinalInv, Accepted
  <2>4. CASE Drain
    <3>1. UNCHANGED <<shutdown, gpc>>
      BY <2>4, DrainKeeps
    <3>2. final' => shutdown /\ dpc' # "top"
      BY <1>t, <2>4 DEF FinalInv, TypeOK, Drain, Top, SyncFilter,
             SyncReconcile, SyncRetain, DrainRing, StoreTail, FinalizeDone,
             Repoll, GoIdle, FinalFlush, PollDone, loopVars
    <3>3. CASE FinalFlush
      BY <1>t, <3>1, <3>2, <3>3 DEF FinalFlush, PollDone, Accepted, FinalInv
    <3>4. CASE ~FinalFlush
      <4>1. dpc' # "done"
        <5>1. CASE StoreTail
          BY <5>1 DEF StoreTail, IInv, PassInv, loopVars
        <5>2. CASE ~StoreTail
          BY <2>4, <3>4, <5>2 DEF Drain, Top, SyncFilter, SyncReconcile,
             SyncRetain, DrainRing, FinalizeDone, Repoll, GoIdle, PollDone
        <5> QED BY <5>1, <5>2
      <4> QED BY <1>t, <3>1, <3>2, <4>1 DEF FinalInv
    <3> QED BY <3>3, <3>4
  <2> QED BY <2>1, <2>2, <2>3, <2>4 DEF Next
<1> QED BY <1>1, <1>2, <1>3 DEF FinalInv
-----------------------------------------------------------------------------
(* The theorems.                                                            *)

\* The initial state satisfies the inductive invariant.
LEMMA IInvInit == Init => IInv
<1> SUFFICES ASSUME Init PROVE IInv
  OBVIOUS
<1> USE LoggerAssumption
<1>1. TypeOK
  <2>1. sink \in [Threads -> Seq(Nat)]
    <3>1. <<>> \in Seq(Nat)
      OBVIOUS
    <3> QED BY <3>1 DEF Init
  <2>2. 0 \in 0 .. SyncEvery - 1
    OBVIOUS
  <2> QED BY <2>1, <2>2 DEF Init, TypeOK
<1>2. \A t \in Threads : Len(sink[t]) = 0 /\ tail[t] = 0 /\ head[t] = 0
  BY DEF Init
<1>3. PassInv /\ SinkInv
  BY <1>2 DEF Init, PassInv, SinkInv
<1>4. LifeInv /\ ListInv
  BY DEF Init, LifeInv, ListInv, Unpaid
<1>5. FinalInv
  BY DEF Init, FinalInv
<1> QED BY <1>1, <1>3, <1>4, <1>5 DEF IInv

\* Every step preserves it.
LEMMA IInvStep == IInv /\ [Next]_vars => IInv'
<1> SUFFICES ASSUME IInv, [Next]_vars PROVE IInv'
  OBVIOUS
<1>1. TypeOK'
  BY TypeStep
<1> QED BY <1>1, SinkStep, LifeStep, ListStep, FinalStep DEF IInv

\* The inductive invariant holds in every reachable state: passes, lists and
\* the shutdown sequence of thread_buf.rs, drain.rs and guard.rs fit together.
THEOREM LoggerInvariant == Spec => []IInv
  BY IInvInit, IInvStep, PTL DEF Spec

\* The variables keep their types.
THEOREM LoggerTypeCorrect == Spec => []TypeOK
<1>1. IInv => TypeOK
  BY DEF IInv
<1> QED BY <1>1, LoggerInvariant, PTL

\* The sink receives each thread's records once and in order, whichever of
\* sync_rings' last drain and poll_once delivers them.
THEOREM LoggerDelivery == Spec => []ExactlyOnceInOrder
<1>1. IInv => ExactlyOnceInOrder
  BY DEF IInv, SinkInv, ExactlyOnceInOrder
<1> QED BY <1>1, LoggerInvariant, PTL

\* Exiting inside sync_rings' scan is the only way for a ring to leave the
\* lists with records undelivered.
THEOREM LoggerOnlySlippedLost == Spec => []OnlySlippedLost
<1>1. IInv => OnlySlippedLost
  <2> SUFFICES ASSUME IInv, NEW t \in Threads \ slipped, Forgotten(t)
               PROVE  Len(sink[t]) >= owed[t]
    BY DEF OnlySlippedLost
  <2>1. ~Unpaid(t)
    BY DEF IInv, ListInv, Forgotten
  <2>2. sink[t] \in Seq(Nat) /\ owed[t] \in Nat
    BY DEF IInv, TypeOK
  <2> QED BY <2>1, <2>2 DEF Unpaid, Forgotten
<1> QED BY <1>1, LoggerInvariant, PTL

\* When Drain::run has returned, what was published before `live` was cleared
\* is in the sink, flushed.
THEOREM LoggerStoppedMeansFlushed == Spec => []StoppedMeansFlushed
<1>1. IInv => StoppedMeansFlushed
  <2> SUFFICES ASSUME IInv, dpc = "done"
               PROVE  /\ flushed = Accepted
                      /\ \A t \in Threads \ (late \cup slipped) :
                           Len(sink[t]) >= owed[t]
    BY DEF StoppedMeansFlushed
  <2>1. final /\ gpc # "held" /\ flushed = Accepted
    BY DEF IInv, FinalInv
  <2>2. ASSUME NEW t \in Threads \ (late \cup slipped)
        PROVE  Len(sink[t]) >= owed[t]
    <3>1. ~Unpaid(t)
      BY <2>1 DEF IInv, FinalInv
    <3>2. sink[t] \in Seq(Nat) /\ owed[t] \in Nat
      BY DEF IInv, TypeOK
    <3>3. live[t] => owed[t] = 0
      BY DEF IInv, LifeInv
    <3> QED BY <3>1, <3>2, <3>3 DEF Unpaid
  <2> QED BY <2>1, <2>2
<1> QED BY <1>1, LoggerInvariant, PTL
=============================================================================
