-------------------------- MODULE ConfigureProofs ---------------------------
(***************************************************************************)
(* Proofs about Configure for any number of callers, any requests and any   *)
(* default.                                                                 *)
(*                                                                          *)
(* WinnerInstalled relates what is installed to what the calls returned; it *)
(* is inductive only together with how far the one caller that passed       *)
(* REGISTRY.set has come, which IInv adds.                                  *)
(***************************************************************************)
EXTENDS Configure, TLAPS

(* The inductive invariant.                                                 *)

Results == {NotSet, "Ok", "AlreadyInitialized", "DrainSpawnFailed",
            "InvalidTimezoneOffset", "InvalidRingCapacity", "InvalidFormatPattern"}

Steps == {"validate", "policy", "claim", "pool", "capacity", "spawn", "done"}

TypeOK ==
  /\ fifo \in BOOLEAN
  /\ request \in [Callers -> Requests]
  /\ cpc \in [Callers -> Steps]
  /\ result \in [Callers -> Results]
  /\ REGISTRY \in Callers \cup {NotSet} /\ SEGMENTS \in Callers \cup {NotSet}
  /\ RING_CAPACITY \in Nat /\ drains \subseteq Callers
  /\ thread \in [pc : {"start", "pool", "register", "registered", "panicked"},
                 after : SUBSET Callers, capacity : Nat, pooled : BOOLEAN]

wantsPool(c) == segmented(c) /\ ~fifo

\* Only the caller that set the registry goes on, and its request is valid.
ClaimInv ==
  \A c \in Callers :
    /\ cpc[c] \in {"policy", "claim"} => Refusal(request[c]) = "none"
    /\ cpc[c] \in {"pool", "capacity", "spawn"} => REGISTRY = c
    /\ REGISTRY = c => /\ cpc[c] \in {"pool", "capacity", "spawn", "done"}
                       /\ Refusal(request[c]) = "none"

\* The statics follow the winner step by step.
StaticsInv ==
  /\ \A c \in Callers : SEGMENTS = c =>
       /\ REGISTRY = c /\ wantsPool(c) /\ cpc[c] \in {"capacity", "spawn", "done"}
  /\ RING_CAPACITY # NoCapacity => REGISTRY # NotSet
  /\ \A c \in Callers : REGISTRY = c =>
       /\ cpc[c] = "pool" => wantsPool(c)
       /\ cpc[c] \in {"capacity", "spawn", "done"} /\ wantsPool(c) => SEGMENTS = c
       /\ cpc[c] \in {"pool", "capacity"} => RING_CAPACITY = NoCapacity
       /\ cpc[c] \in {"spawn", "done"} => RING_CAPACITY = request[c].ring_capacity

\* What the calls return: Ok to the winner alone and with its drain running,
\* AlreadyInitialized to others only.
ResultInv ==
  \A c \in Callers :
    /\ c \in drains <=> result[c] = "Ok"
    /\ result[c] = "Ok" => REGISTRY = c /\ cpc[c] = "done"
    /\ result[c] = "AlreadyInitialized" => REGISTRY \in Callers \ {c}

\* What a thread that began after an Ok has read is the winner's.
ThreadInv ==
  /\ thread.pc = "start" => thread.after = {}
  /\ \A c \in thread.after :
       /\ result[c] = "Ok"
       /\ thread.capacity = request[c].ring_capacity
       /\ thread.pc # "pool" => thread.pooled = wantsPool(c)

IInv == TypeOK /\ ClaimInv /\ StaticsInv /\ ResultInv /\ ThreadInv
-----------------------------------------------------------------------------
(* Facts about requests.                                                    *)

\* The checks have no result of their own among those of a later step, and
\* a request they accept has a capacity of at least one slot.
LEMMA RefusalFacts ==
  ASSUME TypeOK, NEW c \in Callers
  PROVE  /\ Refusal(request[c]) = "none" \/ Refusal(request[c]) \in Results
         /\ Refusal(request[c]) \notin {"Ok", "AlreadyInitialized"}
         /\ request[c].ring_capacity \in Nat
         /\ Refusal(request[c]) = "none" => request[c].ring_capacity # NoCapacity
<1>1. Refusal(request[c]) \in {"none", "InvalidTimezoneOffset",
                               "InvalidRingCapacity", "InvalidFormatPattern"}
  BY DEF Refusal
<1>2. request[c].ring_capacity \in Nat
  BY ConfigAssumption DEF TypeOK, Requests
<1>3. Refusal(request[c]) = "none" => ~(request[c].ring_capacity < SLOT_SIZE)
  BY DEF Refusal
<1>4. Refusal(request[c]) = "none" => request[c].ring_capacity # NoCapacity
  BY <1>2, <1>3, ConfigAssumption DEF NoCapacity
<1> QED BY <1>1, <1>2, <1>4 DEF Results

\* No caller is the mark of a static that is not set.
LEMMA CallersSet == \A c \in Callers : c # NotSet
  BY ConfigAssumption DEF NotSet
-----------------------------------------------------------------------------
(* The steps of a call.                                                     *)

\* The checks of the request and BACKPRESSURE.set come before REGISTRY.set:
\* they touch no other static and give neither Ok nor AlreadyInitialized.
LEMMA EarlyStep ==
  ASSUME IInv, NEW c \in Callers, Validate(c) \/ SetPolicy(c)
  PROVE  IInv'
<1>t. TypeOK /\ ClaimInv /\ StaticsInv /\ ResultInv /\ ThreadInv
  BY DEF IInv
<1>1. UNCHANGED <<fifo, request, REGISTRY, SEGMENTS, RING_CAPACITY, drains, thread>>
  BY DEF Validate, SetPolicy, statics
<1>2. /\ cpc[c] \in {"validate", "policy"} /\ REGISTRY # c
      /\ result[c] # "Ok"
  BY <1>t DEF Validate, SetPolicy, ClaimInv, ResultInv
<1>3. PICK p \in {"policy", "claim", "done"} :
        /\ cpc' = [cpc EXCEPT ![c] = p]
        /\ p # "done" => Refusal(request[c]) = "none" /\ result' = result
        /\ p = "done" => \E r \in Results \ {"Ok", "AlreadyInitialized"} :
                           result' = [result EXCEPT ![c] = r]
  <2>1. CASE Validate(c) /\ Refusal(request[c]) = "none"
    BY <2>1 DEF Validate, Goto
  <2>2. CASE Validate(c) /\ Refusal(request[c]) # "none"
    <3>1. Refusal(request[c]) \in Results \ {"Ok", "AlreadyInitialized"}
      BY <1>t, <2>2, RefusalFacts
    <3> QED BY <2>2, <3>1 DEF Validate, Return
  <2>3. CASE SetPolicy(c)
    BY <1>t, <2>3 DEF SetPolicy, Goto, ClaimInv
  <2> QED BY <2>1, <2>2, <2>3
<1>4. /\ cpc'[c] = p /\ \A d \in Callers \ {c} : cpc'[d] = cpc[d]
      /\ cpc' \in [Callers -> Steps]
  BY <1>t, <1>3 DEF TypeOK, Steps
<1>5. /\ result'[c] \notin {"Ok", "AlreadyInitialized"} \/ result'[c] = result[c]
      /\ \A d \in Callers \ {c} : result'[d] = result[d]
      /\ result' \in [Callers -> Results]
  <2>1. CASE p # "done"
    BY <1>t, <1>3, <2>1 DEF TypeOK
  <2>2. CASE p = "done"
    <3>1. PICK r \in Results \ {"Ok", "AlreadyInitialized"} :
            result' = [result EXCEPT ![c] = r]
      BY <1>3, <2>2
    <3> QED BY <1>t, <3>1 DEF TypeOK
  <2> QED BY <2>1, <2>2
<1>6. \A d \in Callers : wantsPool(d)' = wantsPool(d)
  BY <1>1 DEF wantsPool, segmented
<1>7. TypeOK'
  BY <1>t, <1>1, <1>4, <1>5 DEF TypeOK
<1>8. ClaimInv'
  BY <1>t, <1>1, <1>2, <1>3, <1>4 DEF ClaimInv
<1>9. StaticsInv'
  BY <1>t, <1>1, <1>2, <1>4, <1>6 DEF StaticsInv
<1>10. ResultInv'
  BY <1>t, <1>1, <1>2, <1>4, <1>5 DEF ResultInv
<1>11. ThreadInv'
  <2>1. \A d \in thread.after : d \in Callers /\ d # c
    BY <1>t, <1>2 DEF TypeOK, ThreadInv
  <2> QED BY <1>t, <1>1, <1>5, <1>6, <2>1 DEF ThreadInv
<1> QED BY <1>7, <1>8, <1>9, <1>10, <1>11 DEF IInv

\* REGISTRY.set: the first caller goes on, any other is told so.
LEMMA ClaimStep == ASSUME IInv, NEW c \in Callers, Claim(c) PROVE IInv'
<1>t. TypeOK /\ ClaimInv /\ StaticsInv /\ ResultInv /\ ThreadInv
  BY DEF IInv
<1>1. /\ UNCHANGED <<fifo, request, SEGMENTS, RING_CAPACITY, drains, thread>>
      /\ cpc[c] = "claim"
  BY DEF Claim
<1>2. \A d \in Callers : wantsPool(d)' = wantsPool(d)
  BY <1>1 DEF wantsPool, segmented
<1>3. /\ REGISTRY # c /\ result[c] # "Ok" /\ Refusal(request[c]) = "none"
      /\ c \notin drains
  BY <1>t, <1>1 DEF ClaimInv, ResultInv
<1>4. CASE REGISTRY = NotSet
  <2> DEFINE p == IF wantsPool(c) THEN "pool" ELSE "capacity"
  <2>1. REGISTRY' = c /\ cpc' = [cpc EXCEPT ![c] = p] /\ result' = result
    BY <1>4 DEF Claim, AfterClaim, Goto, wantsPool
  <2>2. /\ p \in {"pool", "capacity"} /\ (p = "pool" <=> wantsPool(c))
    OBVIOUS
  <2> HIDE DEF p
  <2>3. /\ cpc'[c] = p /\ \A d \in Callers \ {c} : cpc'[d] = cpc[d]
        /\ cpc' \in [Callers -> Steps]
    BY <1>t, <2>1, <2>2 DEF TypeOK, Steps
  <2>4. /\ \A d \in Callers : REGISTRY # d /\ SEGMENTS # d /\ result[d] # "Ok"
                              /\ result[d] # "AlreadyInitialized"
                              /\ cpc[d] \notin {"pool", "capacity", "spawn"}
        /\ RING_CAPACITY = NoCapacity
    BY <1>t, <1>4, CallersSet DEF StaticsInv, ResultInv, ClaimInv
  <2>5. TypeOK'
    BY <1>t, <1>1, <2>1, <2>3 DEF TypeOK
  <2>6. ClaimInv'
    BY <1>t, <1>1, <1>3, <2>1, <2>2, <2>3, <2>4 DEF ClaimInv
  <2>7. StaticsInv'
    BY <1>1, <1>2, <2>1, <2>2, <2>3, <2>4, CallersSet DEF StaticsInv
  <2>8. ResultInv'
    BY <1>t, <1>1, <2>1, <2>4 DEF ResultInv
  <2>9. ThreadInv'
    BY <1>t, <1>1, <1>2, <2>1 DEF ThreadInv, TypeOK
  <2> QED BY <2>5, <2>6, <2>7, <2>8, <2>9 DEF IInv
<1>5. CASE REGISTRY # NotSet
  <2>1. /\ cpc' = [cpc EXCEPT ![c] = "done"] /\ REGISTRY' = REGISTRY
        /\ result' = [result EXCEPT ![c] = "AlreadyInitialized"]
    BY <1>5 DEF Claim, Return
  <2>2. /\ cpc'[c] = "done" /\ \A d \in Callers \ {c} : cpc'[d] = cpc[d]
        /\ cpc' \in [Callers -> Steps]
    BY <1>t, <2>1 DEF TypeOK, Steps
  <2>3. /\ result'[c] = "AlreadyInitialized"
        /\ \A d \in Callers \ {c} : result'[d] = result[d]
        /\ result' \in [Callers -> Results]
    BY <1>t, <2>1 DEF TypeOK, Results
  <2>4. REGISTRY \in Callers \ {c}
    BY <1>t, <1>3, <1>5 DEF TypeOK
  <2>5. TypeOK'
    BY <1>t, <1>1, <2>1, <2>2, <2>3 DEF TypeOK
  <2>6. ClaimInv'
    BY <1>t, <1>1, <1>3, <2>1, <2>2 DEF ClaimInv
  <2>7. StaticsInv'
    BY <1>t, <1>1, <1>2, <1>3, <2>1, <2>2 DEF StaticsInv
  <2>8. ResultInv'
    BY <1>t, <1>1, <1>3, <2>1, <2>2, <2>3, <2>4 DEF ResultInv
  <2>9. ThreadInv'
    <3>1. \A d \in thread.after : d \in Callers /\ d # c
      BY <1>t, <1>3 DEF TypeOK, ThreadInv
    <3> QED BY <1>t, <1>1, <1>2, <2>3, <3>1 DEF ThreadInv
  <2> QED BY <2>5, <2>6, <2>7, <2>8, <2>9 DEF IInv
<1> QED BY <1>4, <1>5

\* The winner installs the pool, which nobody can have set before it, and then
\* the capacity, of which the same is true.
LEMMA InstallStep ==
  ASSUME IInv, NEW c \in Callers, InstallPool(c) \/ SetCapacity(c) PROVE IInv'
<1>t. TypeOK /\ ClaimInv /\ StaticsInv /\ ResultInv /\ ThreadInv
  BY DEF IInv
<1>1. UNCHANGED <<fifo, request, REGISTRY, drains, thread>>
  BY DEF InstallPool, SetCapacity
<1>2. \A d \in Callers : wantsPool(d)' = wantsPool(d)
  BY <1>1 DEF wantsPool, segmented
<1>3. /\ cpc[c] \in {"pool", "capacity"} /\ REGISTRY = c
      /\ RING_CAPACITY = NoCapacity /\ Refusal(request[c]) = "none"
      /\ cpc[c] = "pool" => wantsPool(c) /\ SEGMENTS = NotSet
  BY <1>t DEF InstallPool, SetCapacity, ClaimInv, StaticsInv, TypeOK
<1>4. request[c].ring_capacity \in Nat
  BY <1>t, RefusalFacts
<1>5. /\ result' = result
      /\ \/ /\ cpc[c] = "pool" /\ cpc' = [cpc EXCEPT ![c] = "capacity"]
            /\ SEGMENTS' = c /\ RING_CAPACITY' = RING_CAPACITY
         \/ /\ cpc[c] = "capacity" /\ cpc' = [cpc EXCEPT ![c] = "spawn"]
            /\ SEGMENTS' = SEGMENTS
            /\ RING_CAPACITY' = request[c].ring_capacity
  BY <1>3 DEF InstallPool, SetCapacity, Goto
<1>6. /\ \/ /\ cpc[c] = "pool" /\ cpc'[c] = "capacity"
            /\ SEGMENTS' = c /\ RING_CAPACITY' = RING_CAPACITY
         \/ /\ cpc[c] = "capacity" /\ cpc'[c] = "spawn"
            /\ SEGMENTS' = SEGMENTS
            /\ RING_CAPACITY' = request[c].ring_capacity
      /\ \A d \in Callers \ {c} : cpc'[d] = cpc[d]
      /\ cpc' \in [Callers -> Steps]
  BY <1>t, <1>5 DEF TypeOK, Steps
<1>7. TypeOK'
  BY <1>t, <1>1, <1>4, <1>5, <1>6 DEF TypeOK
<1>8. ClaimInv'
  BY <1>t, <1>1, <1>3, <1>6 DEF ClaimInv
<1>9. StaticsInv'
  BY <1>t, <1>1, <1>2, <1>3, <1>6, CallersSet DEF StaticsInv
<1>10. ResultInv'
  BY <1>t, <1>1, <1>3, <1>5, <1>6 DEF ResultInv
<1>11. ThreadInv'
  BY <1>t, <1>1, <1>2, <1>5 DEF ThreadInv, TypeOK
<1> QED BY <1>7, <1>8, <1>9, <1>10, <1>11 DEF IInv

\* The drain thread of the winner starts, or cannot.
LEMMA SpawnStep == ASSUME IInv, NEW c \in Callers, Spawn(c) PROVE IInv'
<1>t. TypeOK /\ ClaimInv /\ StaticsInv /\ ResultInv /\ ThreadInv
  BY DEF IInv
<1>1. /\ cpc[c] = "spawn" /\ cpc' = [cpc EXCEPT ![c] = "done"]
      /\ UNCHANGED <<fifo, request, REGISTRY, SEGMENTS, RING_CAPACITY, thread>>
  BY DEF Spawn, Return, statics
<1>2. \/ result' = [result EXCEPT ![c] = "Ok"] /\ drains' = drains \cup {c}
      \/ result' = [result EXCEPT ![c] = "DrainSpawnFailed"] /\ drains' = drains
  BY DEF Spawn, Return
<1>3. \A d \in Callers : wantsPool(d)' = wantsPool(d)
  BY <1>1 DEF wantsPool, segmented
<1>4. REGISTRY = c /\ result[c] # "Ok" /\ c \notin drains
  BY <1>t, <1>1 DEF ClaimInv, ResultInv
<1>5. /\ cpc'[c] = "done" /\ \A d \in Callers \ {c} : cpc'[d] = cpc[d]
      /\ cpc' \in [Callers -> Steps]
  BY <1>t, <1>1 DEF TypeOK, Steps
<1>6. /\ \/ result'[c] = "Ok" /\ drains' = drains \cup {c}
         \/ result'[c] = "DrainSpawnFailed" /\ drains' = drains
      /\ \A d \in Callers \ {c} : result'[d] = result[d]
      /\ result' \in [Callers -> Results]
  BY <1>t, <1>2 DEF TypeOK, Results
<1>7. TypeOK'
  BY <1>t, <1>1, <1>5, <1>6 DEF TypeOK
<1>8. ClaimInv'
  BY <1>t, <1>1, <1>4, <1>5 DEF ClaimInv
<1>9. StaticsInv'
  BY <1>t, <1>1, <1>3, <1>4, <1>5 DEF StaticsInv
<1>10. ResultInv'
  BY <1>t, <1>1, <1>4, <1>5, <1>6 DEF ResultInv
<1>11. ThreadInv'
  <2>1. \A d \in thread.after : d \in Callers /\ d # c
    BY <1>t, <1>4 DEF TypeOK, ThreadInv
  <2> QED BY <1>t, <1>1, <1>3, <1>6, <2>1 DEF ThreadInv
<1> QED BY <1>7, <1>8, <1>9, <1>10, <1>11 DEF IInv
-----------------------------------------------------------------------------
(* The logging thread.                                                      *)

\* with_thread_buf and register_ring read the statics and change none.
LEMMA ThreadStep ==
  ASSUME IInv, ReadCapacity \/ ReadPool \/ register_ring PROVE IInv'
<1>t. TypeOK /\ ClaimInv /\ StaticsInv /\ ResultInv /\ ThreadInv
  BY DEF IInv
<1>1. UNCHANGED <<fifo, request, cpc, result, REGISTRY, SEGMENTS, RING_CAPACITY,
                  drains>>
  BY DEF ReadCapacity, ReadPool, register_ring, statics
<1>2. \A d \in Callers : wantsPool(d)' = wantsPool(d)
  BY <1>1 DEF wantsPool, segmented
<1>3. ClaimInv' /\ ResultInv'
  BY <1>t, <1>1 DEF ClaimInv, ResultInv
<1>4. StaticsInv'
  BY <1>t, <1>1, <1>2 DEF StaticsInv
<1>5. CASE ReadCapacity
  <2>1. /\ thread'.pc = "pool" /\ thread'.pooled = thread.pooled
        /\ thread'.after = {c \in Callers : result[c] = "Ok"}
        /\ thread'.capacity = IF RING_CAPACITY = NoCapacity
                              THEN DEFAULT_RING_SIZE ELSE RING_CAPACITY
        /\ thread' \in [pc : {"start", "pool", "register", "registered", "panicked"},
                        after : SUBSET Callers, capacity : Nat, pooled : BOOLEAN]
    BY <1>t, <1>5, ConfigAssumption DEF ReadCapacity, TypeOK
  <2>2. \A c \in Callers : result[c] = "Ok" =>
          /\ RING_CAPACITY = request[c].ring_capacity
          /\ RING_CAPACITY # NoCapacity
    BY <1>t, RefusalFacts DEF ResultInv, StaticsInv, ClaimInv
  <2>3. ThreadInv'
    BY <1>1, <2>1, <2>2 DEF ThreadInv
  <2>4. TypeOK'
    BY <1>t, <1>1, <2>1 DEF TypeOK
  <2> QED BY <1>3, <1>4, <2>3, <2>4 DEF IInv
<1>6. CASE ReadPool
  <2>1. /\ thread.pc = "pool" /\ thread'.pc = "register"
        /\ thread'.pooled = (~fifo /\ SEGMENTS # NotSet)
        /\ thread'.after = thread.after /\ thread'.capacity = thread.capacity
        /\ thread' \in [pc : {"start", "pool", "register", "registered", "panicked"},
                        after : SUBSET Callers, capacity : Nat, pooled : BOOLEAN]
    BY <1>t, <1>6 DEF ReadPool, TypeOK
  <2>2. \A c \in Callers : result[c] = "Ok" =>
          ((~fifo /\ SEGMENTS # NotSet) <=> wantsPool(c))
    <3> SUFFICES ASSUME NEW c \in Callers, result[c] = "Ok"
                 PROVE  (~fifo /\ SEGMENTS # NotSet) <=> wantsPool(c)
      OBVIOUS
    <3>1. REGISTRY = c /\ cpc[c] = "done"
      BY <1>t DEF ResultInv
    <3>2. wantsPool(c) => SEGMENTS = c /\ ~fifo
      BY <1>t, <3>1 DEF StaticsInv, wantsPool
    <3>3. SEGMENTS # NotSet => SEGMENTS = c /\ wantsPool(c)
      BY <1>t, <3>1 DEF StaticsInv, TypeOK
    <3> QED BY <3>2, <3>3, CallersSet
  <2>3. ThreadInv'
    <3>1. \A c \in thread.after : c \in Callers /\ result[c] = "Ok"
      BY <1>t DEF TypeOK, ThreadInv
    <3>2. \A c \in thread.after : thread'.pooled = wantsPool(c)
      BY <2>1, <2>2, <3>1 DEF wantsPool
    <3> QED BY <1>t, <1>1, <1>2, <2>1, <3>1, <3>2 DEF ThreadInv
  <2>4. TypeOK'
    BY <1>t, <1>1, <2>1 DEF TypeOK
  <2> QED BY <1>3, <1>4, <2>3, <2>4 DEF IInv
<1>7. CASE register_ring
  <2>1. /\ thread.pc = "register" /\ thread'.pc \in {"registered", "panicked"}
        /\ thread'.pooled = thread.pooled
        /\ thread'.after = thread.after /\ thread'.capacity = thread.capacity
        /\ thread' \in [pc : {"start", "pool", "register", "registered", "panicked"},
                        after : SUBSET Callers, capacity : Nat, pooled : BOOLEAN]
    BY <1>t, <1>7 DEF register_ring, TypeOK
  <2>2. ThreadInv'
    <3>1. \A c \in thread.after : c \in Callers
      BY <1>t DEF TypeOK
    <3> QED BY <1>t, <1>1, <1>2, <2>1, <3>1 DEF ThreadInv
  <2>3. TypeOK'
    BY <1>t, <1>1, <2>1 DEF TypeOK
  <2> QED BY <1>3, <1>4, <2>2, <2>3 DEF IInv
<1> QED BY <1>5, <1>6, <1>7
-----------------------------------------------------------------------------
(* The theorems.                                                            *)

\* Before the first call nothing is set.
LEMMA IInvInit == ConfigInit => IInv
<1> SUFFICES ASSUME ConfigInit PROVE IInv
  OBVIOUS
<1>1. TypeOK
  BY DEF ConfigInit, TypeOK, Steps, Results, NoCapacity
<1>2. ClaimInv /\ StaticsInv
  BY CallersSet DEF ConfigInit, ClaimInv, StaticsInv
<1>3. ResultInv /\ ThreadInv
  BY DEF ConfigInit, ResultInv, ThreadInv, NotSet
<1> QED BY <1>1, <1>2, <1>3 DEF IInv

\* Every step preserves the invariant.
LEMMA IInvStep == IInv /\ [ConfigNext]_configVars => IInv'
<1> SUFFICES ASSUME IInv, [ConfigNext]_configVars PROVE IInv'
  OBVIOUS
<1>1. CASE UNCHANGED configVars
  <2>1. UNCHANGED <<fifo, request, cpc, result, REGISTRY, SEGMENTS,
                    RING_CAPACITY, drains, thread>>
    BY <1>1 DEF configVars
  <2> QED BY <2>1 DEF IInv, TypeOK, ClaimInv, StaticsInv, ResultInv, ThreadInv,
                      wantsPool, segmented
<1> QED BY <1>1, EarlyStep, ClaimStep, InstallStep, SpawnStep, ThreadStep
           DEF ConfigNext

\* However the callers of __configure_rt and a thread that already logs
\* interleave, one request is installed as a whole.
THEOREM ConfigWinnerInstalled == ConfigSpec => []WinnerInstalled
<1>1. IInv => WinnerInstalled
  <2> SUFFICES ASSUME IInv PROVE WinnerInstalled
    OBVIOUS
  <2>t. TypeOK /\ ClaimInv /\ StaticsInv /\ ResultInv /\ ThreadInv
    BY DEF IInv
  <2>1. SEGMENTS \in {NotSet, REGISTRY}
    BY <2>t DEF TypeOK, StaticsInv
  <2>2. drains \subseteq {REGISTRY}
    BY <2>t DEF TypeOK, ResultInv
  <2>3. RING_CAPACITY # NoCapacity =>
          REGISTRY # NotSet /\ RING_CAPACITY = request[REGISTRY].ring_capacity
    <3> SUFFICES ASSUME RING_CAPACITY # NoCapacity
                 PROVE  REGISTRY # NotSet
                        /\ RING_CAPACITY = request[REGISTRY].ring_capacity
      OBVIOUS
    <3>1. REGISTRY \in Callers /\ REGISTRY # NotSet
      BY <2>t DEF TypeOK, StaticsInv
    <3>2. cpc[REGISTRY] \in {"spawn", "done"}
      BY <2>t, <3>1 DEF ClaimInv, StaticsInv
    <3> QED BY <2>t, <3>1, <3>2 DEF StaticsInv
  <2>4. ASSUME NEW c \in Callers, result[c] = "Ok"
        PROVE  /\ REGISTRY = c /\ drains = {c}
               /\ RING_CAPACITY = request[c].ring_capacity
               /\ (SEGMENTS = c) <=> (segmented(c) /\ ~fifo)
    <3>1. REGISTRY = c /\ cpc[c] = "done" /\ c \in drains
      BY <2>t, <2>4 DEF ResultInv
    <3>2. drains = {c}
      BY <2>2, <3>1
    <3>3. (SEGMENTS = c) <=> wantsPool(c)
      BY <2>t, <3>1 DEF StaticsInv
    <3>4. RING_CAPACITY = request[c].ring_capacity
      BY <2>t, <3>1 DEF StaticsInv
    <3> QED BY <3>1, <3>2, <3>3, <3>4 DEF wantsPool
  <2>5. \A c \in Callers :
          /\ result[c] = "AlreadyInitialized" => REGISTRY \in Callers \ {c}
          /\ REGISTRY = c => Refusal(request[c]) = "none"
    BY <2>t DEF ResultInv, ClaimInv
  <2>6. thread.pc = "registered" /\ thread.after # {} =>
          \A c \in thread.after :
            /\ thread.capacity = request[c].ring_capacity
            /\ thread.pooled = (segmented(c) /\ ~fifo)
    BY <2>t DEF ThreadInv, wantsPool
  <2> QED BY <2>1, <2>2, <2>3, <2>4, <2>5, <2>6 DEF WinnerInstalled
<1> QED BY <1>1, IInvInit, IInvStep, PTL DEF ConfigSpec
=============================================================================
