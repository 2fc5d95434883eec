----------------------------- MODULE Configure ------------------------------
(***************************************************************************)
(* configure! at run time (__configure_rt, builder.rs): several callers     *)
(* race to install the process-wide statics one after the other, while a    *)
(* thread that already logs registers its ring from what is installed so    *)
(* far (with_thread_buf and register_ring, thread_buf.rs).                  *)
(***************************************************************************)
EXTENDS Integers

CONSTANTS
  Callers,             \* the threads that call configure!
  SLOT_SIZE,           \* 64 in the code
  DEFAULT_RING_SIZE,   \* the capacity of a ring when none is configured
  Capacities           \* capacities the callers may ask for

ASSUME ConfigAssumption ==
  /\ SLOT_SIZE \in Nat \ {0} /\ DEFAULT_RING_SIZE \in Nat /\ Capacities \subseteq Nat
  /\ "unset" \notin Callers

VARIABLES
  fifo,            \* the build has the fifo-backend feature
  request,         \* what each caller asks for
  cpc,             \* where each caller is
  result,          \* what each call returned
  REGISTRY,        \* the OnceLock statics, by the caller that set them
  SEGMENTS,
  RING_CAPACITY,   \* this one by its value
  BACKPRESSURE,    \* and this one too; nothing reads it
  drains,          \* the callers whose drain thread runs
  thread           \* the logging thread: where it is and the ring it builds

configVars == <<fifo, request, cpc, result, REGISTRY, SEGMENTS, RING_CAPACITY, BACKPRESSURE,
                drains, thread>>

NotSet     == "unset"
NoCapacity == 0

MIN_TZ_OFFSET == 0 - 43200
MAX_TZ_OFFSET == 50400

\* Only whether Template::parse accepts the pattern matters here.
Requests ==
  [timezone_offset : {0, MAX_TZ_OFFSET + 1}, ring_capacity : Capacities, pattern_ok : BOOLEAN,
   backpressure : {"Drop", "Quill"}]

IsPowerOfTwo(n) == \E k \in 0 .. n : n = 2 ^ k

segmented(c) == request[c].backpressure \in {"NanoLog", "Quill"}

\* The first check of a request that fails, in the code's order.
Refusal(r) ==
  IF r.timezone_offset \notin MIN_TZ_OFFSET .. MAX_TZ_OFFSET THEN "InvalidTimezoneOffset"
  ELSE IF ~IsPowerOfTwo(r.ring_capacity) \/ r.ring_capacity < SLOT_SIZE THEN "InvalidRingCapacity"
  ELSE IF ~r.pattern_ok THEN "InvalidFormatPattern"
  ELSE "none"

ConfigInit ==
  /\ fifo \in BOOLEAN
  /\ request \in [Callers -> Requests]
  /\ cpc = [c \in Callers |-> "validate"]
  /\ result = [c \in Callers |-> NotSet]
  /\ REGISTRY = NotSet /\ SEGMENTS = NotSet
  /\ RING_CAPACITY = NoCapacity /\ BACKPRESSURE = NotSet
  /\ drains = {}
  /\ thread = [pc |-> "start", after |-> {}, capacity |-> NoCapacity, pooled |-> FALSE]

statics == <<REGISTRY, SEGMENTS, RING_CAPACITY, BACKPRESSURE>>

Return(c, r) == cpc' = [cpc EXCEPT ![c] = "done"] /\ result' = [result EXCEPT ![c] = r]
Goto(c, pc)  == cpc' = [cpc EXCEPT ![c] = pc] /\ UNCHANGED result

Validate(c) ==
  /\ cpc[c] = "validate"
  /\ IF Refusal(request[c]) = "none" THEN Goto(c, "policy") ELSE Return(c, Refusal(request[c]))
  /\ UNCHANGED <<fifo, request, statics, drains, thread>>

\* BACKPRESSURE.set, the first value wins; the segmented policies degrade to
\* Block where they are not compiled.
SetPolicy(c) ==
  /\ cpc[c] = "policy"
  /\ BACKPRESSURE' = IF BACKPRESSURE # NotSet THEN BACKPRESSURE
                     ELSE IF segmented(c) /\ fifo THEN "Block" ELSE request[c].backpressure
  /\ Goto(c, "claim")
  /\ UNCHANGED <<fifo, request, REGISTRY, SEGMENTS, RING_CAPACITY, drains, thread>>

AfterClaim(c) == Goto(c, IF segmented(c) /\ ~fifo THEN "pool" ELSE "capacity")

Claim_Overwrites(c) ==
  /\ cpc[c] = "claim"
  /\ REGISTRY' = c /\ AfterClaim(c)
  /\ UNCHANGED <<fifo, request, SEGMENTS, RING_CAPACITY, BACKPRESSURE, drains, thread>>

\* REGISTRY.set decides which caller goes on.
Claim(c) ==
  /\ cpc[c] = "claim"
  /\ IF REGISTRY = NotSet THEN REGISTRY' = c /\ AfterClaim(c)
     ELSE Return(c, "AlreadyInitialized") /\ UNCHANGED REGISTRY
  /\ UNCHANGED <<fifo, request, SEGMENTS, RING_CAPACITY, BACKPRESSURE, drains, thread>>

\* Segments::init and SEGMENTS.set.
InstallPool(c) ==
  /\ cpc[c] = "pool"
  /\ IF SEGMENTS = NotSet THEN SEGMENTS' = c /\ Goto(c, "capacity")
     ELSE Return(c, "AlreadyInitialized") /\ UNCHANGED SEGMENTS
  /\ UNCHANGED <<fifo, request, REGISTRY, RING_CAPACITY, BACKPRESSURE, drains, thread>>

\* RING_CAPACITY.set, whose result is ignored.
SetCapacity(c) ==
  /\ cpc[c] = "capacity"
  /\ RING_CAPACITY' = IF RING_CAPACITY = NoCapacity THEN request[c].ring_capacity ELSE RING_CAPACITY
  /\ Goto(c, "spawn")
  /\ UNCHANGED <<fifo, request, REGISTRY, SEGMENTS, BACKPRESSURE, drains, thread>>

\* The drain thread is spawned, or the system refuses it; the statics stay.
Spawn(c) ==
  /\ cpc[c] = "spawn"
  /\ \/ Return(c, "Ok") /\ drains' = drains \cup {c}
     \/ Return(c, "DrainSpawnFailed") /\ UNCHANGED drains
  /\ UNCHANGED <<fifo, request, statics, thread>>

\* with_thread_buf on the first record of a thread: the capacity, then the
\* pool, then the registry, each as it is at that moment.
ReadCapacity ==
  /\ thread.pc = "start"
  /\ thread' = [thread EXCEPT !.pc = "pool", !.after = {c \in Callers : result[c] = "Ok"},
                              !.capacity = IF RING_CAPACITY = NoCapacity THEN DEFAULT_RING_SIZE
                                           ELSE RING_CAPACITY]
  /\ UNCHANGED <<fifo, request, cpc, result, statics, drains>>

ReadPool ==
  /\ thread.pc = "pool"
  /\ thread' = [thread EXCEPT !.pc = "register", !.pooled = ~fifo /\ SEGMENTS # NotSet]
  /\ UNCHANGED <<fifo, request, cpc, result, statics, drains>>

\* register_ring panics when there is no registry.
register_ring ==
  /\ thread.pc = "register"
  /\ thread' = [thread EXCEPT !.pc = IF REGISTRY = NotSet THEN "panicked" ELSE "registered"]
  /\ UNCHANGED <<fifo, request, cpc, result, statics, drains>>

ConfigNext ==
  \/ \E c \in Callers :
       Validate(c) \/ SetPolicy(c) \/ Claim(c) \/ InstallPool(c) \/ SetCapacity(c) \/ Spawn(c)
  \/ ReadCapacity \/ ReadPool \/ register_ring

ConfigSpec == ConfigInit /\ [][ConfigNext]_configVars

-----------------------------------------------------------------------------
(* Properties.                                                              *)

\* Whatever the race, one caller's request is installed as a whole: the
\* registry, the pool, the capacity and the drain are all the winner's, a call
\* that is refused leaves none of them behind, AlreadyInitialized is returned
\* only to a caller that lost, and a thread that starts to log once a call has
\* returned Ok gets the ring that call asked for and never the default.
WinnerInstalled ==
  /\ SEGMENTS \in {NotSet, REGISTRY}
  /\ drains \subseteq {REGISTRY}
  /\ RING_CAPACITY # NoCapacity => REGISTRY # NotSet /\ RING_CAPACITY = request[REGISTRY].ring_capacity
  /\ \A c \in Callers :
       /\ result[c] = "Ok" =>
            /\ REGISTRY = c /\ drains = {c} /\ RING_CAPACITY = request[c].ring_capacity
            /\ (SEGMENTS = c) <=> (segmented(c) /\ ~fifo)
       /\ result[c] = "AlreadyInitialized" => REGISTRY \in Callers \ {c}
       /\ REGISTRY = c => Refusal(request[c]) = "none"
  /\ thread.pc = "registered" /\ thread.after # {} =>
       \A c \in thread.after :
         thread.capacity = request[c].ring_capacity /\ thread.pooled = (segmented(c) /\ ~fifo)
=============================================================================
