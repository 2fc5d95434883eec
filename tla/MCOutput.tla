------------------------------ MODULE MCOutput ------------------------------
(***************************************************************************)
(* The parts around the rings, for TLC: the text of a line (Line), the      *)
(* sinks that take it (Sinks), the installation of both (Configure), and    *)
(* the watermark-head build of a ring (Watermark).  They share no variable, *)
(* so the run explores one of them at a time, the others resting: the sum   *)
(* of their states.                                                         *)
(***************************************************************************)
EXTENDS Line, Sinks, Configure, Watermark

\* Every kind of sink alone, the FanOut of nothing, and three mixed FanOuts.
MCSinkTrees ==
  {[fanout |-> FALSE, leaves |-> <<l>>] :
     l \in {File(5), Writer(1), Console(5), Null, InMemory(5, "Unbounded"),
            InMemory(1, "DropNewest"), InMemory(5, "DropOldest")}}
  \cup {[fanout |-> TRUE, leaves |-> s] :
          s \in {<<>>,
                 <<File(5), InMemory(5, "DropOldest"), Writer(1)>>,
                 <<Console(1), Null, File(1)>>,
                 <<Null, InMemory(1, "DropNewest")>>}}

VARIABLE running   \* the part that takes steps

\* A part that does not run rests in one state that takes no step of its own.
LineRests      == part = "none" /\ input = <<>> /\ date = [year |-> 1970, month |-> 1, day |-> 2]
SinkRests      == SinkInit /\ tree = [fanout |-> TRUE, leaves |-> <<>>]
WatermarkRests == WatermarkInit /\ wmPolicy = "Drop"
ConfigRests    ==
  /\ ConfigInit /\ ~fifo
  /\ request = [c \in Callers |-> CHOOSE r \in Requests : Refusal(r) = "none"]

Init ==
  \/ running = "line"      /\ LineInit  /\ SinkRests /\ ConfigRests /\ WatermarkRests
  \/ running = "sinks"     /\ LineRests /\ SinkInit  /\ ConfigRests /\ WatermarkRests
  \/ running = "config"    /\ LineRests /\ SinkRests /\ ConfigInit  /\ WatermarkRests
  \/ running = "watermark" /\ LineRests /\ SinkRests /\ ConfigRests /\ WatermarkInit

Next ==
  \/ running = "line"      /\ LineNext      /\ UNCHANGED <<running, sinkVars, configVars, watermarkVars>>
  \/ running = "sinks"     /\ SinkNext      /\ UNCHANGED <<running, lineVars, configVars, watermarkVars>>
  \/ running = "config"    /\ ConfigNext    /\ UNCHANGED <<running, lineVars, sinkVars, watermarkVars>>
  \/ running = "watermark" /\ WatermarkNext /\ UNCHANGED <<running, lineVars, sinkVars, configVars>>

Spec == Init /\ [][Next]_<<running, lineVars, sinkVars, configVars, watermarkVars>>
=============================================================================
