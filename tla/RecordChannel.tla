---------------------------- MODULE RecordChannel ----------------------------
(***************************************************************************)
(* What a ring promises to its two ends, without slots, wraps or cached     *)
(* cursors: a bounded first-in first-out channel of records.  A record that *)
(* was refused (Backpressure::Drop, or a dead ring under Block) never       *)
(* enters it; one that entered comes out once, whole and in order.          *)
(***************************************************************************)
EXTENDS Naturals, Sequences

CONSTANT Bound   \* the most records the channel can hold

VARIABLES
  chan,  \* the records inside, oldest first
  sent,  \* how many entered: records are numbered 1, 2, ...
  got    \* the records that came out

vars == <<chan, sent, got>>

Init == chan = <<>> /\ sent = 0 /\ got = <<>>

Send ==
  /\ Len(chan) < Bound
  /\ chan' = Append(chan, sent + 1)
  /\ sent' = sent + 1
  /\ UNCHANGED got

Receive ==
  /\ chan # <<>>
  /\ got' = Append(got, Head(chan))
  /\ chan' = Tail(chan)
  /\ UNCHANGED sent

Next == Send \/ Receive

Spec == Init /\ [][Next]_vars
=============================================================================
