----------------------------- MODULE MCSegments -----------------------------
(* Segments on two threads, for NanoLog: one fills its segments, the other   *)
(* claims one, and so can take the spare the first is waiting for, and       *)
(* exits; and on one thread that hands off several segments, for Quill.      *)
EXTENDS Segments

CONSTANTS t1, t2

TwoThreads == {t1, t2}

TwoRecordsAndNone == t1 :> 2 @@ t2 :> 0

OneThread == {t1}

ThreeRecords == t1 :> 3
=============================================================================
