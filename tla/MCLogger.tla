------------------------------ MODULE MCLogger ------------------------------
(* Logger on two threads: one fills its ring and waits or drops, the other   *)
(* comes, logs once and goes.                                                *)
EXTENDS Logger, TLC

CONSTANTS t1, t2

MCThreads == {t1, t2}

MCMaxRecords == t1 :> 2 @@ t2 :> 1
=============================================================================
