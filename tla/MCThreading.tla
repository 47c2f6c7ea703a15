------------------------------ MODULE MCThreading ------------------------------
(***************************************************************************)
(* An event loop and a database pool, which share no state: bound, one of  *)
(* them moves only while the other is as it was at the start.              *)
(***************************************************************************)
EXTENDS EventLoop, DbPool

BothInit == Init /\ PoolInit

BothNext ==
    \/ Next /\ PoolInit /\ UNCHANGED poolVars
    \/ PoolNext /\ Init /\ UNCHANGED vars

(* Fairness is that of the loop: its liveness properties are the only ones.*)
BothSpec == BothInit /\ [][BothNext]_<<vars, poolVars>> /\ Fairness
===============================================================================
