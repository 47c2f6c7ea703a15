-------------------------- MODULE MCMultipartUpload --------------------------
(***************************************************************************)
(* MultipartUpload on a small instance.  Commands fail for orderly clients *)
(* only; any others tear their session without that.                       *)
(***************************************************************************)
EXTENDS MultipartUpload, TLC

MCFailing ==
    [serial |-> {"hget", "hset", "expire", "del"}, patient |-> {"hget", "hset", "del"}, any |-> {}]

(* Bound: status, which only reads, is left to serial clients, and where   *)
(* a command failed that the properties except, no process dies as well.   *)
Focus ==
    /\ manner # "serial" => \A r \in Request : job[r].kind # "status"
    /\ failed = {} \/ faults = 0

Requests == Permutations(Request)
===============================================================================
