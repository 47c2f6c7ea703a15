----------------------------- MODULE MCAdmission -----------------------------
(***************************************************************************)
(* Admission on a small instance.  The first name encodes to letters and   *)
(* digits and needs padding; the second is U+4FBF in UTF-8, whose last     *)
(* byte encodes to '_'.                                                    *)
(***************************************************************************)
EXTENDS Admission

MCName == { <<97, 108>>, <<228, 190, 191>> }
Alike == Permutations(Thread) \cup Permutations(Ip) \cup Permutations(Secret)

(* Bound: accounts and two tokens where there is no Redis, the limiter     *)
(* where requests need neither.  Authenticate does not look at what the    *)
(* limiter keeps, nor the limiter at the path, the name or the token.  One    *)
(* address of two sends at most one request that is let through.           *)
Busy == {t \in Thread : job[t].pc # "idle"}
LetThrough(i) == SumFunction(admitted[i])
Focus ==
    \/ /\ \A i \in Ip : LetThrough(i) = 0
       /\ Cardinality(tokens) <= 2 /\ Cardinality({job[t].ip : t \in Busy}) <= 1
       /\ link = "none"
    \/ /\ users = {} /\ \A t \in Busy : job[t].path = "public"
       /\ \A i, k \in Ip : i = k \/ LetThrough(i) <= 1 \/ LetThrough(k) <= 1
===============================================================================
