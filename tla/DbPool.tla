-------------------------------- MODULE DbPool --------------------------------
(***************************************************************************)
(* DbPool: acquire() and ~Guard() by the threads that run DAO methods,     *)
(* with the mutex, the condition variable and its spurious wakeups.        *)
(*                                                                         *)
(* A DAO method acquires once and releases when it returns; none acquires  *)
(* while it holds a Guard (purge_content passes its transaction to the     *)
(* DAO helpers it calls under its own Guard).                              *)
(***************************************************************************)
EXTENDS Naturals, FiniteSets

CONSTANTS Thread, Conn, None

ASSUME DbPoolAssumption ==
    /\ None \notin Conn \cup Thread /\ Conn # {}
    /\ IsFiniteSet(Conn) /\ IsFiniteSet(Thread)

VARIABLES
    pool,   \* pool_: the idle connections (their order does not matter)
    hold,   \* the connection of each thread's Guard
    mutex,  \* the owner of mtx_, or None
    pc      \* where each thread is

poolVars == <<pool, hold, mutex, pc>>

PoolInit ==
    /\ pool = Conn /\ hold = [t \in Thread |-> None]
    /\ mutex = None /\ pc = [t \in Thread |-> "idle"]

Goto(t, l) == pc' = [pc EXCEPT ![t] = l]
Lock(t)    == mutex = None /\ mutex' = t
Unlock(t)  == mutex = t /\ mutex' = None

-------------------------------------------------------------------------------
(* acquire *)

AcquireLock(t) ==
    /\ pc[t] = "idle" /\ Lock(t) /\ Goto(t, "predicate")
    /\ UNCHANGED <<pool, hold>>

(* cv_.wait with its predicate: an empty pool puts the thread to sleep and *)
(* gives the mutex up in one step.                                         *)
Wait(t) ==
    /\ pc[t] = "predicate" /\ pool = {}
    /\ Unlock(t) /\ Goto(t, "waiting")
    /\ UNCHANGED <<pool, hold>>

Predicate(t) == pc[t] = "predicate" /\ pool # {}

(* pool_.pop() *)
MutPopped(c) == pool
Popped(c) == pool \ {c}

(* The front of the queue, or nothing where the queue is empty.            *)
Take(t) ==
    /\ Predicate(t)
    /\ \E c \in IF pool = {} THEN {None} ELSE pool :
          pool' = Popped(c) /\ hold' = [hold EXCEPT ![t] = c]
    /\ Unlock(t) /\ Goto(t, "using")

(* The thread was notified, or wakes for no reason, and takes the mutex.   *)
Spurious(t) ==
    /\ pc[t] = "waiting" /\ Goto(t, "woken")
    /\ UNCHANGED <<pool, hold, mutex>>

Relock(t) ==
    /\ pc[t] = "woken" /\ Lock(t) /\ Goto(t, "predicate")
    /\ UNCHANGED <<pool, hold>>

-------------------------------------------------------------------------------
(* ~Guard: release *)

ReleaseLock(t) ==
    /\ pc[t] = "using" /\ Lock(t) /\ Goto(t, "push")
    /\ UNCHANGED <<pool, hold>>

Push(t) ==
    /\ pc[t] = "push"
    /\ pool' = pool \cup {hold[t]} /\ hold' = [hold EXCEPT ![t] = None]
    /\ Unlock(t) /\ Goto(t, "notify")

(* notify_one, after the mutex has been given up: one waiter, if any.      *)
MutNotified(t) == IF Cardinality(pool) = 1 THEN {u \in Thread : pc[u] = "waiting"} ELSE {}
Notified(t) == {u \in Thread : pc[u] = "waiting"}

Notify(t) ==
    /\ pc[t] = "notify"
    /\ \/ \E u \in Notified(t) : pc' = [pc EXCEPT ![t] = "idle", ![u] = "woken"]
       \/ Notified(t) = {} /\ Goto(t, "idle")
    /\ UNCHANGED <<pool, hold, mutex>>

-------------------------------------------------------------------------------
Step(t) == Wait(t) \/ Take(t) \/ Relock(t) \/ ReleaseLock(t) \/ Push(t) \/ Notify(t)

PoolNext == \E t \in Thread : AcquireLock(t) \/ Spurious(t) \/ Step(t)

PoolSpec == PoolInit /\ [][PoolNext]_poolVars

-------------------------------------------------------------------------------
(* Properties *)

(* TypeOK: the variables have their types; the mutex is held by exactly    *)
(* the thread that is between lock and unlock, and a thread has a          *)
(* connection exactly while it uses it.                                    *)
TypeOK ==
    /\ pool \subseteq Conn
    /\ hold \in [Thread -> Conn \cup {None}]
    /\ mutex \in Thread \cup {None}
    /\ pc \in [Thread -> {"idle", "predicate", "waiting", "woken", "using", "push", "notify"}]
    /\ \A t \in Thread : (mutex = t) <=> pc[t] \in {"predicate", "push"}
    /\ \A t \in Thread : (hold[t] # None) <=> pc[t] \in {"using", "push"}

(* Conserved: no connection is lost or handed to two threads: each is idle *)
(* in the pool or in the Guard of exactly one thread.                      *)
Conserved ==
    /\ \A c \in Conn : c \in pool \/ \E t \in Thread : hold[t] = c
    /\ \A t \in Thread : hold[t] \notin pool
    /\ \A t, u \in Thread : hold[t] = hold[u] /\ hold[t] # None => t = u

(* NoLostNotify: a thread sleeps while a connection is idle only if        *)
(* another thread is awake in acquire or about to notify: as many as there *)
(* are idle connections or sleepers, whichever is less.                    *)
NoLostNotify ==
    LET sleeping == {t \in Thread : pc[t] = "waiting"}
        coming == {t \in Thread : pc[t] \in {"notify", "woken", "predicate"}}
    IN  sleeping # {} => Cardinality(pool) <= Cardinality(coming)

===============================================================================
