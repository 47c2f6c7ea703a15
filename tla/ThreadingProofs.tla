---------------------------- MODULE ThreadingProofs ----------------------------
(***************************************************************************)
(* The two places where threads hand each other work, each for any number  *)
(* of threads.  The task queue of an EventLoop runs every task once and in *)
(* order, and never sleeps on one.  DbPool neither loses a connection nor   *)
(* hands one to two threads, and no notification is lost.                  *)
(***************************************************************************)
EXTENDS EventLoop, DbPool, SequenceTheorems, FiniteSetTheorems, TLAPS

-------------------------------------------------------------------------------
(* EventLoop *)

TypeInv ==
    /\ lpc \in LoopPc
    /\ efd \in BOOLEAN
    /\ pending \in Seq(Task) /\ batch \in Seq(Task) /\ done \in Seq(Task)
    /\ cpc \in [Caller \cup {Owner} -> {"idle", "wake", "join"}]

(* do_pending_tasks leaves nothing behind: the batch is a local variable.  *)
BatchLocal == lpc # "run" => batch = <<>>

(* A task that waits was posted with a wakeup to come or readable, or is   *)
(* about to be swapped out; before the eventfd is drained it is early.     *)
Announced ==
    /\ lpc = "setup" => Elements(pending) \subseteq early
    /\ \/ Elements(pending) \subseteq early
       \/ efd
       \/ lpc = "swap"
       \/ \E c \in Caller : cpc[c] = "wake"

IInv == TypeInv /\ BatchLocal /\ Announced

-------------------------------------------------------------------------------
(* What push_back does to the set of the tasks that wait. *)
LEMMA PushedElements ==
    ASSUME pending \in Seq(Task), NEW t \in Task
    PROVE  Pushed(t) \in Seq(Task) /\ Elements(Pushed(t)) = Elements(pending) \cup {t}
<1>1. /\ Pushed(t) \in Seq(Task)
      /\ Len(Pushed(t)) = Len(pending) + 1
      /\ \A i \in 1..Len(pending) : Pushed(t)[i] = pending[i]
      /\ Pushed(t)[Len(pending) + 1] = t
  BY AppendProperties DEF Pushed
<1>2. DOMAIN pending = 1..Len(pending) /\ DOMAIN Pushed(t) = 1..(Len(pending) + 1) /\ Len(pending) \in Nat
  BY <1>1, LenProperties
<1>3. 1..(Len(pending) + 1) = (1..Len(pending)) \cup {Len(pending) + 1}
  BY <1>2
<1> QED
  BY <1>1, <1>2, <1>3 DEF Elements

(* The abstract queue, batch \o pending, takes a post at its end.          *)
LEMMA PushedQueue ==
    ASSUME NEW b \in Seq(Task), pending \in Seq(Task), NEW t \in Task
    PROVE  b \o Pushed(t) = Append(b \o pending, t)
<1>1. <<t>> \in Seq(Task)
  OBVIOUS
<1>2. Pushed(t) = pending \o <<t>>
  BY AppendIsConcat DEF Pushed
<1>3. b \o pending \in Seq(Task)
  BY ConcatProperties
<1>4. Append(b \o pending, t) = (b \o pending) \o <<t>>
  BY <1>3, AppendIsConcat
<1>5. (b \o pending) \o <<t>> = b \o (pending \o <<t>>)
  BY <1>1, ConcatAssociative
<1> QED
  BY <1>2, <1>4, <1>5

(* The front of the abstract queue is the front of the batch.              *)
LEMMA TakenQueue ==
    ASSUME NEW b \in Seq(Task), b # <<>>, NEW q \in Seq(Task)
    PROVE  b \o q # <<>> /\ Head(b \o q) = Head(b) /\ Tail(b \o q) = Tail(b) \o q
<1>1. Len(b) \in Nat /\ Len(b) # 0 /\ Len(q) \in Nat
  BY EmptySeq, LenProperties
<1>2. /\ b \o q \in Seq(Task) /\ Len(b \o q) = Len(b) + Len(q)
      /\ \A i \in 1..Len(b) + Len(q) : (b \o q)[i] = IF i <= Len(b) THEN b[i] ELSE q[i - Len(b)]
  BY ConcatProperties
<1>3. b \o q # <<>> /\ Head(b \o q) = Head(b)
  <2>1. b \o q # <<>>
    BY <1>1, <1>2, EmptySeq
  <2>2. Head(b \o q) = (b \o q)[1] /\ Head(b) = b[1]
    BY <1>2, <2>1, HeadTailProperties
  <2> QED
    BY <1>1, <1>2, <2>1, <2>2
<1>4. Tail(b \o q) = Tail(b) \o q
  <2>1. /\ Tail(b) \in Seq(Task) /\ Len(Tail(b)) = Len(b) - 1
        /\ \A i \in 1..Len(Tail(b)) : Tail(b)[i] = b[i + 1]
    BY HeadTailProperties
  <2>2. /\ Tail(b \o q) \in Seq(Task) /\ Len(Tail(b \o q)) = Len(b) + Len(q) - 1
        /\ \A i \in 1..Len(Tail(b \o q)) : Tail(b \o q)[i] = (b \o q)[i + 1]
    BY <1>2, <1>3, HeadTailProperties
  <2>3. /\ Tail(b) \o q \in Seq(Task) /\ Len(Tail(b) \o q) = Len(b) - 1 + Len(q)
        /\ \A i \in 1..(Len(b) - 1 + Len(q)) :
              (Tail(b) \o q)[i] = IF i <= Len(b) - 1 THEN Tail(b)[i] ELSE q[i - (Len(b) - 1)]
    BY <2>1, ConcatProperties
  <2>4. ASSUME NEW i \in 1..Len(Tail(b \o q)) PROVE Tail(b \o q)[i] = (Tail(b) \o q)[i]
    <3>1. i \in 1..(Len(b) - 1 + Len(q)) /\ i + 1 \in 1..Len(b) + Len(q)
      BY <1>1, <2>2
    <3>2. CASE i <= Len(b) - 1
      BY <1>1, <1>2, <2>1, <2>2, <2>3, <3>1, <3>2
    <3>3. CASE ~(i <= Len(b) - 1)
      <4>1. ~(i + 1 <= Len(b)) /\ (i + 1) - Len(b) = i - (Len(b) - 1)
        BY <1>1, <3>1, <3>3
      <4> QED
        BY <1>2, <2>2, <2>3, <3>1, <3>3, <4>1
    <3> QED
      BY <3>2, <3>3
  <2>5. Len(Tail(b \o q)) = Len(Tail(b) \o q)
    BY <1>1, <2>2, <2>3
  <2> QED
    BY <2>2, <2>3, <2>4, <2>5, SeqEqual
<1> QED
  BY <1>3, <1>4

-------------------------------------------------------------------------------
(* At start nothing has been posted. *)
LEMMA InitIInv == Init => IInv
<1> SUFFICES ASSUME Init PROVE IInv
  OBVIOUS
<1>1. Elements(<<>>) = {}
  BY DEF Elements
<1>2. TypeInv
  <2>1. <<>> \in Seq(Task)
    BY EmptySeq
  <2>2. efd \in BOOLEAN /\ lpc \in LoopPc
    BY DEF Init, LoopPc
  <2>3. cpc \in [Caller \cup {Owner} -> {"idle", "wake", "join"}]
    BY DEF Init
  <2> QED
    BY <2>1, <2>2, <2>3 DEF Init, TypeInv
<1>3. BatchLocal /\ Announced
  BY <1>1 DEF Init, BatchLocal, Announced
<1> QED
  BY <1>2, <1>3 DEF IInv

(* The loop's thread swaps the queue out after every read of the eventfd,  *)
(* and the other threads push before they wake: no step leaves a task that *)
(* nothing announces.                                                      *)
LEMMA NextIInv == IInv /\ [Next]_vars => IInv'
<1> SUFFICES ASSUME IInv, [Next]_vars PROVE IInv'
  OBVIOUS
<1> USE EventLoopAssumption DEF IInv, TypeInv, BatchLocal, Announced, LoopPc
<1>1. CASE Drain
  BY <1>1 DEF Drain
<1>2. CASE CheckStop
  BY <1>2 DEF CheckStop, Entry
<1>3. CASE TestStop
  BY <1>3 DEF TestStop
<1>4. CASE PollWakeup \/ PollIo \/ PollTimeout
  BY <1>4 DEF PollWakeup, PollIo, PollTimeout, Poll
<1>5. CASE Dispatch
  BY <1>5 DEF Dispatch
<1>6. CASE Swap
  <2>1. Elements(<<>>) = {}
    BY DEF Elements
  <2> QED
    BY <1>6, <2>1 DEF Swap
<1>7. CASE RunTask
  BY <1>7, HeadTailProperties, AppendProperties DEF RunTask, TookTask
<1>8. CASE RunDone
  BY <1>8 DEF RunDone
<1>9. CASE Destroy
  BY <1>9 DEF Destroy
<1>10. ASSUME NEW t \in Task, LoopPost(t) PROVE IInv'
  BY <1>10, PushedElements DEF LoopPost
<1>11. ASSUME NEW t \in Task, NEW c \in Caller, Post(c, t) PROVE IInv'
  <2>1. cpc'[c] = "wake"
    BY <1>11 DEF Post
  <2> QED
    BY <1>11, <2>1, PushedElements DEF Post
<1>12. CASE Stop
  <2>1. \A c \in Caller : cpc'[c] = cpc[c]
    BY <1>12 DEF Stop
  <2> QED
    BY <1>12, <2>1 DEF Stop
<1>13. ASSUME NEW c \in Caller \cup {Owner}, Wake(c) PROVE IInv'
  BY <1>13 DEF Wake, Woken
<1>14. CASE Joined \/ UNCHANGED vars
  BY <1>14 DEF Joined, vars
<1> QED
  BY <1>1, <1>2, <1>3, <1>4, <1>5, <1>6, <1>7, <1>8, <1>9, <1>10, <1>11, <1>12, <1>13, <1>14
     DEF Next, LoopStep

(* The inductive invariant holds in every reachable state. *)
LEMMA IInvHolds == Spec => []IInv
BY InitIInv, NextIInv, PTL DEF Spec

-------------------------------------------------------------------------------
(* WakeupNeverLost: the loop never enters epoll_wait to sleep on a task    *)
(* that another thread posted after loop() had drained the eventfd.        *)
THEOREM WakeupNeverLost == Spec => []NoLostWakeup
<1>1. IInv => NoLostWakeup
  BY DEF IInv, Announced, NoLostWakeup, Asleep
<1> QED
  BY IInvHolds, <1>1, PTL

(* Every step of the loop and of its callers is a step of TaskExecutor, or *)
(* leaves the abstract queue and the tasks run as they are.                *)
LEMMA StepRefines == IInv /\ [Next]_vars => [Executor!Next]_<<batch \o pending, done>>
<1> SUFFICES ASSUME IInv, [Next]_vars
             PROVE  Executor!Next \/ UNCHANGED <<batch \o pending, done>>
  OBVIOUS
<1>0. pending \in Seq(Task) /\ batch \in Seq(Task)
  BY DEF IInv, TypeInv
<1>1. CASE RunTask
  <2>1. batch # <<>> /\ batch' = Tail(batch) /\ pending' = pending /\ done' = Append(done, Head(batch))
    BY <1>1 DEF RunTask, TookTask
  <2>2. Executor!Execute
    BY <1>0, <2>1, TakenQueue DEF Executor!Execute
  <2> QED
    BY <2>2 DEF Executor!Next
<1>2. CASE Swap
  <2>1. batch = <<>> /\ batch' = pending /\ pending' = <<>> /\ done' = done
    BY <1>2 DEF Swap, IInv, BatchLocal
  <2>2. batch \o pending = pending /\ batch' \o pending' = pending
    BY <1>0, <2>1, ConcatEmptySeq
  <2> QED
    BY <2>1, <2>2
<1>3. ASSUME NEW t \in Task, pending' = Pushed(t), UNCHANGED <<batch, done>> PROVE Executor!Submit(t)
  BY <1>0, <1>3, PushedQueue DEF Executor!Submit
<1>4. ASSUME NEW t \in Task, LoopPost(t) \/ \E c \in Caller : Post(c, t) PROVE Executor!Next
  <2>1. pending' = Pushed(t) /\ UNCHANGED <<batch, done>>
    BY <1>4 DEF LoopPost, Post
  <2> QED
    BY <1>3, <2>1 DEF Executor!Next
<1>5. ASSUME UNCHANGED <<pending, batch, done>> PROVE UNCHANGED <<batch \o pending, done>>
  BY <1>5
<1>6. CASE \/ Drain \/ CheckStop \/ TestStop \/ PollWakeup \/ PollIo \/ PollTimeout \/ Dispatch
           \/ RunDone \/ Destroy \/ Stop \/ (\E c \in Caller \cup {Owner} : Wake(c)) \/ Joined
           \/ UNCHANGED vars
  BY <1>5, <1>6 DEF Drain, CheckStop, TestStop, PollWakeup, PollIo, PollTimeout, Poll, Dispatch,
                    RunDone, Destroy, Stop, Wake, Joined, vars
<1> QED
  BY <1>1, <1>2, <1>4, <1>6 DEF Next, LoopStep

(* LoopIsExecutor: the loop implements TaskExecutor: tasks from all        *)
(* threads run once each and in the order of the push, though              *)
(* do_pending_tasks swaps the queue out and tasks post while it runs them. *)
THEOREM LoopIsExecutor == Spec => FirstInFirstOut
<1>1. Init => Executor!Init
  BY ConcatEmptySeq DEF Init, Executor!Init
<1> QED
  BY <1>1, StepRefines, IInvHolds, PTL DEF Spec, FirstInFirstOut, Executor!Spec

-------------------------------------------------------------------------------
(* DbPool *)

(* TypeOK is needed to know that a Guard at Push holds a connection and    *)
(* that one at Take holds none; Conserved to know that what Take hands out *)
(* is free.                                                                *)
PoolIInv == TypeOK /\ Conserved

(* At start every connection is in the pool. *)
LEMMA PoolInitIInv == PoolInit => PoolIInv
BY DbPoolAssumption DEF PoolInit, PoolIInv, TypeOK, Conserved

(* No step of a thread loses or duplicates a connection, or leaves a Guard *)
(* or the mutex in a state its program point does not have.                *)
LEMMA PoolNextIInv == PoolIInv /\ [PoolNext]_poolVars => PoolIInv'
<1> SUFFICES ASSUME PoolIInv, [PoolNext]_poolVars PROVE PoolIInv'
  OBVIOUS
<1> USE DbPoolAssumption DEF PoolIInv, TypeOK, Conserved, Goto, Lock, Unlock
<1>1. ASSUME NEW t \in Thread, AcquireLock(t) PROVE PoolIInv'
  BY <1>1 DEF AcquireLock
<1>2. ASSUME NEW t \in Thread, Spurious(t) PROVE PoolIInv'
  BY <1>2 DEF Spurious
<1>3. ASSUME NEW t \in Thread, Wait(t) PROVE PoolIInv'
  BY <1>3 DEF Wait
<1>4. ASSUME NEW t \in Thread, Take(t) PROVE PoolIInv'
  <2>1. PICK c \in Conn : c \in pool /\ pool' = pool \ {c} /\ hold' = [hold EXCEPT ![t] = c]
    BY <1>4 DEF Take, Predicate, Popped
  <2>2. TypeOK'
    BY <1>4, <2>1 DEF Take, Predicate
  <2>3. Conserved'
    BY <1>4, <2>1 DEF Take, Predicate
  <2> QED
    BY <2>2, <2>3
<1>5. ASSUME NEW t \in Thread, Relock(t) PROVE PoolIInv'
  BY <1>5 DEF Relock
<1>6. ASSUME NEW t \in Thread, ReleaseLock(t) PROVE PoolIInv'
  BY <1>6 DEF ReleaseLock
<1>7. ASSUME NEW t \in Thread, Push(t) PROVE PoolIInv'
  <2>1. hold[t] \in Conn
    BY <1>7 DEF Push
  <2>2. TypeOK'
    BY <1>7, <2>1 DEF Push
  <2>3. Conserved'
    BY <1>7, <2>1 DEF Push
  <2> QED
    BY <2>2, <2>3
<1>8. ASSUME NEW t \in Thread, Notify(t) PROVE PoolIInv'
  BY <1>8 DEF Notify, Notified
<1>9. CASE UNCHANGED poolVars
  BY <1>9 DEF poolVars
<1> QED
  BY <1>1, <1>2, <1>3, <1>4, <1>5, <1>6, <1>7, <1>8, <1>9 DEF PoolNext, Step

(* The inductive invariant holds in every reachable state. *)
LEMMA PoolIInvHolds == PoolSpec => []PoolIInv
BY PoolInitIInv, PoolNextIInv, PTL DEF PoolSpec

(* PoolTypeCorrect: the mutex is held exactly between lock and unlock, and *)
(* a Guard has a connection exactly while its thread uses it.              *)
THEOREM PoolTypeCorrect == PoolSpec => []TypeOK
<1>1. PoolIInv => TypeOK
  BY DEF PoolIInv
<1> QED
  BY PoolIInvHolds, <1>1, PTL

(* ConnectionsConserved: acquire and ~Guard never lose a connection and    *)
(* never hand one to two threads.                                          *)
THEOREM ConnectionsConserved == PoolSpec => []Conserved
<1>1. PoolIInv => Conserved
  BY DEF PoolIInv
<1> QED
  BY PoolIInvHolds, <1>1, PTL

-------------------------------------------------------------------------------
Sleeping == {t \in Thread : pc[t] = "waiting"}
Coming == {t \in Thread : pc[t] \in {"notify", "woken", "predicate"}}

(* The sets that NoLostNotify counts are finite. *)
LEMMA FiniteCounts ==
    ASSUME PoolIInv
    PROVE  /\ IsFiniteSet(pool) /\ Cardinality(pool) \in Nat
           /\ IsFiniteSet(Coming) /\ Cardinality(Coming) \in Nat
<1>1. pool \subseteq Conn /\ Coming \subseteq Thread
  BY DEF PoolIInv, TypeOK, Coming
<1> QED
  BY <1>1, DbPoolAssumption, FS_Subset, FS_CardinalityType

(* How a thread's step to label l moves it in and out of the two sets.     *)
LEMMA Gone ==
    ASSUME TypeOK, NEW t \in Thread, NEW l, Goto(t, l)
    PROVE  /\ Coming' = IF l \in {"notify", "woken", "predicate"} THEN Coming \cup {t} ELSE Coming \ {t}
           /\ Sleeping' = IF l = "waiting" THEN Sleeping \cup {t} ELSE Sleeping \ {t}
<1>1. \A u \in Thread : pc'[u] = IF u = t THEN l ELSE pc[u]
  BY DEF TypeOK, Goto
<1> QED
  BY <1>1 DEF Coming, Sleeping

(* No step leaves a sleeper behind: a connection comes into the pool with  *)
(* a thread that is about to notify, a thread leaves those that are coming *)
(* only with a connection, by waking another, or on finding the pool empty.*)
LEMMA NotifyStep == ASSUME PoolIInv, PoolIInv', NoLostNotify, [PoolNext]_poolVars PROVE NoLostNotify'
<1> USE DbPoolAssumption
<1> DEFINE Kept == Sleeping' # {} => Cardinality(pool') <= Cardinality(Coming')
<1>a. Sleeping # {} => Cardinality(pool) <= Cardinality(Coming)
  BY DEF NoLostNotify, Sleeping, Coming
<1>b. /\ IsFiniteSet(pool) /\ Cardinality(pool) \in Nat
      /\ IsFiniteSet(Coming) /\ Cardinality(Coming) \in Nat
  BY FiniteCounts
<1>c. TypeOK /\ Conserved /\ TypeOK'
  BY DEF PoolIInv
<1>0. SUFFICES Kept
  BY DEF NoLostNotify, Sleeping, Coming
<1>1. ASSUME NEW t \in Thread,
             AcquireLock(t) \/ Relock(t) \/ Spurious(t)
      PROVE  Kept
  <2>1. /\ pool' = pool
        /\ Goto(t, "predicate") \/ Goto(t, "woken")
    BY <1>1 DEF AcquireLock, Relock, Spurious
  <2>2. Coming' = Coming \cup {t} /\ Sleeping' \subseteq Sleeping
    BY <1>c, <2>1, Gone
  <2>3. Cardinality(Coming) <= Cardinality(Coming') /\ Cardinality(Coming') \in Nat
    BY <1>b, <2>2, FS_AddElement, FS_Subset, FS_CardinalityType
  <2> QED
    BY <1>a, <1>b, <2>1, <2>2, <2>3
<1>2. ASSUME NEW t \in Thread, Wait(t) PROVE Kept
  <2>1. pool' = {} /\ Goto(t, "waiting")
    BY <1>2 DEF Wait
  <2>2. Coming' = Coming \ {t}
    BY <1>c, <2>1, Gone
  <2>3. Cardinality(Coming') \in Nat
    BY <1>b, <2>2, FS_RemoveElement, FS_Subset, FS_CardinalityType
  <2> QED
    BY <2>1, <2>3, FS_EmptySet
<1>3. ASSUME NEW t \in Thread, Take(t) PROVE Kept
  <2>1. PICK c \in pool : pool' = pool \ {c}
    BY <1>3 DEF Take, Predicate, Popped
  <2>2. Goto(t, "using") /\ t \in Coming
    BY <1>3 DEF Take, Predicate, Coming
  <2>3. Coming' = Coming \ {t} /\ Sleeping' \subseteq Sleeping
    BY <1>c, <2>2, Gone
  <2>4. Cardinality(pool') = Cardinality(pool) - 1 /\ Cardinality(Coming') = Cardinality(Coming) - 1
    BY <1>b, <2>1, <2>2, <2>3, FS_RemoveElement
  <2> QED
    BY <1>a, <1>b, <2>3, <2>4
<1>4. ASSUME NEW t \in Thread, ReleaseLock(t) PROVE Kept
  <2>1. pool' = pool /\ Goto(t, "push") /\ t \notin Coming
    BY <1>4 DEF ReleaseLock, Coming
  <2>2. Coming' = Coming /\ Sleeping' \subseteq Sleeping
    BY <1>c, <2>1, Gone
  <2> QED
    BY <1>a, <2>1, <2>2
<1>5. ASSUME NEW t \in Thread, Push(t) PROVE Kept
  <2>1. pool' = pool \cup {hold[t]} /\ Goto(t, "notify") /\ t \notin Coming
    BY <1>5 DEF Push, Coming
  <2>2. hold[t] \notin pool
    BY <1>c DEF Conserved
  <2>3. Coming' = Coming \cup {t} /\ Sleeping' \subseteq Sleeping
    BY <1>c, <2>1, Gone
  <2>4. Cardinality(pool') = Cardinality(pool) + 1 /\ Cardinality(Coming') = Cardinality(Coming) + 1
    BY <1>b, <2>1, <2>2, <2>3, FS_AddElement
  <2> QED
    BY <1>a, <1>b, <2>3, <2>4
<1>6. ASSUME NEW t \in Thread, Notify(t) PROVE Kept
  <2>0. pool' = pool /\ t \in Coming /\ pc[t] = "notify"
    BY <1>6 DEF Notify, Coming
  <2>1. CASE Notified(t) = {} /\ Goto(t, "idle")
    <3>1. Sleeping' = {}
      BY <1>c, <2>1, Gone DEF Notified, Sleeping
    <3> QED
      BY <3>1
  <2>2. ASSUME NEW u \in Notified(t), pc' = [pc EXCEPT ![t] = "idle", ![u] = "woken"] PROVE Kept
    <3>1. u \in Thread /\ pc[u] = "waiting" /\ u # t
      BY <2>0, <2>2 DEF Notified
    <3>2. \A v \in Thread : pc'[v] = IF v = u THEN "woken" ELSE IF v = t THEN "idle" ELSE pc[v]
      BY <1>c, <2>2, <3>1 DEF TypeOK
    <3>3. Coming' = (Coming \ {t}) \cup {u} /\ Sleeping' \subseteq Sleeping
      BY <3>1, <3>2 DEF Coming, Sleeping
    <3>4. u \notin Coming \ {t}
      BY <3>1 DEF Coming
    <3>5. IsFiniteSet(Coming \ {t}) /\ Cardinality(Coming \ {t}) = Cardinality(Coming) - 1
      BY <1>b, <2>0, FS_RemoveElement
    <3>6. Cardinality(Coming') = Cardinality(Coming \ {t}) + 1
      BY <3>3, <3>4, <3>5, FS_AddElement
    <3> QED
      BY <1>a, <1>b, <2>0, <3>3, <3>5, <3>6
  <2> QED
    BY <1>6, <2>1, <2>2 DEF Notify
<1>7. CASE UNCHANGED poolVars
  <2>1. pool' = pool /\ Coming' = Coming /\ Sleeping' = Sleeping
    BY <1>7 DEF poolVars, Coming, Sleeping
  <2> QED
    BY <1>a, <2>1
<1> QED
  BY <1>1, <1>2, <1>3, <1>4, <1>5, <1>6, <1>7 DEF PoolNext, Step

(* NotifyNeverLost: notify_one after the unlock is enough: no thread       *)
(* sleeps in acquire beside an idle connection that nobody is coming for.  *)
THEOREM NotifyNeverLost == PoolSpec => []NoLostNotify
<1>1. PoolInit => NoLostNotify
  BY DEF PoolInit, NoLostNotify
<1>2. PoolIInv /\ PoolIInv' /\ NoLostNotify /\ [PoolNext]_poolVars => NoLostNotify'
  BY NotifyStep
<1> QED
  BY <1>1, <1>2, PoolIInvHolds, PTL DEF PoolSpec
===============================================================================
