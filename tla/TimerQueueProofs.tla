--------------------------- MODULE TimerQueueProofs ---------------------------
(***************************************************************************)
(* The timerfd of a TimerQueue is set for its earliest timer, but for the  *)
(* last microsecond; a Timer is touched after delete only where it was     *)
(* cancelled too late or in the hands of handle_read; and no cancelled     *)
(* timer runs.  For any set of timers, any delays and any interval, and    *)
(* whatever callers add and cancel.                                        *)
(***************************************************************************)
EXTENDS TimerQueue, SequenceTheorems, WellFoundedInduction, TLAPS

Op == {"add", "cancel"}
Call == [op : Op, timer : Timer]

TypeInv ==
    /\ now \in Nat /\ current \in Nat /\ setAt \in Nat
    /\ exp \in [Timer -> Nat \cup {None}]
    /\ tasks \in Seq(Call)
    /\ timers \subseteq Timer /\ batch \subseteq Timer
    /\ canceling \subseteq Timer /\ pendingCancel \subseteq Timer /\ freed \subseteq Timer
    /\ alarm \in Nat \cup {None}
    /\ cur \in Timer \cup {None}
    /\ lpc \in {"idle", "next", "callback", "after", "sweep"}
    /\ calling \in BOOLEAN
    /\ cancelled \subseteq Timer

(* Where handle_read is, and what it has left to treat.                    *)
LoopInv ==
    /\ lpc = "idle" <=> ~calling
    /\ ~calling => batch = {} /\ canceling = {}
    /\ lpc \in {"callback", "after"} <=> cur # None
    /\ lpc = "sweep" => batch = {}

(* Only timers that exist are queued, set, expired, cancelled or deleted.  *)
Known == timers \cup batch \cup canceling \cup pendingCancel \cup freed \cup cancelled

Exists ==
    /\ \A t \in Known : Created(t)
    /\ cur # None => Created(cur)
    /\ \A o \in Op, t \in Timer : Posted(o, t) => Created(t)

BaseInv == TypeInv /\ LoopInv /\ Exists

-------------------------------------------------------------------------------
(* The queue of calls *)

(* queue_in_loop puts one more call in the queue. *)
LEMMA PostAdds ==
    ASSUME tasks \in Seq(Call), NEW o \in Op, NEW t \in Timer, Post(o, t)
    PROVE  /\ tasks' \in Seq(Call)
           /\ Len(tasks') = Len(tasks) + 1
           /\ \A i \in 1..Len(tasks) : tasks'[i] = tasks[i]
           /\ tasks'[Len(tasks) + 1] = [op |-> o, timer |-> t]
           /\ \A p, u : Posted(p, u)' <=> Posted(p, u) \/ (p = o /\ u = t)
<1> DEFINE c == [op |-> o, timer |-> t]
<1>1. c \in Call
  BY DEF Call
<1>2. tasks' = Append(tasks, c)
  BY DEF Post
<1> HIDE DEF c
<1>3. /\ tasks' \in Seq(Call) /\ Len(tasks') = Len(tasks) + 1
      /\ \A i \in 1..Len(tasks) : tasks'[i] = tasks[i]
      /\ tasks'[Len(tasks) + 1] = c
  BY <1>1, <1>2, AppendProperties
<1>4. DOMAIN tasks = 1..Len(tasks) /\ DOMAIN tasks' = 1..(Len(tasks) + 1) /\ Len(tasks) \in Nat
  BY <1>3, LenProperties
<1>5. ASSUME NEW p, NEW u PROVE Posted(p, u)' <=> Posted(p, u) \/ (p = o /\ u = t)
  <2>1. Posted(p, u)' <=> \E i \in 1..(Len(tasks) + 1) : tasks'[i] = [op |-> p, timer |-> u]
    BY <1>4 DEF Posted
  <2>2. Posted(p, u) <=> \E i \in 1..Len(tasks) : tasks[i] = [op |-> p, timer |-> u]
    BY <1>4 DEF Posted
  <2>3. c = [op |-> p, timer |-> u] <=> (p = o /\ u = t)
    BY DEF c
  <2>4. \A i : i \in 1..(Len(tasks) + 1) <=> (i \in 1..Len(tasks) \/ i = Len(tasks) + 1)
    BY <1>4
  <2> QED
    BY <1>3, <2>1, <2>2, <2>3, <2>4
<1> QED
  BY <1>3, <1>5 DEF c

(* What is left of the queue when its first call has been taken out.       *)
LEMMA TakeShifts ==
    ASSUME tasks \in Seq(Call), tasks # <<>>, tasks' = Tail(tasks)
    PROVE  /\ tasks' \in Seq(Call) /\ Len(tasks) \in Nat /\ Len(tasks') = Len(tasks) - 1
           /\ 1 \in DOMAIN tasks /\ Head(tasks) = tasks[1] /\ Head(tasks) \in Call
           /\ \A i \in DOMAIN tasks' : i + 1 \in DOMAIN tasks /\ tasks'[i] = tasks[i + 1] /\ i \in Nat
           /\ \A i \in DOMAIN tasks : i # 1 => i - 1 \in DOMAIN tasks' /\ tasks'[i - 1] = tasks[i]
<1>1. /\ tasks' \in Seq(Call) /\ Len(tasks') = Len(tasks) - 1 /\ Head(tasks) \in Call
      /\ \A i \in 1..Len(tasks') : tasks'[i] = tasks[i + 1]
  BY HeadTailProperties
<1>2. DOMAIN tasks = 1..Len(tasks) /\ DOMAIN tasks' = 1..Len(tasks') /\ Len(tasks) \in Nat /\ Len(tasks) # 0
  BY <1>1, LenProperties, EmptySeq
<1>3. Head(tasks) = tasks[1]
  OBVIOUS
<1>4. \A i \in 1..Len(tasks) : i # 1 => i - 1 \in 1..Len(tasks')
  BY <1>1, <1>2
<1>5. \A i \in 1..Len(tasks) : i # 1 => tasks'[i - 1] = tasks[(i - 1) + 1] /\ (i - 1) + 1 = i
  BY <1>1, <1>2, <1>4
<1>6. \A i \in 1..Len(tasks) : i # 1 => tasks'[i - 1] = tasks[i]
  BY <1>5
<1>7. \A i \in 1..Len(tasks') : i + 1 \in 1..Len(tasks) /\ i \in Nat
  BY <1>1, <1>2
<1> QED
  BY <1>1, <1>2, <1>3, <1>4, <1>6, <1>7

(* A call that is left in the queue was there before. *)
LEMMA TakeKeeps ==
    ASSUME tasks \in Seq(Call), tasks # <<>>, tasks' = Tail(tasks)
    PROVE  /\ Posted(Head(tasks).op, Head(tasks).timer)
           /\ \A p, u : Posted(p, u)' => Posted(p, u)
<1>1. Head(tasks) = [op |-> Head(tasks).op, timer |-> Head(tasks).timer]
  <2>1. Head(tasks) \in [op : Op, timer : Timer]
    BY TakeShifts DEF Call
  <2> QED
    BY <2>1
<1>2. 1 \in DOMAIN tasks /\ Head(tasks) = tasks[1]
  BY TakeShifts
<1>3. \A i \in DOMAIN tasks' : i + 1 \in DOMAIN tasks /\ tasks'[i] = tasks[i + 1]
  BY TakeShifts
<1> QED
  BY <1>1, <1>2, <1>3 DEF Posted

-------------------------------------------------------------------------------
(* BaseInv holds whatever the callers do. *)

(* At start there is no timer. *)
LEMMA InitBase == Init => BaseInv
<1> SUFFICES ASSUME Init PROVE BaseInv
  OBVIOUS
<1>1. <<>> \in Seq(Call)
  BY EmptySeq
<1>2. TypeInv
  BY <1>1 DEF Init, TypeInv
<1>3. \A o, t : ~Posted(o, t)
  BY DEF Init, Posted
<1> QED
  BY <1>2, <1>3 DEF Init, BaseInv, LoopInv, Exists, Known

(* The earliest of some timers that exist. *)
First(f, ts) == CHOOSE e \in {f[t] : t \in ts} : \A t \in ts : e <= f[t]

(* It is the time of one of them, and none is before it.                   *)
LEMMA FirstIsLeast ==
    ASSUME NEW f, NEW ts, ts # {}, \A t \in ts : f[t] \in Nat
    PROVE  /\ First(f, ts) \in Nat
           /\ \E t \in ts : First(f, ts) = f[t]
           /\ \A t \in ts : First(f, ts) <= f[t]
<1> DEFINE T == {f[t] : t \in ts}
<1>1. T \subseteq Nat /\ T # {}
  OBVIOUS
<1> HIDE DEF T
<1>2. PICK x \in T : \A y \in T : ~(<<y, x>> \in OpToRel(<, Nat))
  BY <1>1, NatLessThanWellFounded, WFMin
<1>3. \A y \in T : x <= y
  <2> SUFFICES ASSUME NEW y \in T PROVE x <= y
    OBVIOUS
  <2>1. x \in Nat /\ y \in Nat
    BY <1>1
  <2>2. <<y, x>> \in OpToRel(<, Nat) <=> y < x
    BY <2>1 DEF OpToRel
  <2>3. ~(y < x)
    BY <1>2, <2>2, Zenon
  <2> QED
    BY <2>1, <2>3
<1> USE DEF T
<1>4. \E e \in T : \A t \in ts : e <= f[t]
  BY <1>3
<1>5. First(f, ts) \in T /\ \A t \in ts : First(f, ts) <= f[t]
  BY <1>4 DEF First
<1> QED
  BY <1>1, <1>5

(* The model's Earliest, before and after a step. *)
LEMMA EarliestIsFirst ==
    /\ \A ts : Earliest(ts) = First(exp, ts)
    /\ Earliest(timers)' = First(exp', timers')
BY DEF Earliest, First

(* A time cut to whole microseconds. *)
LEMMA WholeCuts ==
    ASSUME NEW d \in Nat
    PROVE  Whole(d) \in Nat /\ Whole(d) <= d /\ d < Whole(d) + Micro
BY TimerQueueAssumption DEF Whole

(* reset_timerfd sets a time, or disarms. *)
LEMMA ResetTypes ==
    ASSUME TypeInv, NEW e \in Nat, Reset(e)
    PROVE  alarm' \in Nat \cup {None} /\ setAt' \in Nat
<1>1. now \in Nat /\ (e > now => e - now \in Nat)
  BY DEF TypeInv
<1> QED
  BY <1>1, WholeCuts, TimerQueueAssumption DEF Reset, AlarmFor

(* add_timer_in_loop and insert touch one timer, and set the timerfd.      *)
LEMMA AddTypes ==
    ASSUME TypeInv, NEW t \in Timer, NEW e \in Nat, AddInLoop(t, e)
    PROVE  /\ timers' \subseteq timers \cup {t} /\ alarm' \in Nat \cup {None} /\ setAt' \in Nat
           /\ pendingCancel' \subseteq pendingCancel /\ freed' \subseteq freed \cup {t}
<1>1. alarm' \in Nat \cup {None} /\ setAt' \in Nat
  BY ResetTypes DEF TypeInv, AddInLoop, Insert
<1> QED
  BY <1>1 DEF TypeInv, AddInLoop, Insert, Free, Touch

(* cancel_in_loop keeps the timers known, and sets the timerfd.            *)
LEMMA CancelTypes ==
    ASSUME BaseInv, NEW t \in Timer, CancelInLoop(t)
    PROVE  /\ timers' \subseteq timers /\ alarm' \in Nat \cup {None} /\ setAt' \in Nat
           /\ canceling' \subseteq canceling \cup {t} /\ pendingCancel' \subseteq pendingCancel \cup {t}
           /\ freed' \subseteq freed \cup {t} /\ cancelled' = cancelled \cup {t}
           /\ ~calling => canceling' = canceling
<1> USE DEF BaseInv, TypeInv, Exists, Created, Known
<1>1. /\ timers' \subseteq timers /\ canceling' \subseteq canceling \cup {t}
      /\ pendingCancel' \subseteq pendingCancel \cup {t} /\ freed' \subseteq freed \cup {t}
  BY DEF CancelInLoop, Erased, Free, Touch
<1>2. cancelled' = cancelled \cup {t} /\ (~calling => canceling' = canceling)
  BY DEF CancelInLoop
<1>3. alarm' \in Nat \cup {None} /\ setAt' \in Nat
  <2>1. timers' # {} => Earliest(timers') \in Nat
    BY <1>1, FirstIsLeast, EarliestIsFirst
  <2>2. \/ UNCHANGED <<alarm, setAt>>
        \/ timers' # {} /\ Reset(Earliest(timers'))
    BY DEF CancelInLoop
  <2>3. CASE timers' # {} /\ Reset(Earliest(timers'))
    <3> HIDE DEF BaseInv, TypeInv
    <3>1. TypeInv
      BY DEF BaseInv
    <3> QED BY <2>1, <2>3, <3>1, ResetTypes
  <2> QED
    BY <2>2, <2>3
<1> QED
  BY <1>1, <1>2, <1>3

(* No step queues, sets or expires a timer that does not exist.            *)
LEMMA NextBase == BaseInv /\ [Next]_vars => BaseInv'
<1> SUFFICES ASSUME BaseInv, [Next]_vars PROVE BaseInv'
  OBVIOUS
<1> USE TimerQueueAssumption
<1>a. TypeInv /\ LoopInv /\ Exists
  BY DEF BaseInv
<1>1. CASE HandleRead
  <2>1. TypeInv' /\ LoopInv'
    BY <1>a, <1>1 DEF HandleRead, TypeInv, LoopInv, Due, Undue, memory
  <2>2. Known' \subseteq Known /\ UNCHANGED <<exp, tasks, cur>>
    BY <1>a, <1>1 DEF HandleRead, Known, Due, Undue, memory
  <2>3. Exists'
    BY <1>a, <2>2 DEF Exists, Created, Posted
  <2> QED
    BY <2>1, <2>3 DEF BaseInv
<1>2. CASE NextExpired
  <2>1. TypeInv' /\ LoopInv'
    BY <1>a, <1>2 DEF NextExpired, TypeInv, LoopInv, Touch, memory
  <2>2. /\ Known' \subseteq Known /\ UNCHANGED <<exp, tasks>> /\ (cur' # None => cur' \in Known)
    BY <1>a, <1>2 DEF NextExpired, LoopInv, Known, Touch, memory
  <2>3. Exists'
    BY <1>a, <2>2 DEF Exists, Created, Posted
  <2> QED
    BY <2>1, <2>3 DEF BaseInv
<1>3. CASE CallbackReturn
  <2>1. TypeInv' /\ LoopInv'
    BY <1>a, <1>3 DEF CallbackReturn, TypeInv, LoopInv, memory
  <2>2. Exists'
    BY <1>a, <1>3 DEF CallbackReturn, Exists, Known, Created, Posted, memory
  <2> QED
    BY <2>1, <2>2 DEF BaseInv
<1>4. CASE AfterCallback
  <2>0. cur \in Timer /\ cur' = None
    BY <1>a, <1>4 DEF AfterCallback, TypeInv, LoopInv
  <2>1. current + Interval \in Nat
    BY <1>a DEF TypeInv
  <2>2. /\ timers' \subseteq timers \cup {cur} /\ freed' \subseteq freed \cup {cur}
        /\ exp' = exp \/ exp' = [exp EXCEPT ![cur] = current + Interval]
        /\ UNCHANGED <<now, current, tasks, calling, batch, canceling, pendingCancel, cancelled>>
    BY <1>4 DEF AfterCallback, Insert, Free, Touch
  <2>3. alarm' \in Nat \cup {None} /\ setAt' \in Nat
    <3>1. UNCHANGED <<alarm, setAt>> \/ Reset(current + Interval)
      BY <1>4 DEF AfterCallback, Insert
    <3> QED BY <1>a, <2>1, <3>1, ResetTypes DEF TypeInv
  <2>4. TypeInv'
    BY <1>a, <1>4, <2>0, <2>1, <2>2, <2>3 DEF AfterCallback, TypeInv
  <2>5. LoopInv'
    BY <1>a, <1>4 DEF AfterCallback, TypeInv, LoopInv
  <2>6. \A t \in Timer : exp'[t] # None <=> exp[t] # None
    BY <1>a, <2>0, <2>1, <2>2 DEF TypeInv, Exists, Created
  <2>7. Known' \subseteq Known \cup {cur} /\ Known \subseteq Timer
    BY <1>a, <2>2 DEF Known, TypeInv
  <2>8. Exists'
    BY <1>a, <2>0, <2>2, <2>6, <2>7 DEF Exists, Created, Posted
  <2> QED
    BY <2>4, <2>5, <2>8 DEF BaseInv
<1>5. CASE Sweep
  <2>0. timers' \subseteq timers /\ UNCHANGED <<exp, tasks, cur>>
    BY <1>5 DEF Sweep
  <2>1. timers' # {} => Earliest(timers') \in Nat
    BY <1>a, <2>0, FirstIsLeast, EarliestIsFirst DEF TypeInv, Exists, Created, Known
  <2>2. alarm' \in Nat \cup {None} /\ setAt' \in Nat
    <3>1. UNCHANGED <<alarm, setAt>> \/ (timers' # {} /\ Reset(Earliest(timers')))
      BY <1>5 DEF Sweep
    <3> QED BY <1>a, <2>1, <3>1, ResetTypes DEF TypeInv
  <2>3. TypeInv' /\ LoopInv'
    BY <1>a, <1>5, <2>2 DEF Sweep, TypeInv, LoopInv, Free, Swept
  <2>4. Known' \subseteq Known
    BY <1>5 DEF Sweep, Known, Free, Swept
  <2>5. Exists'
    BY <1>a, <2>0, <2>4 DEF Exists, Created, Posted
  <2> QED
    BY <2>3, <2>5 DEF BaseInv
<1>6. CASE RunTask
  <2>0. tasks # <<>> /\ tasks' = Tail(tasks) /\ lpc = "idle" /\ UNCHANGED <<now, current, exp, calling, batch, cur, lpc>>
    BY <1>6 DEF RunTask
  <2>t. PICK t \in Timer, o \in Op : t = Head(tasks).timer /\ o = Head(tasks).op
    BY <1>a, <2>0, TakeShifts DEF TypeInv, Call
  <2>1. tasks' \in Seq(Call) /\ Created(t) /\ exp[t] \in Nat
    <3>1. tasks' \in Seq(Call) /\ Posted(o, t)
      BY <1>a, <2>0, <2>t, TakeShifts, TakeKeeps DEF TypeInv
    <3> QED BY <1>a, <3>1 DEF TypeInv, Exists, Created
  <2>2. \/ AddInLoop(t, exp[t]) /\ UNCHANGED <<canceling, cancelled>>
        \/ CancelInLoop(t)
    BY <1>6, <2>t DEF RunTask
  <2>3. /\ timers' \subseteq timers \cup {t} /\ alarm' \in Nat \cup {None} /\ setAt' \in Nat
        /\ pendingCancel' \subseteq pendingCancel \cup {t} /\ freed' \subseteq freed \cup {t}
        /\ cancelled' \subseteq cancelled \cup {t} /\ canceling' = {} /\ canceling = {}
    <3>1. CASE CancelInLoop(t)
      BY <1>a, <2>0, <3>1, CancelTypes DEF BaseInv, LoopInv
    <3>2. CASE AddInLoop(t, exp[t]) /\ UNCHANGED <<canceling, cancelled>>
      BY <1>a, <2>0, <2>1, <3>2, AddTypes DEF LoopInv
    <3> QED
      BY <2>2, <3>1, <3>2
  <2>4. TypeInv' /\ LoopInv'
    BY <1>a, <2>0, <2>1, <2>3 DEF TypeInv, LoopInv
  <2>5. Known' \subseteq Known \cup {t}
    BY <2>0, <2>3 DEF Known
  <2>6. Exists'
    BY <1>a, <2>0, <2>1, <2>5, TakeKeeps DEF TypeInv, Exists, Created
  <2> QED
    BY <2>4, <2>6 DEF BaseInv
<1>7. CASE Tick
  <2>1. TypeInv' /\ LoopInv'
    BY <1>a, <1>7 DEF Tick, TypeInv, LoopInv, memory
  <2>2. Exists'
    BY <1>a, <1>7 DEF Tick, Exists, Known, Created, Posted, memory
  <2> QED
    BY <2>1, <2>2 DEF BaseInv
<1>8. ASSUME NEW t \in Timer, Cancel(t) PROVE BaseInv'
  <2>0. /\ tasks' \in Seq(Call)
        /\ \A p, u : Posted(p, u)' <=> Posted(p, u) \/ (p = "cancel" /\ u = t)
    BY <1>a, <1>8, PostAdds DEF Cancel, TypeInv, Op
  <2>1. TypeInv' /\ LoopInv'
    BY <1>a, <1>8, <2>0 DEF Cancel, TypeInv, LoopInv, memory
  <2>2. Exists'
    BY <1>a, <1>8, <2>0 DEF Cancel, Exists, Known, Created, memory
  <2> QED
    BY <2>1, <2>2 DEF BaseInv
<1>9. ASSUME NEW t \in Timer, CallbackCancel(t) PROVE BaseInv'
  <2>0. CancelInLoop(t) /\ Created(t) /\ UNCHANGED <<now, current, exp, tasks, calling, batch, cur, lpc>>
    BY <1>9 DEF CallbackCancel
  <2>1. TypeInv' /\ LoopInv'
    BY <1>a, <2>0, CancelTypes DEF BaseInv, TypeInv, LoopInv
  <2>2. Known' \subseteq Known \cup {t}
    BY <1>a, <2>0, CancelTypes DEF BaseInv, Known
  <2>3. Exists'
    BY <1>a, <2>0, <2>2 DEF Exists, Created, Posted
  <2> QED
    BY <2>1, <2>3 DEF BaseInv
<1>10. ASSUME NEW t \in Timer, NEW d \in Delay, AddTimer(t, d) PROVE BaseInv'
  <2>0. /\ tasks' \in Seq(Call)
        /\ \A p, u : Posted(p, u)' <=> Posted(p, u) \/ (p = "add" /\ u = t)
    BY <1>a, <1>10, PostAdds DEF AddTimer, TypeInv, Op
  <2>1. now + d \in Nat
    BY <1>a DEF TypeInv
  <2>2. TypeInv' /\ LoopInv'
    BY <1>a, <1>10, <2>0, <2>1 DEF AddTimer, TypeInv, LoopInv, memory
  <2>3. \A u \in Timer : exp'[u] = IF u = t THEN now + d ELSE exp[u]
    BY <1>a, <1>10 DEF AddTimer, TypeInv
  <2>4. Known' = Known /\ Known \subseteq Timer /\ UNCHANGED cur
    BY <1>a, <1>10 DEF AddTimer, Known, memory, TypeInv
  <2>5. Exists'
    BY <1>a, <2>0, <2>1, <2>3, <2>4 DEF Exists, Created, TypeInv
  <2> QED
    BY <2>2, <2>5 DEF BaseInv
<1>11. ASSUME NEW t \in Timer, NEW d \in Delay, CallbackAdd(t, d) PROVE BaseInv'
  <2>1. now + d \in Nat
    BY <1>a DEF TypeInv
  <2>2. /\ timers' \subseteq timers \cup {t} /\ alarm' \in Nat \cup {None} /\ setAt' \in Nat
        /\ pendingCancel' \subseteq pendingCancel /\ freed' \subseteq freed \cup {t}
    BY <1>a, <1>11, <2>1, AddTypes DEF CallbackAdd
  <2>3. TypeInv' /\ LoopInv'
    BY <1>a, <1>11, <2>1, <2>2 DEF CallbackAdd, TypeInv, LoopInv
  <2>4. \A u \in Timer : exp'[u] = IF u = t THEN now + d ELSE exp[u]
    BY <1>a, <1>11 DEF CallbackAdd, TypeInv
  <2>5. Known' \subseteq Known \cup {t} /\ Known \subseteq Timer /\ UNCHANGED <<cur, tasks>>
    BY <1>a, <1>11, <2>2 DEF CallbackAdd, Known, TypeInv
  <2>6. Exists'
    BY <1>a, <2>1, <2>4, <2>5 DEF Exists, Created, TypeInv, Posted
  <2> QED
    BY <2>3, <2>6 DEF BaseInv
<1>12. CASE UNCHANGED vars
  <2>1. TypeInv' /\ LoopInv'
    BY <1>a, <1>12 DEF vars, TypeInv, LoopInv
  <2>2. Exists'
    BY <1>a, <1>12 DEF vars, Exists, Known, Created, Posted
  <2> QED
    BY <2>1, <2>2 DEF BaseInv
<1> QED
  BY <1>1, <1>2, <1>3, <1>4, <1>5, <1>6, <1>7, <1>8, <1>9, <1>10, <1>11, <1>12 DEF Next, LoopStep

(* BaseInv holds in every reachable state. *)
LEMMA BaseHolds == Spec => []BaseInv
BY InitBase, NextBase, PTL DEF Spec
-------------------------------------------------------------------------------
(* The timerfd *)

(* The timerfd, set at s to fire at a, is set for the time e.              *)
SetFor(a, e, s) ==
    \/ a # None /\ (a <= e \/ a <= s + Pause)
    \/ a = None /\ s < e /\ e < s + Micro

(* What Armed says, with the earliest timer named. *)
Least(f, ts, e) == (\A t \in ts : e <= f[t]) /\ (\E t \in ts : e = f[t])
ArmedFor(f, ts, a, s) == \A e \in Nat : Least(f, ts, e) => SetFor(a, e, s)

(* The least time of some timers is the only one. *)
LEMMA OneLeast ==
    ASSUME NEW f, NEW ts, ts # {}, \A t \in ts : f[t] \in Nat
    PROVE  /\ First(f, ts) \in Nat /\ Least(f, ts, First(f, ts))
           /\ \A e \in Nat : Least(f, ts, e) => e = First(f, ts)
<1> DEFINE m == First(f, ts)
<1>1. m \in Nat /\ (\E t \in ts : m = f[t]) /\ (\A t \in ts : m <= f[t])
  BY FirstIsLeast
<1> HIDE DEF m
<1>2. ASSUME NEW e \in Nat, Least(f, ts, e) PROVE e = m
  <2>1. PICK t \in ts : e = f[t]
    BY <1>2 DEF Least
  <2>2. PICK u \in ts : m = f[u]
    BY <1>1
  <2>3. e <= m /\ m <= e
    BY <1>1, <1>2, <2>1, <2>2 DEF Least
  <2> QED
    BY <1>1, <2>3
<1> QED
  BY <1>1, <1>2 DEF m, Least

(* It is the same for timers that exist. *)
LEMMA ArmedMeans ==
    ASSUME BaseInv
    PROVE  Armed <=> (lpc = "idle" => ArmedFor(exp, timers, alarm, setAt))
<1>1. \A t \in timers : exp[t] \in Nat
  BY DEF BaseInv, TypeInv, Exists, Created, Known
<1>2. CASE timers = {}
  BY <1>2 DEF Armed, ArmedFor, Least
<1>3. CASE timers # {}
  <2> DEFINE m == First(exp, timers)
  <2>1. Earliest(timers) = m
    BY EarliestIsFirst
  <2>2. m \in Nat /\ Least(exp, timers, m) /\ \A e \in Nat : Least(exp, timers, e) => e = m
    BY <1>1, <1>3, OneLeast
  <2> HIDE DEF m
  <2>3. ArmedFor(exp, timers, alarm, setAt) <=> SetFor(alarm, m, setAt)
    BY <2>2 DEF ArmedFor
  <2> QED
    BY <1>3, <2>1, <2>3 DEF Armed, SetFor
<1> QED
  BY <1>2, <1>3

(* The same after a step. *)
LEMMA ArmedMeansNext == BaseInv' => (Armed' <=> (lpc' = "idle" => ArmedFor(exp', timers', alarm', setAt')))
<1>1. BaseInv => (Armed <=> (lpc = "idle" => ArmedFor(exp, timers, alarm, setAt)))
  BY ArmedMeans
<1>2. (BaseInv => (Armed <=> (lpc = "idle" => ArmedFor(exp, timers, alarm, setAt))))'
  BY <1>1, PTL
<1> QED
  BY <1>2 DEF ArmedFor, Least, SetFor

(* reset_timerfd sets the timerfd for its argument. *)
LEMMA ResetSets ==
    ASSUME TypeInv, NEW e \in Nat, Reset(e)
    PROVE  SetFor(alarm', e, setAt')
<1>1. now \in Nat /\ alarm' = AlarmFor(e) /\ setAt' = now
  BY DEF TypeInv, Reset
<1>2. CASE e <= now
  <2>1. now + Pause \in Nat /\ AlarmFor(e) = now + Pause
    BY <1>1, <1>2, TimerQueueAssumption DEF AlarmFor
  <2> QED BY <1>1, <2>1, TimerQueueAssumption DEF SetFor
<1>3. CASE e > now
  <2>1. PICK w : w = Whole(e - now)
    OBVIOUS
  <2>2. e - now \in Nat
    BY <1>1, <1>3
  <2>3. w \in Nat /\ w <= e - now /\ e - now < w + Micro
    BY <2>1, <2>2, WholeCuts
  <2>4. AlarmFor(e) = IF w = 0 THEN None ELSE now + w
    BY <1>1, <1>3, <2>1 DEF AlarmFor
  <2>5. CASE w = 0
    BY <1>1, <1>3, <2>3, <2>4, <2>5, TimerQueueAssumption DEF SetFor
  <2>6. CASE w # 0
    <3>1. now + w \in Nat /\ now + w <= e /\ now + w # None
      BY <1>1, <2>3, TimerQueueAssumption
    <3> QED BY <1>1, <2>4, <2>6, <3>1 DEF SetFor
  <2> QED BY <2>5, <2>6
<1> QED
  BY <1>1, <1>2, <1>3

(* insert sets the timerfd when the new timer is the earliest.             *)
LEMMA AddArms ==
    ASSUME BaseInv, ArmedFor(exp, timers, alarm, setAt),
           NEW t \in Timer, NEW e \in Nat, AddInLoop(t, e), exp'[t] = e,
           \A u \in timers : exp'[u] = exp[u]
    PROVE  ArmedFor(exp', timers', alarm', setAt')
<1>1. CASE UNCHANGED <<timers, alarm, setAt>>
  BY <1>1 DEF ArmedFor, Least
<1>2. CASE Insert(t, e)
  <2>0. (\A u \in timers : exp[u] \in Nat) /\ timers' = timers \cup {t} /\ TypeInv
    BY <1>2 DEF BaseInv, TypeInv, Exists, Created, Known, Insert
  <2>1. CASE timers = {}
    <3>1. Reset(e)
      BY <1>2, <2>1 DEF Insert, EarliestChanged
    <3>2. \A x \in Nat : Least(exp', timers', x) => x = e
      BY <2>0, <2>1 DEF Least
    <3>3. SetFor(alarm', e, setAt')
      BY <2>0, <3>1, ResetSets
    <3> QED
      BY <3>2, <3>3 DEF ArmedFor
  <2>2. CASE timers # {}
    <3> DEFINE m == First(exp, timers)
    <3>1. Earliest(timers) = m
      BY EarliestIsFirst
    <3>2. m \in Nat /\ Least(exp, timers, m)
      BY <2>0, <2>2, OneLeast
    <3> HIDE DEF m
    <3>3. IF e < m THEN Reset(e) ELSE UNCHANGED <<alarm, setAt>>
      BY <1>2, <2>2, <3>1 DEF Insert, EarliestChanged
    <3>4. PICK b \in timers : m = exp[b]
      BY <3>2 DEF Least
    <3>5. ASSUME NEW x \in Nat, Least(exp', timers', x) PROVE x = IF e < m THEN e ELSE m
      <4>1. x <= e /\ x <= m
        BY <2>0, <3>4, <3>5 DEF Least
      <4>2. PICK u \in timers' : x = exp'[u]
        BY <3>5 DEF Least
      <4>3. x = e \/ m <= x
        BY <2>0, <3>2, <4>2 DEF Least
      <4> QED
        BY <3>2, <4>1, <4>3
    <3>6. CASE e < m
      <4>1. SetFor(alarm', e, setAt')
        BY <2>0, <3>3, <3>6, ResetSets
      <4> QED
        BY <3>5, <3>6, <4>1 DEF ArmedFor
    <3>7. CASE ~(e < m)
      <4>1. SetFor(alarm', m, setAt')
        BY <3>2, <3>3, <3>7 DEF ArmedFor
      <4> QED
        BY <3>5, <3>7, <4>1 DEF ArmedFor
    <3> QED
      BY <3>6, <3>7
  <2> QED
    BY <2>1, <2>2
<1> QED
  BY <1>1, <1>2 DEF AddInLoop

(* A timerfd set for the earliest of the timers left. *)
LEMMA ResetArms ==
    ASSUME BaseInv, NEW ts, ts \subseteq timers, ts # {}, Reset(Earliest(ts))
    PROVE  ArmedFor(exp, ts, alarm', setAt')
<1>1. TypeInv /\ \A t \in ts : exp[t] \in Nat
  BY DEF BaseInv, TypeInv, Exists, Created, Known
<1> DEFINE m == First(exp, ts)
<1>2. Reset(m)
  BY EarliestIsFirst
<1>3. m \in Nat /\ \A e \in Nat : Least(exp, ts, e) => e = m
  BY <1>1, OneLeast
<1> HIDE DEF m
<1>4. SetFor(alarm', m, setAt')
  BY <1>1, <1>2, <1>3, ResetSets
<1> QED
  BY <1>3, <1>4 DEF ArmedFor

(* A timerfd set for some timers is set for fewer that keep the earliest.  *)
LEMMA FewerArmed ==
    ASSUME BaseInv, ArmedFor(exp, timers, alarm, setAt), NEW ts, ts \subseteq timers,
           NEW b \in ts, exp[b] = Earliest(timers)
    PROVE  ArmedFor(exp, ts, alarm, setAt)
<1>1. \A t \in timers : exp[t] \in Nat
  BY DEF BaseInv, TypeInv, Exists, Created, Known
<1>2. Least(exp, timers, exp[b])
  BY <1>1, OneLeast, EarliestIsFirst
<1>3. \A e \in Nat : Least(exp, ts, e) => Least(exp, timers, e)
  <2> SUFFICES ASSUME NEW e \in Nat, Least(exp, ts, e) PROVE Least(exp, timers, e)
    OBVIOUS
  <2>1. e <= exp[b] /\ exp[b] \in Nat
    BY <1>1 DEF Least
  <2>2. PICK u \in ts : e = exp[u]
    BY DEF Least
  <2>3. exp[b] <= e
    BY <1>2, <2>2 DEF Least
  <2>4. e = exp[b]
    BY <2>1, <2>3
  <2> QED
    BY <1>2, <2>4
<1> QED
  BY <1>3 DEF ArmedFor

(* cancel_in_loop outside handle_read resets the timerfd only where the    *)
(* earliest timer goes, and then for the next.                             *)
LEMMA CancelArms ==
    ASSUME BaseInv, ~calling, ArmedFor(exp, timers, alarm, setAt), NEW t \in Timer, CancelInLoop(t)
    PROVE  ArmedFor(exp, timers', alarm', setAt')
<1>1. CASE UNCHANGED <<timers, alarm, setAt>>
  BY <1>1
<1>2. CASE /\ timers' = Erased(t)
           /\ \E begin \in timers :
                 /\ exp[begin] = Earliest(timers)
                 /\ IF begin = t /\ timers' # {} THEN Reset(Earliest(timers')) ELSE UNCHANGED <<alarm, setAt>>
  <2>1. timers' = timers \ {t} /\ timers' \subseteq timers
    BY <1>2 DEF Erased
  <2>2. PICK b \in timers :
           /\ exp[b] = Earliest(timers)
           /\ IF b = t /\ timers' # {} THEN Reset(Earliest(timers')) ELSE UNCHANGED <<alarm, setAt>>
    BY <1>2
  <2>3. CASE timers' = {}
    BY <2>3 DEF ArmedFor, Least
  <2>4. CASE timers' # {} /\ b = t
    <3>1. Reset(Earliest(timers'))
      BY <2>2, <2>4
    <3> HIDE <1>2, <2>2
    <3> QED
      BY <2>1, <2>4, <3>1, ResetArms
  <2>5. CASE b # t
    <3>1. b \in timers' /\ UNCHANGED <<alarm, setAt>>
      BY <2>1, <2>2, <2>5
    <3> QED
      BY <2>1, <2>2, <3>1, FewerArmed
  <2> QED
    BY <2>3, <2>4, <2>5
<1> QED
  BY <1>1, <1>2 DEF CancelInLoop

(* No step lets the loop sleep past its earliest timer. *)
LEMMA ArmedStep == ASSUME BaseInv, BaseInv', Armed, [Next]_vars PROVE Armed'
<1> USE TimerQueueAssumption
<1>a. lpc = "idle" => ArmedFor(exp, timers, alarm, setAt)
  BY ArmedMeans
<1>b. TypeInv /\ LoopInv /\ Exists
  BY DEF BaseInv
<1>c. SUFFICES lpc' = "idle" => ArmedFor(exp', timers', alarm', setAt')
  BY <1>c, ArmedMeansNext
<1>1. CASE HandleRead \/ NextExpired \/ CallbackReturn \/ AfterCallback
  BY <1>1 DEF HandleRead, NextExpired, CallbackReturn, AfterCallback
<1>2. CASE Sweep
  <2>1. timers' \subseteq timers /\ exp' = exp
        /\ (timers' # {} => Reset(Earliest(timers')))
    BY <1>2 DEF Sweep
  <2>2. CASE timers' = {}
    BY <2>2 DEF ArmedFor, Least
  <2> QED
    BY <2>1, <2>2, ResetArms
<1>3. CASE RunTask
  <2>0. tasks # <<>> /\ lpc = "idle" /\ UNCHANGED <<now, exp, lpc>> /\ tasks' = Tail(tasks)
    BY <1>3 DEF RunTask
  <2>t. PICK t \in Timer, o \in Op : t = Head(tasks).timer /\ o = Head(tasks).op
    BY <1>b, <2>0, TakeShifts DEF TypeInv, Call
  <2>2. exp[t] \in Nat
    <3>1. Posted(o, t)
      BY <1>b, <2>0, <2>t, TakeKeeps DEF TypeInv
    <3> QED BY <1>b, <3>1 DEF TypeInv, Exists, Created
  <2>3. AddInLoop(t, exp[t]) \/ CancelInLoop(t)
    BY <1>3, <2>t DEF RunTask
  <2>4. CASE CancelInLoop(t)
    <3>1. ArmedFor(exp, timers', alarm', setAt')
      BY <1>a, <1>b, <2>0, <2>4, CancelArms DEF LoopInv
    <3> QED
      BY <2>0, <3>1
  <2>5. CASE AddInLoop(t, exp[t])
    BY <1>a, <2>0, <2>2, <2>5, AddArms
  <2> QED
    BY <2>3, <2>4, <2>5
<1>4. CASE Tick
  BY <1>a, <1>4 DEF Tick
<1>5. ASSUME NEW t \in Timer, Cancel(t) PROVE lpc' = "idle" => ArmedFor(exp', timers', alarm', setAt')
  BY <1>a, <1>5 DEF Cancel
<1>6. ASSUME NEW t \in Timer, CallbackCancel(t) PROVE lpc' = "idle" => ArmedFor(exp', timers', alarm', setAt')
  <2>1. CancelInLoop(t) /\ UNCHANGED <<now, exp, lpc>>
    BY <1>6 DEF CallbackCancel
  <2>2. lpc = "idle" => ArmedFor(exp, timers', alarm', setAt')
    BY <1>a, <1>b, <2>1, CancelArms DEF LoopInv
  <2> QED
    BY <2>1, <2>2
<1>7. ASSUME NEW t \in Timer, NEW d \in Delay, AddTimer(t, d)
      PROVE  lpc' = "idle" => ArmedFor(exp', timers', alarm', setAt')
  <2>1. \A u \in timers : exp'[u] = exp[u]
    BY <1>b, <1>7 DEF AddTimer, TypeInv, Exists, Known
  <2> QED
    BY <1>a, <1>7, <2>1 DEF AddTimer, ArmedFor, Least
<1>8. ASSUME NEW t \in Timer, NEW d \in Delay, CallbackAdd(t, d)
      PROVE  lpc' = "idle" => ArmedFor(exp', timers', alarm', setAt')
  <2>1. \A u \in timers : exp'[u] = exp[u]
    BY <1>b, <1>8 DEF CallbackAdd, TypeInv, Exists, Known
  <2>2. now + d \in Nat /\ exp'[t] = now + d /\ AddInLoop(t, now + d) /\ UNCHANGED <<now, lpc>>
    BY <1>b, <1>8 DEF CallbackAdd, TypeInv
  <2> QED
    BY <1>a, <2>1, <2>2, AddArms
<1>9. CASE UNCHANGED vars
  BY <1>a, <1>9 DEF vars
<1> QED
  BY <1>1, <1>2, <1>3, <1>4, <1>5, <1>6, <1>7, <1>8, <1>9 DEF Next, LoopStep

(* AlarmArmed: whenever the loop may sleep, the timerfd fires no later     *)
(* than the earliest timer, or 100 microseconds after it was set for a     *)
(* time already past; it is disarmed only if less than a microsecond was   *)
(* left when it was set.  Whatever callers add and cancel.                 *)
THEOREM AlarmArmed == Spec => []Armed
<1>1. Init => Armed
  BY DEF Init, Armed
<1>2. BaseInv /\ BaseInv' /\ Armed /\ [Next]_vars => Armed'
  BY ArmedStep
<1> QED
  BY <1>1, <1>2, BaseHolds, PTL DEF Spec
-------------------------------------------------------------------------------
(* Memory and cancellation *)

(* The calls on one timer are at most an add and then a cancel.            *)
TaskOrder ==
    \A i, j \in DOMAIN tasks :
       tasks[i].timer = tasks[j].timer /\ i < j => tasks[i].op = "add" /\ tasks[j].op = "cancel"

(* No timer is lost. *)
Somewhere(t) ==
    Created(t) => t \in timers \/ t \in batch \/ t = cur \/ t \in canceling \/ t \in freed \/ Posted("add", t)

(* A timer is in one place at a time: on its way to the loop, in timers_,  *)
(* expired, being run, cancelled by a callback, or deleted.                *)
OnePlace(t) ==
    /\ t \in timers => t \notin batch /\ t # cur /\ t \notin canceling /\ t \notin freed /\ ~Posted("add", t)
    /\ t \in batch => t # cur /\ t \notin canceling /\ t \notin freed /\ ~Posted("add", t)
    /\ t = cur => t \notin canceling /\ t \notin freed /\ ~Posted("add", t)
    /\ t \in canceling => t \notin freed /\ ~Posted("add", t)
    /\ t \in freed => ~Posted("add", t)

(* That is so, and the timer is never touched after its delete, unless it  *)
(* was cancelled too late or from a callback while handle_read held it.    *)
Owned(t) ==
    t \notin late /\ t \notin held =>
        OnePlace(t) /\ t \notin misused /\ (t \in pendingCancel => Posted("add", t))

(* A cancelled timer is not set, and what handle_read or the queue still   *)
(* has of it will be dropped.                                              *)
Stopped(t) ==
    t \in cancelled /\ t \notin misused =>
        /\ t \notin timers
        /\ t \in batch \/ t = cur => t \in canceling
        /\ Posted("add", t) => t \in pendingCancel \/ t \in canceling \/ t \in freed

TimerInv(t) == Somewhere(t) /\ Owned(t) /\ Stopped(t)

CareInv == TaskOrder /\ \A t \in Timer : TimerInv(t)

(* The first call of the queue is then the only one of its kind,           *)
(* and a cancel at the front has no add behind it.                         *)
LEMMA TakeOrdered ==
    ASSUME tasks \in Seq(Call), TaskOrder, tasks # <<>>, tasks' = Tail(tasks)
    PROVE  /\ TaskOrder'
           /\ \A p \in Op, u \in Timer :
                 Posted(p, u)' <=> Posted(p, u) /\ ~(p = Head(tasks).op /\ u = Head(tasks).timer)
           /\ Head(tasks).op = "cancel" => ~Posted("add", Head(tasks).timer)
<1>1. /\ 1 \in DOMAIN tasks /\ Head(tasks) = tasks[1] /\ Head(tasks) \in Call
      /\ \A i \in DOMAIN tasks' : i + 1 \in DOMAIN tasks /\ tasks'[i] = tasks[i + 1] /\ i \in Nat
      /\ \A i \in DOMAIN tasks : i # 1 => i - 1 \in DOMAIN tasks' /\ tasks'[i - 1] = tasks[i]
  BY TakeShifts
<1>2. DOMAIN tasks = 1..Len(tasks) /\ Len(tasks) \in Nat
  BY LenProperties
<1>3. \A i \in DOMAIN tasks : i # 1 => 1 < i
  BY <1>2
<1>4. Head(tasks) = [op |-> Head(tasks).op, timer |-> Head(tasks).timer] /\ Head(tasks).op \in Op
  <2>1. Head(tasks) \in [op : Op, timer : Timer]
    BY <1>1 DEF Call
  <2> QED
    BY <2>1
<1>5. TaskOrder'
  <2> SUFFICES ASSUME NEW i \in DOMAIN tasks', NEW j \in DOMAIN tasks',
                      tasks'[i].timer = tasks'[j].timer, i < j
               PROVE  tasks'[i].op = "add" /\ tasks'[j].op = "cancel"
    BY DEF TaskOrder
  <2>1. i + 1 \in DOMAIN tasks /\ j + 1 \in DOMAIN tasks /\ i + 1 < j + 1
    BY <1>1
  <2> QED
    BY <1>1, <2>1 DEF TaskOrder
<1>6. ASSUME NEW i \in DOMAIN tasks, i # 1, tasks[i].timer = Head(tasks).timer
      PROVE  Head(tasks).op = "add" /\ tasks[i].op = "cancel"
  BY <1>1, <1>3, <1>6 DEF TaskOrder
<1>7. ASSUME NEW p \in Op, NEW u \in Timer
      PROVE  Posted(p, u)' <=> Posted(p, u) /\ ~(p = Head(tasks).op /\ u = Head(tasks).timer)
  <2> DEFINE c == [op |-> p, timer |-> u]
  <2>0. c.op = p /\ c.timer = u
    OBVIOUS
  <2>1. ASSUME Posted(p, u)' PROVE Posted(p, u) /\ ~(p = Head(tasks).op /\ u = Head(tasks).timer)
    <3>1. PICK i \in DOMAIN tasks' : tasks'[i] = c
      BY <2>1 DEF Posted
    <3>2. i + 1 \in DOMAIN tasks /\ tasks[i + 1] = c /\ i + 1 # 1
      <4>1. DOMAIN tasks' = 1..Len(tasks') /\ Len(tasks') \in Nat
        BY TakeShifts, LenProperties
      <4>2. i # 0 /\ i \in Nat
        BY <4>1
      <4> QED
        BY <1>1, <3>1, <4>2
    <3>3. Posted(p, u)
      BY <3>2 DEF Posted
    <3>4. u = Head(tasks).timer => Head(tasks).op = "add" /\ p = "cancel"
      BY <1>6, <2>0, <3>2
    <3> QED
      BY <3>3, <3>4
  <2>2. ASSUME Posted(p, u), ~(p = Head(tasks).op /\ u = Head(tasks).timer) PROVE Posted(p, u)'
    <3>1. PICK i \in DOMAIN tasks : tasks[i] = c
      BY <2>2 DEF Posted
    <3>2. i # 1
      BY <1>1, <2>0, <2>2, <3>1
    <3>3. i - 1 \in DOMAIN tasks' /\ tasks'[i - 1] = c
      BY <1>1, <3>1, <3>2
    <3> QED
      BY <3>3 DEF Posted
  <2> QED
    BY <2>1, <2>2
<1>8. ASSUME Head(tasks).op = "cancel", Posted("add", Head(tasks).timer) PROVE FALSE
  <2>1. PICK i \in DOMAIN tasks : tasks[i] = [op |-> "add", timer |-> Head(tasks).timer]
    BY <1>8 DEF Posted
  <2>2. tasks[i].op = "add" /\ tasks[i].timer = Head(tasks).timer
    BY <2>1
  <2>3. i # 1
    BY <1>1, <1>8, <2>2
  <2> QED
    BY <1>6, <1>8, <2>2, <2>3
<1> QED
  BY <1>5, <1>7, <1>8

(* A call may be queued behind the others where it keeps their order.      *)
LEMMA PostOrdered ==
    ASSUME tasks \in Seq(Call), TaskOrder, NEW o \in Op, NEW t \in Timer, Post(o, t),
           ~Posted("cancel", t), o = "add" => ~Posted("add", t)
    PROVE  TaskOrder'
<1>1. /\ Len(tasks') = Len(tasks) + 1 /\ tasks' \in Seq(Call)
      /\ \A i \in 1..Len(tasks) : tasks'[i] = tasks[i]
      /\ tasks'[Len(tasks) + 1] = [op |-> o, timer |-> t]
  BY PostAdds
<1>2. DOMAIN tasks = 1..Len(tasks) /\ DOMAIN tasks' = 1..(Len(tasks) + 1) /\ Len(tasks) \in Nat
  BY <1>1, LenProperties
<1> SUFFICES ASSUME NEW i \in DOMAIN tasks', NEW j \in DOMAIN tasks',
                    tasks'[i].timer = tasks'[j].timer, i < j
             PROVE  tasks'[i].op = "add" /\ tasks'[j].op = "cancel"
  BY DEF TaskOrder
<1>3. i \in DOMAIN tasks /\ tasks'[i] = tasks[i]
  BY <1>1, <1>2
<1>4. CASE j \in DOMAIN tasks
  BY <1>1, <1>2, <1>3, <1>4 DEF TaskOrder
<1>5. CASE j = Len(tasks) + 1
  <2>1. tasks'[j].op = o /\ tasks'[j].timer = t
    BY <1>1, <1>5
  <2>2. tasks[i] \in [op : Op, timer : Timer]
    BY <1>2, <1>3, ElementOfSeq DEF Call
  <2>3. tasks[i] = [op |-> tasks[i].op, timer |-> t] /\ tasks[i].op \in Op
    BY <1>3, <2>1, <2>2
  <2>4. Posted(tasks[i].op, t)
    BY <1>3, <2>3 DEF Posted
  <2>5. tasks[i].op = "add"
    BY <2>3, <2>4 DEF Op
  <2> QED
    BY <1>3, <2>1, <2>4, <2>5 DEF Op
<1> QED
  BY <1>2, <1>4, <1>5

(* At start there is no timer. *)
LEMMA InitCare == Init => CareInv
<1> SUFFICES ASSUME Init PROVE CareInv
  OBVIOUS
<1>1. TaskOrder
  BY DEF Init, TaskOrder
<1>2. \A p, t : ~Posted(p, t)
  BY DEF Init, Posted
<1>3. \A t \in Timer : TimerInv(t)
  BY <1>2, TimerQueueAssumption DEF Init, TimerInv, Somewhere, Owned, Stopped, OnePlace, Created
<1> QED
  BY <1>1, <1>3 DEF CareInv

(* Nothing happens to a timer. *)
Same(u) ==
    /\ u \in timers' <=> u \in timers
    /\ u \in batch' <=> u \in batch
    /\ u = cur' <=> u = cur
    /\ u \in canceling' <=> u \in canceling
    /\ u \in pendingCancel' <=> u \in pendingCancel
    /\ u \in freed' <=> u \in freed
    /\ u \in misused' <=> u \in misused
    /\ u \in cancelled' <=> u \in cancelled
    /\ u \in late' <=> u \in late
    /\ u \in held' <=> u \in held
    /\ Posted("add", u)' <=> Posted("add", u)
    /\ Created(u)' <=> Created(u)

(* Then its invariant stays. *)
LEMMA SameKeeps ==
    ASSUME NEW u \in Timer, TimerInv(u), Same(u)
    PROVE  TimerInv(u)'
BY DEF TimerInv, Same, Somewhere, Owned, OnePlace, Stopped

(* add_timer_in_loop, whether the add came by the queue or not: the timer  *)
(* is in no place, or was cancelled untimely.                              *)
LEMMA AddCare ==
    ASSUME CareInv, NEW t \in Timer, NEW e, AddInLoop(t, e),
           UNCHANGED <<batch, cur, canceling, cancelled, late, held>>,
           \A u \in Timer : u # t => (Created(u)' <=> Created(u)) /\ (Posted("add", u)' <=> Posted("add", u)),
           ~Posted("add", t)',
           t \notin late /\ t \notin held => t \notin timers /\ t \notin batch /\ t # cur /\ t \notin canceling /\ t \notin freed,
           t \in cancelled /\ t \notin misused =>
              t \notin timers /\ t \notin batch /\ t # cur /\ (t \in pendingCancel \/ t \in freed)
    PROVE  \A u \in Timer : TimerInv(u)'
<1>0. TimerInv(t)
  BY DEF CareInv
<1>1. CASE CancelledEarly(t)
  <2>1. /\ freed' = freed \cup {t} /\ pendingCancel' = pendingCancel \ {t} /\ timers' = timers
        /\ misused' = misused \cup ({t} \cap freed)
    BY <1>1 DEF AddInLoop, Free
  <2>2. TimerInv(t)'
    BY <1>0, <2>1 DEF TimerInv, Somewhere, Owned, OnePlace, Stopped
  <2>3. ASSUME NEW u \in Timer, u # t PROVE TimerInv(u)'
    <3>1. Same(u)
      BY <2>1, <2>3 DEF Same
    <3> QED BY <3>1, SameKeeps DEF CareInv
  <2> QED BY <2>2, <2>3
<1>2. CASE ~CancelledEarly(t)
  <2>1. /\ timers' = timers \cup {t} /\ freed' = freed /\ misused' = misused \cup ({t} \cap freed)
        /\ UNCHANGED pendingCancel /\ t \notin pendingCancel
    BY <1>2 DEF AddInLoop, Insert, Touch, CancelledEarly
  <2>2. TimerInv(t)'
    BY <1>0, <2>1 DEF TimerInv, Somewhere, Owned, OnePlace, Stopped
  <2>3. ASSUME NEW u \in Timer, u # t PROVE TimerInv(u)'
    <3>1. Same(u)
      BY <2>1, <2>3 DEF Same
    <3> QED BY <3>1, SameKeeps DEF CareInv
  <2> QED BY <2>2, <2>3
<1> QED
  BY <1>1, <1>2

(* cancel_in_loop, wherever the timer is. *)
LEMMA CancelCare ==
    ASSUME BaseInv, CareInv, NEW t \in Timer, CancelInLoop(t), Created(t),
           UNCHANGED <<exp, batch, cur>>,
           \A u \in Timer : Posted("add", u)' <=> Posted("add", u)
    PROVE  \A u \in Timer : TimerInv(u)'
<1>0. TimerInv(t) /\ LoopInv /\ (~calling => batch = {} /\ canceling = {} /\ cur = None) /\ t # None
  BY TimerQueueAssumption DEF CareInv, BaseInv, LoopInv
<1>1. /\ cancelled' = cancelled \cup {t} /\ late' = late \cup ({t} \cap freed)
      /\ held' = IF calling THEN held \cup ({t} \ (timers \cup canceling)) ELSE held
      /\ misused' = misused \cup ({t} \cap freed)
  BY DEF CancelInLoop, Free, Touch
<1>2. \/ t \in freed /\ UNCHANGED <<timers, canceling, pendingCancel, freed>>
      \/ t \notin timers \ freed /\ calling /\ canceling' = canceling \cup {t} /\ UNCHANGED <<timers, pendingCancel, freed>>
      \/ t \notin timers \ freed /\ ~calling /\ pendingCancel' = pendingCancel \cup {t} /\ UNCHANGED <<timers, canceling, freed>>
      \/ t \in timers /\ calling /\ timers' = timers \ {t} /\ canceling' = canceling \cup {t} /\ UNCHANGED <<pendingCancel, freed>>
      \/ t \in timers /\ ~calling /\ timers' = timers \ {t} /\ freed' = freed \cup {t} /\ UNCHANGED <<pendingCancel, canceling>>
  BY DEF CancelInLoop, Erased, Free, Touch
<1>3. Created(t)' /\ \A u \in Timer : Created(u)' <=> Created(u)
  BY DEF Created
<1>4. Somewhere(t)'
  BY <1>0, <1>2, <1>3 DEF TimerInv, Somewhere
<1>5. Stopped(t)'
  BY <1>0, <1>1, <1>2 DEF Stopped
<1>6. Owned(t)'
  <2> SUFFICES ASSUME t \notin late', t \notin held'
               PROVE  OnePlace(t)' /\ t \notin misused' /\ (t \in pendingCancel' => Posted("add", t))
    BY DEF Owned
  <2>1. t \notin late /\ t \notin held /\ t \notin freed /\ (calling => t \in timers \/ t \in canceling)
    BY <1>1
  <2>2. OnePlace(t) /\ t \notin misused /\ (t \in pendingCancel => Posted("add", t))
    BY <1>0, <2>1 DEF TimerInv, Owned
  <2>3. ~calling => t \in timers \/ Posted("add", t)
    BY <1>0, <2>1 DEF TimerInv, Somewhere
  <2>4. t \notin misused'
    BY <1>1, <2>1, <2>2
  <2>5. OnePlace(t)'
    BY <1>0, <1>2, <2>1, <2>2, <2>3 DEF OnePlace
  <2>6. t \in pendingCancel' => Posted("add", t)
    BY <1>2, <2>1, <2>2, <2>3
  <2> QED BY <2>4, <2>5, <2>6
<1>7. ASSUME NEW u \in Timer, u # t PROVE TimerInv(u)'
  <2>1. Same(u)
    BY <1>1, <1>2, <1>3, <1>7 DEF Same
  <2> QED BY <2>1, SameKeeps DEF CareInv
<1> QED
  BY <1>4, <1>5, <1>6, <1>7 DEF TimerInv

(* Every step keeps CareInv. *)
LEMMA NextCare == ASSUME BaseInv, CareInv, [Next]_vars PROVE CareInv'
<1> USE TimerQueueAssumption
<1>a. TypeInv /\ LoopInv /\ Exists
  BY DEF BaseInv
<1>b. TaskOrder /\ \A t \in Timer : TimerInv(t)
  BY DEF CareInv
<1>q. ASSUME UNCHANGED tasks PROVE TaskOrder' /\ \A p, u : Posted(p, u)' <=> Posted(p, u)
  BY <1>b, <1>q DEF TaskOrder, Posted
<1>1. CASE HandleRead
  <2>0. /\ batch' = Due /\ timers' = timers \ Due /\ Due \subseteq timers
        /\ UNCHANGED <<exp, tasks, cur, canceling, pendingCancel, freed, misused, cancelled, late, held>>
        /\ ~calling /\ batch = {}
    BY <1>a, <1>1 DEF HandleRead, Due, Undue, LoopInv, memory
  <2>1. ASSUME NEW t \in Timer PROVE TimerInv(t)'
    <3>1. TimerInv(t) /\ (Posted("add", t)' <=> Posted("add", t)) /\ (Created(t)' <=> Created(t))
      BY <1>b, <2>0 DEF Posted, Created
    <3>2. /\ t \in timers' => t \notin batch' /\ t \in timers
          /\ t \in batch' => t \in timers
          /\ t \in timers => t \in timers' \/ t \in batch'
          /\ t \notin batch
      BY <2>0
    <3> HIDE DEF Due
    <3> QED
      BY <2>0, <3>1, <3>2 DEF TimerInv, Somewhere, Owned, OnePlace, Stopped
  <2> QED
    BY <1>q, <2>0, <2>1 DEF CareInv
<1>2. CASE NextExpired
  <2>0. /\ UNCHANGED <<exp, tasks, timers, canceling, pendingCancel, freed, cancelled, late, held>> /\ cur = None
        /\ \/ cur' \in batch /\ batch' = batch \ {cur'} /\ misused' = misused \cup ({cur'} \cap freed)
           \/ UNCHANGED <<cur, batch, misused>>
    BY <1>a, <1>2 DEF NextExpired, LoopInv, Touch, memory
  <2>1. ASSUME NEW t \in Timer PROVE TimerInv(t)'
    <3>1. TimerInv(t) /\ (Posted("add", t)' <=> Posted("add", t)) /\ (Created(t)' <=> Created(t)) /\ t # None
      BY <1>b, <2>0 DEF Posted, Created
    <3> QED
      BY <2>0, <3>1 DEF TimerInv, Somewhere, Owned, OnePlace, Stopped
  <2> QED
    BY <1>q, <2>0, <2>1 DEF CareInv
<1>3. CASE CallbackReturn \/ Tick \/ UNCHANGED vars
  <2>0. UNCHANGED <<exp, tasks, timers, batch, cur, canceling, pendingCancel, freed, misused, cancelled, late, held>>
    BY <1>3 DEF CallbackReturn, Tick, vars, memory
  <2>1. ASSUME NEW t \in Timer PROVE TimerInv(t)'
    <3>1. Same(t)
      BY <2>0 DEF Same, Posted, Created
    <3> QED BY <1>b, <3>1, SameKeeps
  <2> QED
    BY <1>q, <2>0, <2>1 DEF CareInv
<1>4. CASE AfterCallback
  <2>0. /\ cur \in Timer /\ cur # None /\ cur' = None
        /\ UNCHANGED <<tasks, batch, canceling, pendingCancel, cancelled, late, held>>
    BY <1>a, <1>4 DEF AfterCallback, TypeInv, LoopInv
  <2>1. /\ misused' = misused \cup ({cur} \cap freed)
        /\ \/ cur \notin canceling /\ timers' = timers \cup {cur} /\ freed' = freed
           \/ timers' = timers /\ freed' = freed \cup {cur}
    BY <1>4 DEF AfterCallback, Insert, Free, Touch
  <2>2. \A t \in Timer : Created(t)' <=> Created(t)
    BY <1>a, <1>4, <2>0 DEF AfterCallback, TypeInv, Exists, Created
  <2>3. ASSUME NEW t \in Timer PROVE TimerInv(t)'
    <3>1. TimerInv(t) /\ (Posted("add", t)' <=> Posted("add", t)) /\ (Created(t)' <=> Created(t)) /\ t # None
      BY <1>b, <2>0, <2>2 DEF Posted
    <3>2. CASE t = cur
      BY <2>0, <2>1, <3>1, <3>2 DEF TimerInv, Somewhere, Owned, OnePlace, Stopped
    <3>3. CASE t # cur
      <4>1. Same(t)
        BY <2>0, <2>1, <3>1, <3>3 DEF Same
      <4> QED BY <3>1, <4>1, SameKeeps
    <3> QED BY <3>2, <3>3
  <2> QED
    BY <1>q, <2>0, <2>3 DEF CareInv
<1>5. CASE Sweep
  <2>0. /\ timers' = timers \ canceling /\ freed' = freed \cup canceling /\ canceling' = {}
        /\ misused' = misused \cup (canceling \cap freed) /\ batch = {} /\ cur = None
        /\ UNCHANGED <<exp, tasks, batch, cur, pendingCancel, cancelled, late, held>>
    BY <1>a, <1>5 DEF Sweep, Free, Swept, LoopInv
  <2>1. ASSUME NEW t \in Timer PROVE TimerInv(t)'
    <3>1. TimerInv(t) /\ (Posted("add", t)' <=> Posted("add", t)) /\ (Created(t)' <=> Created(t)) /\ t # None
      BY <1>b, <2>0 DEF Posted, Created
    <3> QED
      BY <2>0, <3>1 DEF TimerInv, Somewhere, Owned, OnePlace, Stopped
  <2> QED
    BY <1>q, <2>0, <2>1 DEF CareInv
<1>6. CASE RunTask
  <2>0. tasks # <<>> /\ tasks' = Tail(tasks) /\ UNCHANGED <<exp, batch, cur>>
        /\ batch = {} /\ cur = None /\ ~calling /\ canceling = {} /\ tasks \in Seq(Call)
    BY <1>a, <1>6 DEF RunTask, LoopInv, TypeInv
  <2>t. PICK t \in Timer, o \in Op : t = Head(tasks).timer /\ o = Head(tasks).op
    BY <2>0, TakeShifts DEF Call
  <2>2. /\ TaskOrder'
        /\ \A p \in Op, u \in Timer : Posted(p, u)' <=> Posted(p, u) /\ ~(p = o /\ u = t)
    BY <1>b, <2>0, <2>t, TakeOrdered
  <2>3. Posted(o, t) /\ Created(t) /\ TimerInv(t) /\ t # None
    <3>1. Posted(o, t)
      BY <2>0, <2>t, TakeKeeps
    <3> QED BY <1>a, <1>b, <3>1 DEF Exists
  <2>4. \/ o = "add" /\ AddInLoop(t, exp[t]) /\ UNCHANGED <<canceling, cancelled, late, held>>
        \/ o = "cancel" /\ CancelInLoop(t)
    BY <1>6, <2>t DEF RunTask
  <2>5. \A u \in Timer : Created(u)' <=> Created(u)
    BY <2>0 DEF Created
  <2>6. CASE o = "add" /\ AddInLoop(t, exp[t]) /\ UNCHANGED <<canceling, cancelled, late, held>>
    <3>1. t \notin late /\ t \notin held => t \notin timers /\ t \notin freed
      BY <2>3, <2>6 DEF TimerInv, Owned, OnePlace
    <3>2. t \in cancelled /\ t \notin misused => t \notin timers /\ (t \in pendingCancel \/ t \in freed)
      BY <2>0, <2>3, <2>6 DEF TimerInv, Stopped
    <3>3. /\ ~Posted("add", t)'
          /\ \A u \in Timer : u # t => (Posted("add", u)' <=> Posted("add", u))
      BY <2>2, <2>6 DEF Op
    <3>4. t \notin batch /\ t # cur /\ t \notin canceling
      BY <2>0, <2>3
    <3>5. \A u \in Timer : TimerInv(u)'
      BY <2>0, <2>5, <2>6, <3>1, <3>2, <3>3, <3>4, AddCare
    <3> QED
      BY <2>2, <3>5 DEF CareInv
  <2>7. CASE o = "cancel" /\ CancelInLoop(t)
    <3>1. \A u \in Timer : Posted("add", u)' <=> Posted("add", u)
      BY <2>2, <2>7 DEF Op
    <3>2. \A u \in Timer : TimerInv(u)'
      BY <2>0, <2>3, <2>7, <3>1, CancelCare
    <3> QED
      BY <2>2, <3>2 DEF CareInv
  <2> QED
    BY <2>4, <2>6, <2>7
<1>7. ASSUME NEW t \in Timer, Cancel(t) PROVE CareInv'
  <2>0. /\ Post("cancel", t) /\ ~Posted("cancel", t)
        /\ UNCHANGED <<exp, timers, batch, cur, canceling, pendingCancel, freed, misused, cancelled, late, held>>
    BY <1>7 DEF Cancel, memory
  <2>1. \A p, u : Posted(p, u)' <=> Posted(p, u) \/ (p = "cancel" /\ u = t)
    BY <1>a, <2>0, PostAdds DEF TypeInv, Op
  <2>2. TaskOrder'
    BY <1>a, <1>b, <2>0, PostOrdered DEF TypeInv, Op
  <2>3. ASSUME NEW u \in Timer PROVE TimerInv(u)'
    <3>1. Same(u)
      BY <2>0, <2>1 DEF Same, Created
    <3> QED BY <1>b, <3>1, SameKeeps
  <2> QED
    BY <2>2, <2>3 DEF CareInv
<1>8. ASSUME NEW t \in Timer, CallbackCancel(t) PROVE CareInv'
  <2>0. CancelInLoop(t) /\ Created(t) /\ UNCHANGED <<exp, tasks, batch, cur>>
    BY <1>8 DEF CallbackCancel
  <2>1. TaskOrder' /\ \A p, u : Posted(p, u)' <=> Posted(p, u)
    BY <1>q, <2>0
  <2>2. \A u \in Timer : TimerInv(u)'
    BY <2>0, <2>1, CancelCare
  <2> QED
    BY <2>1, <2>2 DEF CareInv
<1>9. ASSUME NEW t \in Timer, NEW d \in Delay, AddTimer(t, d) PROVE CareInv'
  <2>0. /\ Post("add", t) /\ ~Created(t) /\ exp' = [exp EXCEPT ![t] = now + d]
        /\ UNCHANGED <<timers, batch, cur, canceling, pendingCancel, freed, misused, cancelled, late, held>>
    BY <1>9 DEF AddTimer, memory
  <2>1. \A p, u : Posted(p, u)' <=> Posted(p, u) \/ (p = "add" /\ u = t)
    BY <1>a, <2>0, PostAdds DEF TypeInv, Op
  <2>2. /\ ~Posted("cancel", t) /\ ~Posted("add", t) /\ t \notin timers /\ t \notin batch /\ t # cur
        /\ t \notin freed /\ t \notin canceling /\ t \notin cancelled /\ t \notin pendingCancel
    BY <1>a, <2>0 DEF Exists, Known, Op
  <2>3. TaskOrder'
    BY <1>a, <1>b, <2>0, <2>2, PostOrdered DEF TypeInv, Op
  <2>4. now + d \in Nat
    BY <1>a DEF TypeInv
  <2>5. \A u \in Timer : Created(u)' <=> Created(u) \/ u = t
    BY <1>a, <2>0, <2>4 DEF Created, TypeInv
  <2>6. ASSUME NEW u \in Timer PROVE TimerInv(u)'
    <3>1. CASE u = t
      <4>1. TimerInv(t) /\ Posted("add", t)'
        BY <1>b, <2>1
      <4> QED BY <2>0, <2>2, <3>1, <4>1 DEF TimerInv, Somewhere, Owned, OnePlace, Stopped
    <3>2. CASE u # t
      <4>1. Same(u)
        BY <2>0, <2>1, <2>5, <3>2 DEF Same
      <4> QED BY <1>b, <4>1, SameKeeps
    <3> QED BY <3>1, <3>2
  <2> QED
    BY <2>3, <2>6 DEF CareInv
<1>10. ASSUME NEW t \in Timer, NEW d \in Delay, CallbackAdd(t, d) PROVE CareInv'
  <2>0. /\ AddInLoop(t, now + d) /\ ~Created(t) /\ exp' = [exp EXCEPT ![t] = now + d]
        /\ UNCHANGED <<tasks, batch, cur, canceling, cancelled, late, held>>
    BY <1>10 DEF CallbackAdd
  <2>1. TaskOrder' /\ \A p, u : Posted(p, u)' <=> Posted(p, u)
    BY <1>q, <2>0
  <2>2. /\ ~Posted("add", t) /\ t \notin timers /\ t \notin batch /\ t # cur
        /\ t \notin freed /\ t \notin canceling /\ t \notin cancelled
    BY <1>a, <2>0 DEF Exists, Known, Op
  <2>3. now + d \in Nat
    BY <1>a DEF TypeInv
  <2>4. \A u \in Timer : u # t => (Created(u)' <=> Created(u))
    BY <1>a, <2>0, <2>3 DEF Created, TypeInv
  <2>5. \A u \in Timer : TimerInv(u)'
    BY <2>0, <2>1, <2>2, <2>4, AddCare
  <2> QED
    BY <2>1, <2>5 DEF CareInv
<1> QED
  BY <1>1, <1>2, <1>3, <1>4, <1>5, <1>6, <1>7, <1>8, <1>9, <1>10 DEF Next, LoopStep

(* CareInv holds in every reachable state. *)
LEMMA CareHolds == Spec => []CareInv
<1>1. BaseInv /\ CareInv /\ [Next]_vars => CareInv'
  BY NextCare
<1> QED
  BY <1>1, InitCare, BaseHolds, PTL DEF Spec

(* Only timers that can be created are ever touched. *)
LEMMA MisusedTimers == Spec => [](misused \subseteq Timer)
<1>1. Init => misused \subseteq Timer
  BY DEF Init
<1>2. BaseInv /\ misused \subseteq Timer /\ [Next]_vars => (misused \subseteq Timer)'
  <2> SUFFICES ASSUME BaseInv, misused \subseteq Timer, [Next]_vars PROVE misused' \subseteq Timer
    OBVIOUS
  <2>1. misused' \subseteq misused \cup freed
    BY DEF Next, LoopStep, HandleRead, NextExpired, CallbackReturn, AfterCallback, Sweep, RunTask, Tick, Cancel,
           CallbackCancel, AddTimer, CallbackAdd, AddInLoop, CancelInLoop, Free, Touch, memory, vars
  <2> QED BY <2>1 DEF BaseInv, TypeInv
<1> QED
  BY <1>1, <1>2, BaseHolds, PTL DEF Spec

(* TimersMisuse: a Timer is touched or deleted after its delete only if it *)
(* was cancelled after it had been deleted, or from a callback while it    *)
(* was expired, running or on its way to the loop, whatever the order of   *)
(* adds, cancels and callbacks.                                            *)
THEOREM TimersMisuse == Spec => []MisuseExplained
<1>1. CareInv /\ misused \subseteq Timer => MisuseExplained
  BY DEF CareInv, TimerInv, Owned, MisuseExplained
<1> QED
  BY <1>1, CareHolds, MisusedTimers, PTL

(* CancelIsFinal: once cancel_in_loop has run, the timer's callback never  *)
(* starts again, wherever the timer was, unless deleted memory was used.   *)
THEOREM CancelIsFinal == Spec => CancelledNeverRuns
<1>1. BaseInv /\ CareInv /\ [Next]_vars
      => [\A t \in cancelled \ misused : lpc' = "callback" => (lpc = "callback" \/ cur' # t)]_vars
  <2> SUFFICES ASSUME BaseInv, CareInv, Next, NEW t \in cancelled, t \notin misused, lpc' = "callback", lpc # "callback"
               PROVE  cur' # t
    OBVIOUS
  <2>1. NextExpired
    BY DEF Next, LoopStep, HandleRead, CallbackReturn, AfterCallback, Sweep, RunTask, Tick, Cancel,
           CallbackCancel, AddTimer, CallbackAdd
  <2>2. cur' \in batch /\ cur' \notin canceling
    BY <2>1 DEF NextExpired
  <2>3. t \in Timer
    BY DEF BaseInv, TypeInv
  <2>4. t \in batch => t \in canceling
    BY <2>3 DEF CareInv, TimerInv, Stopped
  <2> QED
    BY <2>2, <2>4
<1> QED
  BY <1>1, BaseHolds, CareHolds, PTL DEF Spec, CancelledNeverRuns
===============================================================================
