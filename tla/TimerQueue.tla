------------------------------ MODULE TimerQueue ------------------------------
(***************************************************************************)
(* TimerQueue of one EventLoop: timers added and cancelled by other        *)
(* threads (through the loop's task queue) and by the timers' own          *)
(* callbacks (at once), the timerfd, and the memory of the Timer objects,  *)
(* which callers keep pointing to through their TimerIds.                  *)
(*                                                                         *)
(* A Timer that has been deleted and is touched again is recorded in       *)
(* misused; what the program reads there may be the old sequence number    *)
(* and time or others.  Addresses are not used again, and the destructor   *)
(* of the queue is left out.                                               *)
(*                                                                         *)
(* Time goes in the clock's own units (nanoseconds), but the timerfd is    *)
(* set in whole microseconds.                                              *)
(***************************************************************************)
EXTENDS Integers, Sequences, FiniteSets

CONSTANTS
    Timer,      \* timers that can be created (bound)
    Repeating,  \* those with an interval
    Delay,      \* delays of new timers (bound)
    Interval,   \* the interval of the repeating ones
    MaxTime,    \* the clock stops here, unless the timerfd has still to fire (bound)
    Micro,      \* a microsecond, in units of the clock
    Pause,      \* the 100 microseconds for which the timerfd is set when the time is past
    None

ASSUME TimerQueueAssumption ==
    /\ Repeating \subseteq Timer /\ Delay \subseteq Nat /\ Interval \in Nat \ {0} /\ MaxTime \in Nat
    /\ Micro \in Nat \ {0} /\ Pause \in Nat \ {0} /\ None \notin Timer \cup Nat

VARIABLES
    now,
    current,    \* handle_read's local: the time at which it started
    exp,        \* expiration() of each timer, None before it is created
    tasks,      \* add and cancel calls of other threads, on their way to the loop
    timers,     \* timers_
    alarm,      \* when the timerfd becomes readable, None if it is not armed
    setAt,      \* history: when reset_timerfd last ran
    calling,    \* calling_expired_timers_
    batch,      \* the expired timers that handle_read has still to treat
    cur,        \* the one it is at
    lpc,        \* the loop: idle, next, callback, after, sweep
    canceling,  \* canceling_timers_
    pendingCancel, \* pending_cancel_timers_
    freed,      \* deleted timers
    misused,    \* history: timers used after, or deleted after, delete
    cancelled,  \* history: timers for which cancel_in_loop has run
    late,       \* history: timers for which it ran after they had been deleted
    held        \* history: timers for which it ran in a callback, while they were expired,
                \* running, or on their way to the loop

memory == <<freed, misused>>
vars == <<now, current, exp, tasks, timers, alarm, setAt, calling, batch, cur, lpc, canceling, pendingCancel,
          freed, misused, cancelled, late, held>>

Created(t) == exp[t] # None
Earliest(ts) == CHOOSE e \in {exp[t] : t \in ts} : \A t \in ts : e <= exp[t]

Init ==
    /\ now = 0 /\ current = 0 /\ exp = [t \in Timer |-> None] /\ tasks = <<>>
    /\ timers = {} /\ alarm = None /\ setAt = 0 /\ calling = FALSE /\ batch = {} /\ cur = None /\ lpc = "idle"
    /\ canceling = {} /\ pendingCancel = {} /\ freed = {} /\ misused = {}
    /\ cancelled = {} /\ late = {} /\ held = {}

(* delete timer, and any other use of one.                                 *)
Free(ts) == freed' = freed \cup ts /\ misused' = misused \cup (ts \cap freed)
Touch(t) == freed' = freed /\ misused' = misused \cup ({t} \cap freed)

(* time_from_now and reset_timerfd: the time that is left, cut to whole    *)
(* microseconds; with none left, it_value is 0 and the timerfd is disarmed.*)
(* Its interval is one nanosecond: once it has fired, it stays readable.   *)
Whole(d) == (d \div Micro) * Micro

MutAlarmFor(e) ==
    IF e <= now THEN None ELSE IF Whole(e - now) = 0 THEN None ELSE now + Whole(e - now)
AlarmFor(e) ==
    IF e <= now THEN now + Pause ELSE IF Whole(e - now) = 0 THEN None ELSE now + Whole(e - now)

Reset(e) == alarm' = AlarmFor(e) /\ setAt' = now
Readable == alarm # None /\ alarm <= now

-------------------------------------------------------------------------------
(* What runs in the loop's thread *)

(* insert *)
MutEarliestChanged(e) == timers = {}
EarliestChanged(e) == timers = {} \/ e < Earliest(timers)

Insert(t, e) ==
    /\ timers' = timers \cup {t}
    /\ IF EarliestChanged(e) THEN Reset(e) ELSE UNCHANGED <<alarm, setAt>>

(* add_timer_in_loop *)
MutCancelledEarly(t) == FALSE
CancelledEarly(t) == t \in pendingCancel

AddInLoop(t, e) ==
    IF CancelledEarly(t)
    THEN Free({t}) /\ pendingCancel' = pendingCancel \ {t} /\ UNCHANGED <<timers, alarm, setAt>>
    ELSE Insert(t, e) /\ Touch(t) /\ UNCHANGED pendingCancel

(* cancel_in_loop: timer->sequence() and expiration() are read first; of a *)
(* deleted timer they may or may not be the old ones.                      *)
MutErased(t) == timers
Erased(t) == timers \ {t}

CancelInLoop(t) ==
    /\ cancelled' = cancelled \cup {t}
    /\ late' = late \cup ({t} \cap freed)
    /\ held' = IF calling THEN held \cup ({t} \ (timers \cup canceling)) ELSE held
    /\ \/ /\ t \in freed /\ Touch(t)
          /\ UNCHANGED <<timers, alarm, setAt, canceling, pendingCancel>>
       \/ /\ t \notin timers \ freed /\ Touch(t)
          /\ IF calling THEN canceling' = canceling \cup {t} /\ UNCHANGED pendingCancel
                        ELSE pendingCancel' = pendingCancel \cup {t} /\ UNCHANGED canceling
          /\ UNCHANGED <<timers, alarm, setAt>>
       \/ /\ t \in timers /\ calling /\ Touch(t)
          /\ timers' = Erased(t) /\ canceling' = canceling \cup {t}
          /\ UNCHANGED <<alarm, setAt, pendingCancel>>
       \/ /\ t \in timers /\ ~calling
          /\ timers' = Erased(t) /\ Free({t})
          /\ \E begin \in timers :
                /\ exp[begin] = Earliest(timers)
                /\ IF begin = t /\ timers' # {} THEN Reset(Earliest(timers')) ELSE UNCHANGED <<alarm, setAt>>
          /\ UNCHANGED <<canceling, pendingCancel>>

(* handle_read: the timers that are due leave timers_.                     *)
Due == {t \in timers : exp[t] <= now}

Undue == timers \ Due

HandleRead ==
    /\ lpc = "idle" /\ Readable
    /\ current' = now /\ batch' = Due /\ timers' = Undue
    /\ calling' = TRUE /\ lpc' = "next"
    /\ UNCHANGED <<now, exp, tasks, alarm, setAt, cur, canceling, pendingCancel, memory, cancelled, late, held>>

(* The next timer in the order of their times; it runs unless cancelled.   *)
NextExpired ==
    /\ lpc = "next"
    /\ \/ \E t \in batch :
             /\ \A u \in batch : exp[t] <= exp[u]
             /\ cur' = t /\ batch' = batch \ {t} /\ Touch(t)
             /\ lpc' = IF t \in canceling THEN "after" ELSE "callback"
       \/ batch = {} /\ lpc' = "sweep" /\ UNCHANGED <<cur, batch, memory>>
    /\ UNCHANGED <<now, current, exp, tasks, timers, alarm, setAt, calling, canceling, pendingCancel,
                   cancelled, late, held>>

(* The loop's own thread, in the callback of cur, in an I/O handler or in  *)
(* a task, adds and cancels timers at once.                                *)
CallbackAdd(t, d) ==
    /\ lpc \in {"idle", "callback"} /\ ~Created(t)
    /\ exp' = [exp EXCEPT ![t] = now + d]
    /\ AddInLoop(t, now + d)
    /\ UNCHANGED <<now, current, tasks, calling, batch, cur, lpc, canceling, cancelled, late, held>>

Posted(op, t) == \E i \in DOMAIN tasks : tasks[i] = [op |-> op, timer |-> t]

CallbackCancel(t) ==
    /\ lpc \in {"idle", "callback"} /\ Created(t)
    /\ CancelInLoop(t)
    /\ UNCHANGED <<now, current, exp, tasks, calling, batch, cur, lpc>>

CallbackReturn ==
    /\ lpc = "callback" /\ lpc' = "after"
    /\ UNCHANGED <<now, current, exp, tasks, timers, alarm, setAt, calling, batch, cur, canceling, pendingCancel,
                   memory, cancelled, late, held>>

(* A repeating timer is restarted, any other deleted.                      *)
AfterCallback ==
    /\ lpc = "after" /\ lpc' = "next" /\ cur' = None
    /\ IF cur \in Repeating /\ cur \notin canceling
       THEN /\ exp' = [exp EXCEPT ![cur] = current + Interval]
            /\ Insert(cur, current + Interval)
            /\ Touch(cur)
       ELSE Free({cur}) /\ UNCHANGED <<exp, timers, alarm, setAt>>
    /\ UNCHANGED <<now, current, tasks, calling, batch, canceling, pendingCancel, cancelled, late, held>>

(* The timers cancelled meanwhile are deleted, and the timerfd is set.     *)
Swept == canceling

Sweep ==
    /\ lpc = "sweep" /\ lpc' = "idle" /\ calling' = FALSE
    /\ timers' = timers \ canceling
    /\ Free(Swept) /\ canceling' = {}
    /\ IF timers' # {} THEN Reset(Earliest(timers')) ELSE UNCHANGED <<alarm, setAt>>
    /\ UNCHANGED <<now, current, exp, tasks, batch, cur, pendingCancel, cancelled, late, held>>

(* do_pending_tasks: the calls of other threads, in their order.           *)
RunTask ==
    /\ lpc = "idle" /\ tasks # <<>> /\ tasks' = Tail(tasks)
    /\ LET t == Head(tasks).timer IN
       \/ Head(tasks).op = "add" /\ AddInLoop(t, exp[t]) /\ UNCHANGED <<canceling, cancelled, late, held>>
       \/ Head(tasks).op = "cancel" /\ CancelInLoop(t)
    /\ UNCHANGED <<now, current, exp, calling, batch, cur, lpc>>

-------------------------------------------------------------------------------
(* Other threads, and the clock *)

Post(op, t) == tasks' = Append(tasks, [op |-> op, timer |-> t])

AddTimer(t, d) ==
    /\ ~Created(t)
    /\ exp' = [exp EXCEPT ![t] = now + d] /\ Post("add", t)
    /\ UNCHANGED <<now, current, timers, alarm, setAt, calling, batch, cur, lpc, canceling, pendingCancel, memory,
                   cancelled, late, held>>

(* A call more that is on its way already changes nothing (bound).         *)
Cancel(t) ==
    /\ Created(t) /\ ~Posted("cancel", t) /\ Post("cancel", t)
    /\ UNCHANGED <<now, current, exp, timers, alarm, setAt, calling, batch, cur, lpc, canceling, pendingCancel,
                   memory, cancelled, late, held>>

(* The timerfd has still to fire for a timer that is due.                  *)
Awaited == Due # {} /\ alarm # None /\ now < alarm

Tick ==
    /\ now < MaxTime \/ Awaited
    /\ now' = now + 1
    /\ UNCHANGED <<current, exp, tasks, timers, alarm, setAt, calling, batch, cur, lpc, canceling, pendingCancel,
                   memory, cancelled, late, held>>

-------------------------------------------------------------------------------
LoopStep == HandleRead \/ NextExpired \/ CallbackReturn \/ AfterCallback \/ Sweep \/ RunTask

Next ==
    \/ LoopStep \/ Tick
    \/ \E t \in Timer :
          \/ Cancel(t) \/ CallbackCancel(t)
          \/ \E d \in Delay : AddTimer(t, d) \/ CallbackAdd(t, d)

Spec == Init /\ [][Next]_vars

(* The loop's thread keeps running and time passes.                        *)
FairSpec == Spec /\ WF_vars(HandleRead) /\ WF_vars(LoopStep) /\ WF_vars(Tick)

-------------------------------------------------------------------------------
(* Properties *)

(* MisuseExplained: a Timer is touched or deleted after its delete only if *)
(* it was cancelled when it had been deleted, or from a callback when it   *)
(* was not in timers_: expired, running, or on its way to the loop.  All   *)
(* other cancels, by any thread, once or again, before the add or long     *)
(* after it, and all adds and restarts delete each Timer once and do not   *)
(* touch it again (handle_read, cancel_in_loop, add_timer_in_loop).        *)
MisuseExplained == misused \subseteq late \cup held

(* CancelledNeverRuns: from the moment cancel_in_loop(t) has run, the      *)
(* callback of t does not start again, wherever t was: not yet added, set, *)
(* expired and waiting behind the callback that cancels it, or running;    *)
(* but for timers whose memory was used after delete.                      *)
CancelledNeverRuns ==
    [][\A t \in cancelled \ misused : lpc' = "callback" => (lpc = "callback" \/ cur' # t)]_vars

(* Armed: whenever the loop may sleep, the timerfd fires no later than the *)
(* earliest timer, or 100 microseconds after it was set for a time already *)
(* past, after any sequence of adds, cancels and expirations; it is        *)
(* disarmed only if less than a microsecond was left when it was set       *)
(* (insert, cancel_in_loop, handle_read, time_from_now).                   *)
Armed ==
    (lpc = "idle" /\ timers # {}) =>
        \/ alarm # None /\ (alarm <= Earliest(timers) \/ alarm <= setAt + Pause)
        \/ alarm = None /\ setAt < Earliest(timers) /\ Earliest(timers) < setAt + Micro

(* TimersFire: a timer that is due while the timerfd is armed runs, or is  *)
(* cancelled, though the timerfd may fire early, for another timer, or be  *)
(* set again while callbacks run (handle_read, reset_timerfd).  A disarmed *)
(* timerfd, which Armed delimits, would leave it waiting.                  *)
TimersFire ==
    \A t \in Timer : (t \in timers /\ exp[t] <= now /\ alarm # None) ~> (cur = t \/ t \in cancelled)
===============================================================================
