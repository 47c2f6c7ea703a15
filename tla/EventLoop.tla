------------------------------ MODULE EventLoop ------------------------------
(***************************************************************************)
(* One EventLoop of an EventLoopThread and the threads that call it: the   *)
(* task queue with its eventfd, stop(), and the destruction of the loop    *)
(* when thread_func returns.                                               *)
(*                                                                         *)
(* The eventfd is a Boolean: only whether its counter is zero is ever      *)
(* looked at.  Channels other than the wakeup channel appear as the events *)
(* that make epoll_wait return and whose callbacks may post tasks.         *)
(***************************************************************************)
EXTENDS Naturals, Sequences, FiniteSets

CONSTANTS Caller,  \* threads that post tasks to this loop
          Owner,   \* the thread that runs ~EventLoopThread
          Task     \* tasks to post, each once (bound)

ASSUME EventLoopAssumption == Owner \notin Caller

VARIABLES
    lpc,      \* where the loop's thread is
    stop,     \* stop_
    efd,      \* wakeup_fd_ is readable
    active,   \* the events the last poll returned: subset of {"wakeup", "io"}
    pending,  \* pending_tasks_
    batch,    \* the tasks do_pending_tasks has swapped out
    done,     \* history: the tasks run
    cpc,      \* what each calling thread is about to do
    early     \* history: tasks posted before loop() drained the eventfd, or by
              \* the loop's own thread

vars == <<lpc, stop, efd, active, pending, batch, done, cpc, early>>

LoopPc == {"setup", "check", "test", "poll", "dispatch", "swap", "run", "returned", "dead"}

(* start_loop has returned: the loop is published, its thread has not yet  *)
(* called loop().                                                          *)
Init ==
    /\ lpc = "setup" /\ stop = FALSE /\ efd = FALSE /\ active = {}
    /\ pending = <<>> /\ batch = <<>> /\ done = <<>>
    /\ cpc = [c \in Caller \cup {Owner} |-> "idle"]
    /\ early = {}

Elements(s) == {s[i] : i \in DOMAIN s}
Posted == Elements(pending) \cup Elements(batch) \cup Elements(done)

(* pending_tasks_.push_back *)
MutPushed(t) == <<t>> \o pending
Pushed(t) == Append(pending, t)

-------------------------------------------------------------------------------
(* EventLoop::loop *)

(* The eventfd is drained whatever the wakeups in it were for. *)
Drain ==
    /\ lpc = "setup" /\ lpc' = "check"
    /\ efd' = FALSE
    /\ UNCHANGED <<stop, active, pending, batch, done, cpc, early>>

(* stop_.exchange(false) *)
MutEntry == "test"
Entry == IF stop THEN "returned" ELSE "test"

CheckStop ==
    /\ lpc = "check" /\ lpc' = Entry
    /\ stop' = FALSE
    /\ UNCHANGED <<efd, active, pending, batch, done, cpc, early>>

TestStop ==
    /\ lpc = "test" /\ lpc' = IF stop THEN "returned" ELSE "poll"
    /\ UNCHANGED <<stop, efd, active, pending, batch, done, cpc, early>>

(* epoll_wait returns every channel that is ready. *)
Poll(events) ==
    /\ lpc = "poll" /\ lpc' = "dispatch"
    /\ active' = events \cup (IF efd THEN {"wakeup"} ELSE {})
    /\ UNCHANGED <<stop, efd, pending, batch, done, cpc, early>>

PollWakeup == efd /\ Poll({})
PollIo == Poll({"io"})
PollTimeout == ~efd /\ Poll({})

(* handle_event of the active channels; the wakeup channel reads the fd.   *)
Dispatch ==
    /\ lpc = "dispatch" /\ lpc' = "swap"
    /\ efd' = (efd /\ "wakeup" \notin active)
    /\ active' = {}
    /\ UNCHANGED <<stop, pending, batch, done, cpc, early>>

(* do_pending_tasks *)
Swap ==
    /\ lpc = "swap" /\ lpc' = "run"
    /\ batch' = pending /\ pending' = <<>>
    /\ UNCHANGED <<stop, efd, active, done, cpc, early>>

MutTookAll == <<>>
TookTask == Tail(batch)

RunTask ==
    /\ lpc = "run" /\ batch # <<>>
    /\ done' = Append(done, Head(batch)) /\ batch' = TookTask
    /\ UNCHANGED <<lpc, stop, efd, active, pending, cpc, early>>

RunDone ==
    /\ lpc = "run" /\ batch = <<>> /\ lpc' = "test"
    /\ UNCHANGED <<stop, efd, active, pending, batch, done, cpc, early>>

(* A callback or a task calls queue_in_loop on its own loop: no wakeup.     *)
LoopPost(t) ==
    /\ \/ lpc = "dispatch" /\ "io" \in active
       \/ lpc = "run" /\ batch # <<>>
    /\ t \notin Posted
    /\ pending' = Pushed(t)
    /\ early' = early \cup {t}
    /\ UNCHANGED <<lpc, stop, efd, active, batch, done, cpc>>

(* thread_func returns: loop_ = nullptr, and the EventLoop on its stack is *)
(* destroyed.                                                              *)
Destroy ==
    /\ lpc = "returned" /\ lpc' = "dead"
    /\ UNCHANGED <<stop, efd, active, pending, batch, done, cpc, early>>

-------------------------------------------------------------------------------
(* The other threads *)

(* queue_in_loop: the push under mutex_, then wakeup().  TcpServer::stop   *)
(* has closed the connections before the owner stops the loop, so no       *)
(* thread posts from then on.                                              *)
Post(c, t) ==
    /\ c \in Caller /\ cpc[c] = "idle" /\ cpc[Owner] = "idle"
    /\ t \notin Posted
    /\ pending' = Pushed(t)
    /\ early' = IF lpc = "setup" THEN early \cup {t} ELSE early
    /\ cpc' = [cpc EXCEPT ![c] = "wake"]
    /\ UNCHANGED <<lpc, stop, efd, active, batch, done>>

(* ~EventLoopThread: stop_ = true, then wakeup(), then join.               *)
Stop ==
    /\ cpc[Owner] = "idle" /\ \A c \in Caller : cpc[c] = "idle"
    /\ stop' = TRUE
    /\ cpc' = [cpc EXCEPT ![Owner] = "wake"]
    /\ UNCHANGED <<lpc, efd, active, pending, batch, done, early>>

MutWoken == efd
Woken == TRUE

Wake(c) ==
    /\ cpc[c] = "wake"
    /\ efd' = Woken
    /\ cpc' = [cpc EXCEPT ![c] = IF c = Owner THEN "join" ELSE "idle"]
    /\ UNCHANGED <<lpc, stop, active, pending, batch, done, early>>

Joined ==
    /\ cpc[Owner] = "join" /\ lpc = "dead"
    /\ UNCHANGED vars

-------------------------------------------------------------------------------
LoopStep == Drain \/ CheckStop \/ TestStop \/ PollWakeup \/ Dispatch \/ Swap \/ RunTask
            \/ RunDone \/ Destroy

Next ==
    \/ LoopStep \/ PollIo \/ PollTimeout
    \/ \E t \in Task : LoopPost(t) \/ \E c \in Caller : Post(c, t)
    \/ Stop \/ \E c \in Caller \cup {Owner} : Wake(c)
    \/ Joined

Spec == Init /\ [][Next]_vars

(* The threads keep running; nothing is said of I/O or of the timeout.     *)
Fairness == WF_vars(LoopStep) /\ \A c \in Caller \cup {Owner} : WF_vars(Wake(c))

-------------------------------------------------------------------------------
(* Properties *)

(* FirstInFirstOut: the loop implements TaskExecutor: posts from all       *)
(* threads, and from tasks that are running, are executed once each and in *)
(* the order of the push, across the swap of do_pending_tasks.             *)
Executor == INSTANCE TaskExecutor WITH queue <- batch \o pending
FirstInFirstOut == Executor!Spec

Asleep == lpc = "poll" /\ ~efd /\ \A c \in Caller \cup {Owner} : cpc[c] # "wake"

(* NoLostWakeup: the loop never sleeps on a task another thread posted     *)
(* after loop() began: its wakeup is either still to come, or readable     *)
(* when epoll_wait starts (queue_in_loop, handle_read).                    *)
NoLostWakeup == Asleep => Elements(pending) \subseteq early

(* StopEnds: stop() makes loop() return, even if it comes before loop()    *)
(* has started or between two of its checks, without the help of any I/O   *)
(* or of the poll timeout.                                                 *)
StopEnds == stop ~> lpc = "dead"

(* TasksRun: because epoll_wait gives up after kPollTimeoutMs, a posted    *)
(* task runs even if its wakeup was lost or never sent, unless the loop is *)
(* stopped (do_pending_tasks after every poll).                            *)
TasksRun ==
    WF_vars(PollTimeout) => \A t \in Task : t \in Posted ~> (t \in Elements(done) \/ lpc = "dead")
===============================================================================
