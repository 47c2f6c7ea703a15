----------------------------- MODULE TaskExecutor -----------------------------
(* What EventLoop promises the threads that hand it tasks: every task runs *)
(* at most once, on the loop's thread, in the order of the calls.          *)
EXTENDS Sequences

CONSTANT Task

VARIABLES queue,  \* the tasks accepted and not yet run
          done    \* the tasks run, in order

Init == queue = <<>> /\ done = <<>>

Submit(t) == queue' = Append(queue, t) /\ UNCHANGED done

Execute ==
    /\ queue # <<>>
    /\ done' = Append(done, Head(queue))
    /\ queue' = Tail(queue)

Next == Execute \/ \E t \in Task : Submit(t)

Spec == Init /\ [][Next]_<<queue, done>>
===============================================================================
