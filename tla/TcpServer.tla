------------------------------ MODULE TcpServer ------------------------------
(***************************************************************************)
(* The life of connections: TcpServer and its Acceptor on the main loop,   *)
(* TcpConnection and its Channel on an IO loop, the WebSocket registry     *)
(* (WsSessionManager) that all threads share under one mutex, and a stop   *)
(* that a signal brings into any thread.                                   *)
(*                                                                         *)
(* Each thread has a script: what the functions on its stack have still to *)
(* do, innermost first.  Within its thread a connection is nobody else's,  *)
(* so only what other threads can see or wait for ends a step: the mutex,  *)
(* the task queues and the state that send() reads.  The loops' queues are *)
(* those of TaskExecutor.  Bytes are abstracted to whether output_buffer_  *)
(* holds any, which, while connected, is when the channel listens to "w".  *)
(* force_close is only called on the connection's own loop, where          *)
(* kDisconnecting lasts until the handle_close that follows; nothing calls *)
(* shutdown().                                                             *)
(***************************************************************************)
EXTENDS Integers, Sequences, FiniteSets, SequencesExt

CONSTANTS
    Io,        \* the IO threads of the pool (there is at least one)
    Main,      \* the main loop's thread
    Conn,      \* connections that can be accepted (bound)
    MaxQueue,  \* nothing that may queue a push starts beyond it (bound)
    None

ASSUME TcpServerAssumption ==
    /\ Io # {} /\ IsFiniteSet(Io) /\ IsFiniteSet(Conn) /\ MaxQueue \in Nat
    /\ Main \notin Io /\ None \notin Conn \cup Io \cup {Main}

VARIABLES
    conns,      \* connections_
    started,    \* started_
    dead,       \* thread_pool_.reset() is through: the IO loops are destroyed
    signalled,  \* the signal has come (bound: once)
    mstop,      \* stop_ of the main loop
    phase,      \* main(): loop, then ~TcpServer, then down
    mq, mbatch, \* the main loop's pending tasks, and those do_pending_tasks took out
    q,          \* each IO loop's tasks
    active,     \* the channels that an IO loop's last poll returned
    script,     \* what each thread has still to do
    cleaning,   \* stop_in_loop: the connections whose promises are not set yet
    loopOf,     \* each connection's IO loop
    state,      \* state_
    sock,       \* socket_: none, open or closed
    events,     \* what the channel listens to: subset of {"r", "w"}
    wcb,        \* write_complete_cb_: none, or close the connection
    closecb,    \* close_cb_: remove, or none
    ctx,        \* context_: none, http or ws
    mtx, metrics, session, \* WsSessionManager: mtx_, metrics_subscribers_, and
                \* sessions_ (bound: of one upload)
    zombie,     \* history: connections registered when they were closed already
    bad         \* history: what was used that was gone: a closed socket, a
                \* connection destroyed already, an IO loop after the stop

connVars == <<loopOf, state, sock, events, wcb, closecb, ctx>>
wsVars   == <<mtx, metrics, session, zombie>>
mainVars == <<conns, started, signalled, mstop, phase, mbatch>>
vars == <<mainVars, cleaning, dead, mq, q, active, script, connVars, wsVars, bad>>

Thread == Io \cup {Main}
Do(op, c) == [op |-> op, conn |-> c]
Does(op) == Do(op, None)

Init ==
    /\ conns = {} /\ started = TRUE /\ dead = FALSE /\ signalled = FALSE /\ mstop = FALSE
    /\ phase = "loop" /\ mq = <<>> /\ mbatch = <<>> /\ cleaning = {}
    /\ q = [l \in Io |-> <<>>] /\ active = [l \in Io |-> {}] /\ script = [t \in Thread |-> <<>>]
    /\ loopOf = [c \in Conn |-> None] /\ state = [c \in Conn |-> "none"]
    /\ sock = [c \in Conn |-> "none"] /\ events = [c \in Conn |-> {}]
    /\ wcb = [c \in Conn |-> "none"]
    /\ closecb = [c \in Conn |-> "none"] /\ ctx = [c \in Conn |-> "none"]
    /\ mtx = None /\ metrics = {} /\ session = None /\ zombie = {}
    /\ bad = {}

-------------------------------------------------------------------------------
(* Scripts *)

At(t, op) == script[t] # <<>> /\ Head(script[t]).op = op
Cur(t) == Head(script[t]).conn

(* The step at the head of t's script is replaced by what it calls.        *)
Then(t, steps) == script' = [script EXCEPT ![t] = steps \o Tail(@)]

Idle(l) == script[l] = <<>> /\ active[l] = {}

(* queue_in_loop on the IO loop of c.                                      *)
Queue(c, op) == q' = [q EXCEPT ![loopOf[c]] = Append(@, Do(op, c))]

Use(c) == bad' = IF sock[c] = "closed" THEN bad \cup {"closed socket"} ELSE bad

-------------------------------------------------------------------------------
(* An IO thread: the loop *)

Poll(l) ==
    /\ ~dead /\ Idle(l)
    /\ \E ready \in SUBSET {c \in Conn : loopOf[c] = l /\ events[c] # {}} \ {{}} :
          active' = [active EXCEPT ![l] = ready]
    /\ UNCHANGED <<mainVars, cleaning, dead, mq, q, script, connVars, wsVars, bad>>

(* handle_event_with_guard: EPOLLERR, then EPOLLHUP without EPOLLIN, then  *)
(* reading, then writing, each if it is among the events returned.         *)
Callbacks(c) ==
    { <<Do("close", c), Do("close", c), Do("write", c)>>, <<Do("close", c), Do("read", c), Do("write", c)>>,
      <<Do("read", c)>>, <<Do("write", c)>>, <<Do("read", c), Do("write", c)>> }

HandleEvent(l) ==
    /\ script[l] = <<>>
    /\ \E c \in active[l] :
          /\ active' = [active EXCEPT ![l] = @ \ {c}]
          /\ \E steps \in Callbacks(c) : script' = [script EXCEPT ![l] = steps]
    /\ UNCHANGED <<mainVars, cleaning, dead, mq, q, connVars, wsVars, bad>>

MutCleanup(c) == <<Do("close", c), Do("destroy", c)>>
Cleanup(c) == <<Do("close", c), Do("destroy", c), Do("promise", c)>>

(* do_pending_tasks: connection_established, the send of another thread,   *)
(* connection_destroyed, and what stop_in_loop posts.                      *)
RunTask(l) ==
    /\ ~dead /\ Idle(l) /\ q[l] # <<>>
    /\ q' = [q EXCEPT ![l] = Tail(@)]
    /\ LET c == Head(q[l]).conn IN
       \/ /\ Head(q[l]).op = "establish"
          /\ state' = [state EXCEPT ![c] = "connected"]
          /\ events' = [events EXCEPT ![c] = {"r"}]
          /\ ctx' = [ctx EXCEPT ![c] = "http"]
          /\ UNCHANGED <<script, closecb>>
       \/ /\ Head(q[l]).op \in {"send", "destroy"}
          /\ script' = [script EXCEPT ![l] = <<Head(q[l])>>]
          /\ UNCHANGED <<state, events, ctx, closecb>>
       \/ /\ Head(q[l]).op = "cleanup"
          /\ script' = [script EXCEPT ![l] = Cleanup(c)]
          /\ closecb' = [closecb EXCEPT ![c] = "none"]
          /\ UNCHANGED <<state, events, ctx>>
    /\ UNCHANGED <<mainVars, cleaning, dead, mq, active, loopOf, sock, wcb, wsVars, bad>>

-------------------------------------------------------------------------------
(* TcpConnection, in its own thread *)

Connected(c) == state[c] = "connected"
Waiting(c) == "w" \in events[c]

(* handle_close (also force_close, handle_error): only the first of them   *)
(* does anything; the connection callback ends in remove_session.          *)
FirstClose(c) == Connected(c)

Close(l) ==
    LET c == Cur(l) IN
    /\ At(l, "close")
    /\ IF FirstClose(c)
       THEN /\ state' = [state EXCEPT ![c] = "disconnected"]
            /\ events' = [events EXCEPT ![c] = {}]
            /\ Then(l, <<Do("remove", c)>>)
       ELSE Then(l, <<>>) /\ UNCHANGED <<state, events>>
    /\ UNCHANGED <<mainVars, cleaning, dead, mq, q, active, loopOf, sock, wcb, closecb, ctx, wsVars, bad>>

(* What HttpParser's callback or WsHandler::feed does with what was read:  *)
(* a response; a part, whose progress is pushed first; an upgrade.         *)
Handlers(c) ==
    IF ctx[c] = "ws" THEN {<<>>, <<Do("send", c)>>}
    ELSE { <<Do("respond", c)>>, <<Does("push"), Do("respond", c)>>,
           <<Do("send", c), Do("reg_metrics", c), Do("send", c)>>, <<Do("send", c), Do("reg_session", c)>> }

(* handle_read: a request or a frame, or what is not one yet; the peer's   *)
(* end or an error.  Bounds: MaxQueue, one request at a time.              *)
Read(l) ==
    LET c == Cur(l) IN
    /\ At(l, "read")
    /\ \/ ~Connected(c) /\ Then(l, <<>>) /\ UNCHANGED bad
       \/ Connected(c) /\ Use(c) /\ \E steps \in {<<>>, <<Do("close", c)>>} : Then(l, steps)
       \/ /\ Connected(c) /\ Use(c)
          /\ \A k \in Io : Len(q[k]) < MaxQueue
          /\ \E steps \in Handlers(c) : Then(l, steps)
    /\ UNCHANGED <<mainVars, cleaning, dead, mq, q, active, connVars, wsVars>>

(* The write-complete callback. *)
WriteComplete(c, callback) == IF callback = "close" THEN <<Do("close", c)>> ELSE <<>>

(* send: on another loop it is queued; else send_in_loop writes at once if *)
(* nothing is waiting, and what is left waits for EPOLLOUT.                *)
Sends(l, c, callback) ==
    \/ ~Connected(c) /\ Then(l, <<>>) /\ UNCHANGED <<q, events, bad>>
    \/ /\ Connected(c) /\ loopOf[c] # l
       /\ Queue(c, "send") /\ Then(l, <<>>) /\ UNCHANGED <<events, bad>>
    \/ /\ Connected(c) /\ loopOf[c] = l /\ Waiting(c)
       /\ Then(l, <<>>) /\ UNCHANGED <<q, events, bad>>
    \/ /\ Connected(c) /\ loopOf[c] = l /\ ~Waiting(c) /\ Use(c)
       /\ \/ Then(l, WriteComplete(c, callback)) /\ UNCHANGED events
          \/ events' = [events EXCEPT ![c] = @ \cup {"w"}] /\ Then(l, <<>>)
          \/ Then(l, <<Do("close", c)>>) /\ UNCHANGED events
       /\ UNCHANGED q

Send(l) ==
    /\ At(l, "send") /\ Sends(l, Cur(l), wcb[Cur(l)])
    /\ UNCHANGED <<mainVars, cleaning, dead, mq, active, loopOf, state, sock, wcb, closecb, ctx, wsVars>>

(* send_response: the callback is replaced, then the payload is sent.      *)
Respond(l) ==
    LET c == Cur(l) IN
    /\ At(l, "respond")
    /\ \E callback \in {"none", "close"} :
          wcb' = [wcb EXCEPT ![c] = callback] /\ Sends(l, c, callback)
    /\ UNCHANGED <<mainVars, cleaning, dead, mq, active, loopOf, state, sock, closecb, ctx, wsVars>>

(* handle_write: all, some or none of the buffer, or an error.             *)
Write(l) ==
    LET c == Cur(l) IN
    /\ At(l, "write")
    /\ \/ ~Waiting(c) /\ Then(l, <<>>) /\ UNCHANGED <<events, bad>>
       \/ /\ Waiting(c) /\ Use(c)
          /\ \/ /\ events' = [events EXCEPT ![c] = @ \ {"w"}]
                /\ Then(l, WriteComplete(c, wcb[c]))
             \/ Then(l, <<>>) /\ UNCHANGED events
             \/ Then(l, <<Do("close", c)>>) /\ UNCHANGED events
    /\ UNCHANGED <<mainVars, cleaning, dead, mq, q, active, loopOf, state, sock, wcb, closecb, ctx, wsVars>>

(* connection_destroyed *)
Destroy(l) ==
    LET c == Cur(l) IN
    /\ At(l, "destroy")
    /\ bad' = IF sock[c] = "closed" THEN bad \cup {"destroyed twice"} ELSE bad
    /\ state' = [state EXCEPT ![c] = IF Connected(c) THEN "disconnected" ELSE @]
    /\ events' = [events EXCEPT ![c] = IF Connected(c) THEN {} ELSE @]
    /\ ctx' = [ctx EXCEPT ![c] = "none"] /\ sock' = [sock EXCEPT ![c] = "closed"]
    /\ Then(l, <<>>)
    /\ UNCHANGED <<mainVars, cleaning, dead, mq, q, active, loopOf, wcb, closecb, wsVars>>

Promise(l) ==
    /\ At(l, "promise")
    /\ cleaning' = cleaning \ {Cur(l)} /\ Then(l, <<>>)
    /\ UNCHANGED <<mainVars, dead, mq, q, active, connVars, wsVars, bad>>

-------------------------------------------------------------------------------
(* WsSessionManager: everything under mtx_ *)

(* remove_session, and then close_cb_: remove_connection.                  *)
MutUnsubscribed(c) == metrics
Unsubscribed(c) == metrics \ {c}

RemoveSession(l) ==
    LET c == Cur(l) IN
    /\ At(l, "remove") /\ mtx = None
    /\ metrics' = Unsubscribed(c) /\ session' = IF session = c THEN None ELSE session
    /\ mq' = IF closecb[c] = "remove" THEN Append(mq, Do("remove", c)) ELSE mq
    /\ Then(l, <<>>)
    /\ UNCHANGED <<mainVars, cleaning, dead, q, active, connVars, mtx, zombie, bad>>

(* try_handle_upgrade after the 101 response: register, then set_context.  *)
Register(l) ==
    LET c == Cur(l) IN
    /\ At(l, "reg_metrics") \/ At(l, "reg_session")
    /\ mtx = None
    /\ IF At(l, "reg_metrics") THEN metrics' = metrics \cup {c} /\ UNCHANGED session
                               ELSE session' = c /\ UNCHANGED metrics
    /\ zombie' = IF Connected(c) THEN zombie ELSE zombie \cup {c}
    /\ ctx' = [ctx EXCEPT ![c] = "ws"]
    /\ Then(l, <<>>)
    /\ UNCHANGED <<mainVars, cleaning, dead, mq, q, active, loopOf, state, sock, events, wcb, closecb, mtx, bad>>

(* push_progress, push_complete: the mutex is held while sending.          *)
Push(l) ==
    /\ At(l, "push") /\ mtx = None
    /\ IF session = None THEN Then(l, <<>>) /\ UNCHANGED mtx
       ELSE Then(l, <<Do("send", session), Does("unlock")>>) /\ mtx' = l
    /\ UNCHANGED <<mainVars, cleaning, dead, mq, q, active, connVars, metrics, session, zombie, bad>>

Unlock(t) ==
    /\ At(t, "unlock") /\ mtx' = None /\ Then(t, <<>>)
    /\ UNCHANGED <<mainVars, cleaning, dead, mq, q, active, connVars, metrics, session, zombie, bad>>

-------------------------------------------------------------------------------
(* The main thread *)

MainIdle == phase = "loop" /\ script[Main] = <<>> /\ mbatch = <<>>

(* Acceptor::handle_read, new_connection.  Which loop get_next_loop gives  *)
(* depends on how many connections there were before.                      *)
Accept(c, l) ==
    /\ MainIdle /\ started
    /\ \E d \in Conn : state[d] = "none"
    /\ c = CHOOSE d \in Conn : state[d] = "none"
    /\ conns' = conns \cup {c}
    /\ loopOf' = [loopOf EXCEPT ![c] = l] /\ sock' = [sock EXCEPT ![c] = "open"]
    /\ state' = [state EXCEPT ![c] = "connecting"] /\ closecb' = [closecb EXCEPT ![c] = "remove"]
    /\ q' = [q EXCEPT ![l] = Append(@, Do("establish", c))]
    /\ UNCHANGED <<started, signalled, mstop, phase, mbatch, cleaning, dead, mq, active, script, events,
                   wcb, ctx, wsVars, bad>>

(* The timer's broadcast_metrics: the mutex is held over all sends.        *)
Broadcast ==
    /\ MainIdle /\ ~signalled /\ metrics # {} /\ \A k \in Io : Len(q[k]) < MaxQueue
    /\ mtx = None /\ mtx' = Main
    /\ script' = [script EXCEPT ![Main] = SetToSeq({Do("send", c) : c \in metrics}) \o <<Does("unlock")>>]
    /\ UNCHANGED <<mainVars, cleaning, dead, mq, q, active, connVars, metrics, session, zombie, bad>>

MainSwap ==
    /\ MainIdle /\ mq # <<>> /\ mbatch' = mq /\ mq' = <<>>
    /\ UNCHANGED <<conns, started, signalled, mstop, phase, cleaning, dead, q, active, script, connVars, wsVars, bad>>

StopScript == <<Does("stop"), Does("wait"), Does("reset")>>

(* remove_connection_in_loop: connection_destroyed is queued, never run at *)
(* once, since the channel may be among those the IO loop is handling.     *)
MutForgotten(c) == conns
Forgotten(c) == conns \ {c}
MutDestroyTask(c) == q
DestroyTask(c) == [q EXCEPT ![loopOf[c]] = Append(@, Do("destroy", c))]

MainTask ==
    /\ script[Main] = <<>> /\ mbatch # <<>> /\ mbatch' = Tail(mbatch)
    /\ LET c == Head(mbatch).conn IN
       \/ /\ Head(mbatch).op = "remove" /\ conns' = Forgotten(c)
          /\ IF dead THEN bad' = bad \cup {"dead loop"} /\ UNCHANGED q
                     ELSE q' = DestroyTask(c) /\ UNCHANGED bad
          /\ UNCHANGED script
       \/ /\ Head(mbatch).op = "stop"
          /\ script' = [script EXCEPT ![Main] = StopScript]
          /\ UNCHANGED <<conns, q, bad>>
    /\ UNCHANGED <<started, signalled, mstop, phase, cleaning, dead, mq, active, connVars, wsVars>>

(* signal_handler, in whichever thread the system chooses: stop() runs     *)
(* stop_in_loop at once in the main thread, on top of what it is doing,    *)
(* and posts it from any other; then the main loop's stop().               *)
Signal(t) ==
    /\ ~signalled /\ phase = "loop" /\ signalled' = TRUE
    /\ IF t = Main
       THEN script' = [script EXCEPT ![Main] = StopScript \o <<Does("stop_loop")>> \o @] /\ UNCHANGED <<mq, mstop>>
       ELSE mq' = Append(mq, Does("stop")) /\ mstop' = TRUE /\ UNCHANGED script
    /\ UNCHANGED <<conns, started, phase, mbatch, cleaning, dead, q, active, connVars, wsVars, bad>>

StopLoop ==
    /\ At(Main, "stop_loop") /\ mstop' = TRUE /\ Then(Main, <<>>)
    /\ UNCHANGED <<conns, started, signalled, phase, mbatch, cleaning, dead, mq, q, active, connVars, wsVars, bad>>

(* stop_in_loop: every connection is cleaned up by its own loop.           *)
StopInLoop ==
    /\ At(Main, "stop")
    /\ IF started
       THEN /\ started' = FALSE /\ cleaning' = conns /\ conns' = {}
            /\ q' = [l \in Io |-> q[l] \o SetToSeq({Do("cleanup", c) : c \in {d \in conns : loopOf[d] = l}})]
            /\ Then(Main, <<>>)
       ELSE /\ script' = [script EXCEPT ![Main] = SubSeq(@, Len(StopScript) + 1, Len(@))]
            /\ UNCHANGED <<started, cleaning, conns, q>>
    /\ UNCHANGED <<signalled, mstop, phase, mbatch, dead, mq, active, connVars, wsVars, bad>>

StopWait ==
    /\ At(Main, "wait") /\ cleaning = {} /\ Then(Main, <<>>)
    /\ UNCHANGED <<mainVars, cleaning, dead, mq, q, active, connVars, wsVars, bad>>

(* thread_pool_.reset(): each loop ends its iteration, its thread is       *)
(* joined; tasks it has not run are dropped.                               *)
PoolReset ==
    /\ At(Main, "reset") /\ \A l \in Io : Idle(l)
    /\ dead' = TRUE /\ q' = [l \in Io |-> <<>>] /\ Then(Main, <<>>)
    /\ UNCHANGED <<mainVars, cleaning, mq, active, connVars, wsVars, bad>>

(* loop() returns, and main() destroys the server.                         *)
LoopExit ==
    /\ MainIdle /\ mstop /\ phase' = "destructor"
    /\ script' = [script EXCEPT ![Main] = StopScript]
    /\ UNCHANGED <<conns, started, signalled, mstop, mbatch, cleaning, dead, mq, q, active, connVars, wsVars, bad>>

Down ==
    /\ phase = "destructor" /\ script[Main] = <<>> /\ phase' = "down"
    /\ UNCHANGED <<conns, started, signalled, mstop, mbatch, cleaning, dead, mq, q, active, script, connVars,
                   wsVars, bad>>

-------------------------------------------------------------------------------
ScriptStep(l) ==
    \/ Close(l) \/ Read(l) \/ Respond(l) \/ Send(l) \/ Write(l) \/ Destroy(l) \/ Promise(l)
    \/ RemoveSession(l) \/ Register(l) \/ Push(l) \/ Unlock(l)

MainStep == Send(Main) \/ Unlock(Main) \/ MainTask \/ StopLoop \/ StopInLoop \/ StopWait \/ PoolReset
            \/ Down

Next ==
    \/ \E l \in Io : Poll(l) \/ HandleEvent(l) \/ RunTask(l) \/ ScriptStep(l)
    \/ MainStep \/ MainSwap \/ Broadcast \/ LoopExit
    \/ \E c \in Conn, l \in Io : Accept(c, l)
    \/ \E t \in Thread : Signal(t)

Spec == Init /\ [][Next]_vars

(* Threads keep running, and a loop runs its tasks, and looks at stop_,    *)
(* after every poll.                                                       *)
FairSpec ==
    /\ Spec
    /\ \A l \in Io : WF_vars(HandleEvent(l) \/ ScriptStep(l)) /\ SF_vars(RunTask(l))
    /\ WF_vars(MainStep) /\ SF_vars(MainSwap) /\ SF_vars(LoopExit)

-------------------------------------------------------------------------------
(* Properties *)

(* SocketSafe: connection_destroyed runs at most once for a connection,    *)
(* and nothing reads or writes its socket afterwards, though the server's  *)
(* removal, the stop and the closing itself are decided by different       *)
(* threads.                                                                *)
SocketSafe == bad \cap {"closed socket", "destroyed twice"} = {}

Tasks == {mq[i] : i \in DOMAIN mq} \cup {mbatch[i] : i \in DOMAIN mbatch}
         \cup (UNION {{q[l][i] : i \in DOMAIN q[l]} : l \in Io})
         \cup (UNION {{script[t][i] : i \in DOMAIN script[t]} : t \in Thread})

(* EndInSight: from handle_close to connection_destroyed something is      *)
(* always on its way that will destroy the connection, in the IO thread,   *)
(* the main loop's queue or the IO loop's, stop or no stop, until the IO   *)
(* loops themselves are gone; a WebSocket's context refers to its own      *)
(* connection, so nothing else would release it.                           *)
EndInSight == \A c \in Conn : state[c] = "disconnected" /\ sock[c] = "open" /\ ~dead =>
    \E task \in Tasks : task.conn = c /\ task.op \in {"remove", "destroy", "cleanup"}

(* RegistryClean: the registry holds no closed connection, except one that *)
(* is about to be removed or whose 101 response could not be sent          *)
(* (try_handle_upgrade registers it after remove_session has run).         *)
RegistryClean == \A c \in metrics \cup ({session} \ {None}) :
    \/ Connected(c) \/ c \in zombie
    \/ \E l \in Io : \E i \in DOMAIN script[l] : script[l][i] = Do("remove", c)

Waits(l) == \E op \in {"remove", "push", "reg_metrics", "reg_session"} : At(l, op)

(* The two ways to wait for ever: a push closes the connection it sends to *)
(* in the same thread, and remove_session wants the mutex that the push    *)
(* holds; the signal interrupts broadcast_metrics, and stop_in_loop waits  *)
(* for threads that want the main thread's mutex.                          *)
LockCycle ==
    \/ mtx \in Io /\ Waits(mtx)
    \/ mtx = Main /\ (At(Main, "wait") \/ At(Main, "reset")) /\ \E l \in Io : Waits(l)

(* ServerStops: a signal ends the server, whatever it finds going on, unless  *)
(* the threads are in one of the two lock cycles.                          *)
ServerStops == signalled ~> (phase = "down" \/ LockCycle)
===============================================================================
