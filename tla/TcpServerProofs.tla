--------------------------- MODULE TcpServerProofs ---------------------------
(***************************************************************************)
(* No connection is destroyed twice or used after that, none is forgotten  *)
(* between its closing and its destruction, and the WebSocket registry     *)
(* keeps no closed one, for any number of connections and IO threads.      *)
(***************************************************************************)
EXTENDS TcpServer, SequenceTheorems, FiniteSetTheorems, TLAPS

(* The steps, one operator for each that counts in the life of c.          *)
Establishment(c) == Do("establish", c)
CleanupOf(c) == Do("cleanup", c)
Destruction(c) == Do("destroy", c)
Removal(c) == Do("remove", c)

OwnOp == {"close", "read", "write", "respond", "destroy", "promise", "remove", "reg_metrics", "reg_session"}
IoOp == OwnOp \cup {"send", "push", "unlock"}
StopOp == {"stop", "wait", "reset"}
PlainMainOp == {"send", "unlock", "stop_loop"}
QueueOp == {"establish", "send", "destroy", "cleanup"}
Step == [op : IoOp \cup StopOp \cup PlainMainOp \cup QueueOp, conn : Conn \cup {None}]

TypeInv ==
    /\ conns \subseteq Conn
    /\ active \in [Io -> SUBSET Conn] /\ \A l \in Io : \A c \in active[l] : loopOf[c] = l
    /\ loopOf \in [Conn -> Io \cup {None}]
    /\ state \in [Conn -> {"none", "connecting", "connected", "disconnected"}]
    /\ sock \in [Conn -> {"none", "open", "closed"}]
    /\ events \in [Conn -> SUBSET {"r", "w"}]
    /\ closecb \in [Conn -> {"none", "remove"}]
    /\ metrics \subseteq Conn /\ session \in Conn \cup {None}
    /\ started \in BOOLEAN /\ dead \in BOOLEAN /\ signalled \in BOOLEAN /\ mstop \in BOOLEAN

(* A thread has steps of other threads' connections only to send to them,  *)
(* and a loop has tasks of its own connections only.                       *)
IoStep(l, x) ==
    /\ x.op \in IoOp
    /\ x.op \notin {"push", "unlock"} => x.conn \in Conn
    /\ x.op \in OwnOp => loopOf[x.conn] = l
IoTask(l, x) == x.op \in QueueOp /\ x.conn \in Conn /\ loopOf[x.conn] = l
MainStepOf(x) == x.op = "stop" \/ (x.op = "remove" /\ x.conn \in Conn)

ScriptInv == script \in [Thread -> Seq(Step)] /\ \A l \in Io : \A x \in ToSet(script[l]) : IoStep(l, x)
QueueInv == q \in [Io -> Seq(Step)] /\ \A l \in Io : \A x \in ToSet(q[l]) : IoTask(l, x)
MainQueueInv ==
    mq \in Seq(Step) /\ mbatch \in Seq(Step) /\ \A x \in ToSet(mq) \cup ToSet(mbatch) : MainStepOf(x)

Shape == TypeInv /\ ScriptInv /\ QueueInv /\ MainQueueInv

(* The main thread's script: n steps of stop_in_loop, and what it          *)
(* interrupted.                                                            *)
StopOps == <<"stop", "wait", "reset">>
MainScript(s, n) ==
    /\ n <= Len(s)
    /\ \A i \in 1..n : s[i].op = StopOps[3 - n + i]
    /\ \A i \in (n + 1)..Len(s) : s[i].op \in PlainMainOp /\ (s[i].op = "send" => s[i].conn \in Conn)

Stopping(n) ==
    /\ MainScript(script[Main], n)
    /\ n > 0 => signalled
    /\ n \in {1, 2} => ~started
    /\ ~started => signalled /\ (dead \/ n \in {1, 2})

MainInv ==
    /\ \E n \in 0..3 : Stopping(n)
    /\ dead => ~started
    /\ mstop \/ (\E x \in ToSet(script[Main]) : x.op = "stop_loop") => signalled
    /\ \A x \in ToSet(mq) \cup ToSet(mbatch) : x.op = "stop" => signalled

(* A connection that is open, and one that has ended.                      *)
StateOf(c) ==
    /\ loopOf[c] = None <=> state[c] = "none"
    /\ sock[c] = "none" <=> state[c] = "none"
    /\ c \in conns => sock[c] = "open" /\ started
    /\ state[c] \in {"connecting", "connected"} /\ started => c \in conns
    /\ Connected(c) => sock[c] = "open"
    /\ events[c] # {} => Connected(c)

Once(s, x) == \A i, j \in DOMAIN s : s[i] = x /\ s[j] = x => i = j
Before(s, x, y) == \A i, j \in DOMAIN s : s[i] = x /\ s[j] = y => i < j

(* Of connection_destroyed, and the clean-up that ends in it, there is one *)
(* at most, and connection_established is over before it.                  *)
EndOf(l, c) ==
    /\ Once(q[l], Establishment(c)) /\ Once(q[l], CleanupOf(c)) /\ Once(q[l], Destruction(c))
    /\ Once(script[l], Destruction(c))
    /\ Before(q[l], Establishment(c), CleanupOf(c))
    /\ Establishment(c) \in ToSet(q[l]) =>
          /\ state[c] = "connecting" /\ sock[c] = "open"
          /\ Destruction(c) \notin ToSet(q[l]) /\ Destruction(c) \notin ToSet(script[l])
    /\ CleanupOf(c) \in ToSet(q[l]) => Destruction(c) \notin ToSet(q[l]) /\ Destruction(c) \notin ToSet(script[l])
    /\ Destruction(c) \in ToSet(q[l]) => Destruction(c) \notin ToSet(script[l]) /\ state[c] = "disconnected"
    /\ CleanupOf(c) \in ToSet(q[l]) \/ Destruction(c) \in ToSet(q[l]) \/ Destruction(c) \in ToSet(script[l]) =>
          sock[c] = "open" /\ c \notin conns
    /\ Destruction(c) \in ToSet(script[l]) /\ Connected(c) => script[l] # <<>> /\ Head(script[l]) = Do("close", c)

(* Of remove_connection there is one at most, and until the stop it finds  *)
(* the connection in the map.                                              *)
RemoveOf(c) ==
    /\ Once(mq, Removal(c)) /\ Once(mbatch, Removal(c)) /\ \A l \in Io : Once(script[l], Removal(c))
    /\ Removal(c) \in ToSet(mq) => Removal(c) \notin ToSet(mbatch)
    /\ Removal(c) \in ToSet(mq) \cup ToSet(mbatch) => \A l \in Io : Removal(c) \notin ToSet(script[l])
    /\ Removal(c) \in ToSet(mq) \cup ToSet(mbatch) \/ (\E l \in Io : Removal(c) \in ToSet(script[l])) =>
          state[c] = "disconnected" /\ (started => c \in conns)

(* Something is always on its way that will destroy a closed connection.   *)
Ending(c) ==
    \/ Removal(c) \in ToSet(mq) \cup ToSet(mbatch)
    \/ \E l \in Io : \/ CleanupOf(c) \in ToSet(q[l]) \/ Destruction(c) \in ToSet(q[l])
                     \/ Destruction(c) \in ToSet(script[l]) \/ Removal(c) \in ToSet(script[l])
SightOf(c) ==
    /\ closecb[c] = "none" /\ sock[c] = "open" => \E l \in Io : Destruction(c) \in ToSet(script[l])
    /\ state[c] = "disconnected" /\ sock[c] = "open" /\ ~dead => Ending(c)

LifeInv ==
    /\ \A c \in Conn : StateOf(c) /\ RemoveOf(c) /\ SightOf(c)
    /\ \A l \in Io, c \in Conn : EndOf(l, c)

(* The registry knows connections that are open, or about to be removed.   *)
Registered == metrics \cup ({session} \ {None})
RegistryInv == \A c \in Registered : Connected(c) \/ c \in zombie \/ \E l \in Io : Removal(c) \in ToSet(script[l])

IInv == Shape /\ MainInv /\ LifeInv /\ RegistryInv /\ SocketSafe

-------------------------------------------------------------------------------
(* Queues and scripts as sets of steps *)

(* The steps of a sequence, with one more at its end. *)
LEMMA SetAppend ==
    ASSUME NEW S, NEW s \in Seq(S), NEW y \in S
    PROVE  ToSet(Append(s, y)) = ToSet(s) \cup {y} /\ Append(s, y) \in Seq(S)
<1>1. /\ Append(s, y) \in Seq(S) /\ DOMAIN Append(s, y) = 1..(Len(s) + 1) /\ DOMAIN s = 1..Len(s) /\ Len(s) \in Nat
      /\ \A i \in 1..Len(s) : Append(s, y)[i] = s[i]
      /\ Append(s, y)[Len(s) + 1] = y
  BY AppendProperties, LenProperties
<1> QED
  BY <1>1 DEF ToSet

(* The first step, and those behind it. *)
LEMMA SetTail ==
    ASSUME NEW S, NEW s \in Seq(S), s # <<>>
    PROVE  ToSet(s) = {Head(s)} \cup ToSet(Tail(s)) /\ Tail(s) \in Seq(S) /\ Head(s) \in S
<1>1. /\ Tail(s) \in Seq(S) /\ Head(s) \in S /\ Len(s) \in Nat \ {0}
      /\ DOMAIN s = 1..Len(s) /\ DOMAIN Tail(s) = 1..(Len(s) - 1)
      /\ Head(s) = s[1] /\ \A i \in 1..(Len(s) - 1) : Tail(s)[i] = s[i + 1]
  BY HeadTailProperties, LenProperties, EmptySeq
<1>2. ASSUME NEW i \in DOMAIN s PROVE s[i] \in {Head(s)} \cup ToSet(Tail(s))
  <2>1. CASE i = 1
    BY <1>1, <2>1
  <2>2. CASE i # 1
    <3>1. i - 1 \in DOMAIN Tail(s) /\ Tail(s)[i - 1] = s[i]
      BY <1>1, <2>2
    <3> QED
      BY <3>1 DEF ToSet
  <2> QED
    BY <2>1, <2>2
<1>3. ASSUME NEW i \in DOMAIN Tail(s) PROVE Tail(s)[i] \in ToSet(s)
  <2>1. i + 1 \in DOMAIN s /\ s[i + 1] = Tail(s)[i]
    BY <1>1
  <2> QED
    BY <2>1 DEF ToSet
<1>4. Head(s) \in ToSet(s)
  BY <1>1 DEF ToSet
<1> QED
  BY <1>1, <1>2, <1>3, <1>4 DEF ToSet

(* What a concatenation holds, and where. *)
LEMMA ConcatAt ==
    ASSUME NEW S, NEW t \in Seq(S), NEW s \in Seq(S)
    PROVE  /\ t \o s \in Seq(S) /\ Len(t \o s) = Len(t) + Len(s) /\ Len(t) \in Nat /\ Len(s) \in Nat
           /\ DOMAIN t = 1..Len(t) /\ DOMAIN s = 1..Len(s) /\ DOMAIN (t \o s) = 1..(Len(t) + Len(s))
           /\ \A i \in 1..Len(t) : (t \o s)[i] = t[i]
           /\ \A i \in (Len(t) + 1)..(Len(t) + Len(s)) : (t \o s)[i] = s[i - Len(t)]
<1>1. t \o s \in Seq(S) /\ Len(t \o s) = Len(t) + Len(s)
      /\ \A i \in 1..(Len(t) + Len(s)) : (t \o s)[i] = IF i <= Len(t) THEN t[i] ELSE s[i - Len(t)]
  BY ConcatProperties
<1>2. Len(t) \in Nat /\ Len(s) \in Nat /\ DOMAIN t = 1..Len(t) /\ DOMAIN s = 1..Len(s)
      /\ DOMAIN (t \o s) = 1..Len(t \o s)
  BY <1>1, LenProperties
<1> QED
  BY <1>1, <1>2

(* The steps of two sequences, one before the other. *)
LEMMA SetConcat ==
    ASSUME NEW S, NEW t \in Seq(S), NEW s \in Seq(S)
    PROVE  ToSet(t \o s) = ToSet(t) \cup ToSet(s) /\ t \o s \in Seq(S)
<1>1. ASSUME NEW i \in DOMAIN (t \o s) PROVE (t \o s)[i] \in ToSet(t) \cup ToSet(s)
  <2>1. CASE i <= Len(t)
    <3>1. i \in DOMAIN t /\ (t \o s)[i] = t[i]
      BY <2>1, ConcatAt
    <3> QED
      BY <3>1 DEF ToSet
  <2>2. CASE ~(i <= Len(t))
    <3>1. i - Len(t) \in DOMAIN s /\ (t \o s)[i] = s[i - Len(t)]
      BY <2>2, ConcatAt
    <3> QED
      BY <3>1 DEF ToSet
  <2> QED
    BY <2>1, <2>2
<1>2. ASSUME NEW i \in DOMAIN t PROVE t[i] \in ToSet(t \o s)
  <2>1. i \in DOMAIN (t \o s) /\ (t \o s)[i] = t[i]
    BY ConcatAt
  <2> QED
    BY <2>1 DEF ToSet
<1>3. ASSUME NEW i \in DOMAIN s PROVE s[i] \in ToSet(t \o s)
  <2>1. i + Len(t) \in DOMAIN (t \o s) /\ (t \o s)[i + Len(t)] = s[i]
    BY ConcatAt
  <2> QED
    BY <2>1 DEF ToSet
<1> QED
  BY <1>1, <1>2, <1>3, ConcatAt DEF ToSet

(* A step that is there once is there once when another is queued, or when *)
(* it is queued and was not there. *)
LEMMA OnceAppend ==
    ASSUME NEW S, NEW s \in Seq(S), NEW y \in S, NEW x, Once(s, x), y # x \/ x \notin ToSet(s)
    PROVE  Once(Append(s, y), x)
<1>1. /\ DOMAIN Append(s, y) = 1..(Len(s) + 1) /\ DOMAIN s = 1..Len(s) /\ Len(s) \in Nat
      /\ \A i \in 1..Len(s) : Append(s, y)[i] = s[i]
      /\ Append(s, y)[Len(s) + 1] = y
  BY AppendProperties, LenProperties
<1> QED
  BY <1>1 DEF ToSet, Once

(* Taking the first step out leaves none of it, if it was there once.      *)
LEMMA OnceTail ==
    ASSUME NEW S, NEW s \in Seq(S), s # <<>>, NEW x, Once(s, x)
    PROVE  Once(Tail(s), x) /\ (x = Head(s) => x \notin ToSet(Tail(s)))
<1>1. /\ Len(s) \in Nat \ {0} /\ DOMAIN s = 1..Len(s) /\ DOMAIN Tail(s) = 1..(Len(s) - 1)
      /\ Head(s) = s[1] /\ \A i \in 1..(Len(s) - 1) : Tail(s)[i] = s[i + 1]
  BY HeadTailProperties, LenProperties, EmptySeq
<1>2. Once(Tail(s), x)
  BY <1>1 DEF Once
<1>3. ASSUME x = Head(s), NEW i \in DOMAIN Tail(s), Tail(s)[i] = x PROVE FALSE
  <2>1. i + 1 \in DOMAIN s /\ s[i + 1] = x /\ 1 \in DOMAIN s /\ s[1] = x /\ i + 1 # 1
    BY <1>1, <1>3
  <2> QED
    BY <2>1 DEF Once
<1> QED
  BY <1>2, <1>3 DEF ToSet

(* A step that only one of two sequences has, once, is once in both. *)
LEMMA OnceConcat ==
    ASSUME NEW S, NEW t \in Seq(S), NEW s \in Seq(S), NEW x, Once(t, x), Once(s, x),
           x \notin ToSet(t) \/ x \notin ToSet(s)
    PROVE  Once(t \o s, x)
<1> SUFFICES ASSUME NEW i \in DOMAIN (t \o s), NEW j \in DOMAIN (t \o s), (t \o s)[i] = x, (t \o s)[j] = x PROVE i = j
  BY DEF Once
<1>1. CASE x \notin ToSet(t)
  <2>1. ~(i <= Len(t)) /\ ~(j <= Len(t))
    BY <1>1, ConcatAt DEF ToSet
  <2>2. i - Len(t) \in DOMAIN s /\ j - Len(t) \in DOMAIN s /\ s[i - Len(t)] = x /\ s[j - Len(t)] = x
    BY <2>1, ConcatAt
  <2>3. i - Len(t) = j - Len(t)
    BY <2>2 DEF Once
  <2> QED
    BY <2>3, ConcatAt
<1>2. CASE x \notin ToSet(s)
  <2>0. ASSUME NEW k \in DOMAIN (t \o s), (t \o s)[k] = x PROVE k <= Len(t)
    <3>1. CASE ~(k <= Len(t))
      <4>1. k - Len(t) \in DOMAIN s /\ s[k - Len(t)] = x
        BY <2>0, <3>1, ConcatAt
      <4> QED
        BY <1>2, <4>1 DEF ToSet
    <3> QED
      BY <3>1
  <2>1. i \in DOMAIN t /\ j \in DOMAIN t /\ t[i] = x /\ t[j] = x
    BY <2>0, ConcatAt
  <2> QED
    BY <2>1 DEF Once
<1> QED
  BY <1>1, <1>2

(* The order of two steps stays, unless the first is queued again.         *)
LEMMA BeforeAppend ==
    ASSUME NEW S, NEW s \in Seq(S), NEW x, NEW y, NEW z \in S, Before(s, x, y), x # y, z # x \/ y \notin ToSet(s)
    PROVE  Before(Append(s, z), x, y)
<1>1. /\ DOMAIN Append(s, z) = 1..(Len(s) + 1) /\ DOMAIN s = 1..Len(s) /\ Len(s) \in Nat
      /\ \A i \in 1..Len(s) : Append(s, z)[i] = s[i]
      /\ Append(s, z)[Len(s) + 1] = z
  BY AppendProperties, LenProperties
<1> QED
  BY <1>1 DEF ToSet, Before

(* It stays in the rest, and the second is not the first of all.           *)
LEMMA BeforeTail ==
    ASSUME NEW S, NEW s \in Seq(S), s # <<>>, NEW x, NEW y, Before(s, x, y)
    PROVE  Before(Tail(s), x, y) /\ (Head(s) = y => x \notin ToSet(s))
<1>1. /\ Len(s) \in Nat \ {0} /\ DOMAIN s = 1..Len(s) /\ DOMAIN Tail(s) = 1..(Len(s) - 1)
      /\ Head(s) = s[1] /\ \A i \in 1..(Len(s) - 1) : Tail(s)[i] = s[i + 1]
  BY HeadTailProperties, LenProperties, EmptySeq
<1>2. Before(Tail(s), x, y)
  <2> SUFFICES ASSUME NEW i \in DOMAIN Tail(s), NEW j \in DOMAIN Tail(s), Tail(s)[i] = x, Tail(s)[j] = y PROVE i < j
    BY DEF Before
  <2>1. i + 1 \in DOMAIN s /\ j + 1 \in DOMAIN s /\ s[i + 1] = x /\ s[j + 1] = y
    BY <1>1
  <2>2. i + 1 < j + 1
    BY <2>1 DEF Before
  <2> QED
    BY <1>1, <2>2
<1>3. ASSUME Head(s) = y, NEW i \in DOMAIN s, s[i] = x PROVE FALSE
  <2>1. i < 1
    BY <1>1, <1>3 DEF Before
  <2> QED
    BY <1>1, <2>1
<1> QED
  BY <1>2, <1>3 DEF ToSet

(* It stays when steps other than the first are queued. *)
LEMMA BeforeConcat ==
    ASSUME NEW S, NEW t \in Seq(S), NEW s \in Seq(S), NEW x, NEW y, Before(t, x, y), x \notin ToSet(s)
    PROVE  Before(t \o s, x, y)
<1> SUFFICES ASSUME NEW i \in DOMAIN (t \o s), NEW j \in DOMAIN (t \o s), (t \o s)[i] = x, (t \o s)[j] = y PROVE i < j
  BY DEF Before
<1>1. i <= Len(t)
  <2>1. CASE ~(i <= Len(t))
    <3>1. i - Len(t) \in DOMAIN s /\ s[i - Len(t)] = x
      BY <2>1, ConcatAt
    <3> QED
      BY <3>1 DEF ToSet
  <2> QED
    BY <2>1
<1>2. CASE j <= Len(t)
  <2>1. i \in DOMAIN t /\ j \in DOMAIN t /\ t[i] = x /\ t[j] = y
    BY <1>1, <1>2, ConcatAt
  <2> QED
    BY <2>1 DEF Before
<1>3. CASE ~(j <= Len(t))
  BY <1>1, <1>3, ConcatAt
<1> QED
  BY <1>2, <1>3

(* Short sequences. *)
LEMMA SetTuples ==
    /\ ToSet(<<>>) = {}
    /\ \A S : <<>> \in Seq(S)
    /\ \A x : ToSet(<<x>>) = {x} /\ \A S : x \in S => <<x>> \in Seq(S)
    /\ \A x, y : ToSet(<<x, y>>) = {x, y} /\ \A S : x \in S /\ y \in S => <<x, y>> \in Seq(S)
    /\ \A x, y, z : ToSet(<<x, y, z>>) = {x, y, z} /\ \A S : x \in S /\ y \in S /\ z \in S => <<x, y, z>> \in Seq(S)
<1>1. ToSet(<<>>) = {} /\ \A S : <<>> \in Seq(S)
  BY EmptySeq DEF ToSet
<1>2. ASSUME NEW x PROVE ToSet(<<x>>) = {x} /\ \A S : x \in S => <<x>> \in Seq(S)
  BY DEF ToSet
<1>3. ASSUME NEW x, NEW y PROVE ToSet(<<x, y>>) = {x, y} /\ \A S : x \in S /\ y \in S => <<x, y>> \in Seq(S)
  <2>1. DOMAIN <<x, y>> = {1, 2} /\ <<x, y>>[1] = x /\ <<x, y>>[2] = y
    OBVIOUS
  <2> QED
    BY <2>1 DEF ToSet
<1>4. ASSUME NEW x, NEW y, NEW z
      PROVE ToSet(<<x, y, z>>) = {x, y, z} /\ \A S : x \in S /\ y \in S /\ z \in S => <<x, y, z>> \in Seq(S)
  <2>1. DOMAIN <<x, y, z>> = {1, 2, 3} /\ <<x, y, z>>[1] = x /\ <<x, y, z>>[2] = y /\ <<x, y, z>>[3] = z
    OBVIOUS
  <2> QED
    BY <2>1 DEF ToSet
<1> QED
  BY <1>1, <1>2, <1>3, <1>4

(* What is in none of a sequence's steps is there once at most. *)
LEMMA OnceAbsent ==
    ASSUME NEW s, NEW x, x \notin ToSet(s)
    PROVE  Once(s, x)
BY DEF Once, ToSet

(* The order of what is not there. *)
LEMMA BeforeAbsent ==
    ASSUME NEW s, NEW x, NEW y, x \notin ToSet(s) \/ y \notin ToSet(s)
    PROVE  Before(s, x, y)
BY DEF Before, ToSet

(* A finite set of steps, put in some order, has each of them once. *)
LEMMA SetToSeqOnce ==
    ASSUME NEW S, IsFiniteSet(S)
    PROVE  /\ SetToSeq(S) \in Seq(S) /\ ToSet(SetToSeq(S)) \subseteq S
           /\ \A x : Once(SetToSeq(S), x)
<1>1. Cardinality(S) \in Nat /\ \E f \in [1..Cardinality(S) -> S] : IsInjective(f)
  BY FS_CardinalityType DEF ExistsBijection, Bijection, Injection, IsInjective
<1>2. SetToSeq(S) \in [1..Cardinality(S) -> S] /\ IsInjective(SetToSeq(S))
  BY <1>1 DEF SetToSeq
<1>3. SetToSeq(S) \in Seq(S)
  BY <1>1, <1>2, SeqDef
<1> QED
  BY <1>2, <1>3 DEF ToSet, Once, IsInjective

-------------------------------------------------------------------------------
(* Steps and tasks *)

(* The names of the threads are told apart. *)
LEMMA Names == Main \notin Io /\ None \notin Conn /\ None \notin Io /\ Main # None
BY TcpServerAssumption

(* Do makes a step. *)
LEMMA DoStep ==
    ASSUME NEW op \in IoOp \cup StopOp \cup PlainMainOp \cup QueueOp, NEW c \in Conn \cup {None}
    PROVE  Do(op, c) \in Step /\ Do(op, c).op = op /\ Do(op, c).conn = c
BY DEF Do, Step

(* A step is known by its operation and its connection. *)
LEMMA StepIs ==
    ASSUME NEW x \in Step
    PROVE  x = Do(x.op, x.conn)
BY DEF Do, Step

(* The step an IO thread is at. *)
LEMMA HeadStep ==
    ASSUME ScriptInv, NEW l \in Io, script[l] # <<>>
    PROVE  /\ script[l] \in Seq(Step) /\ Head(script[l]) \in Step /\ Head(script[l]) \in ToSet(script[l])
           /\ IoStep(l, Head(script[l])) /\ Head(script[l]) = Do(Head(script[l]).op, Cur(l))
<1>1. l \in Thread /\ script[l] \in Seq(Step)
  BY DEF Thread, ScriptInv
<1>2. Head(script[l]) \in Step /\ Head(script[l]) \in ToSet(script[l])
  BY <1>1, SetTail
<1> QED
  BY <1>1, <1>2, StepIs DEF ScriptInv, Cur

(* What replaces the step a thread is at is all that its script gets. *)
LEMMA ThenSet ==
    ASSUME script \in [Thread -> Seq(Step)], NEW t \in Thread, script[t] # <<>>, NEW steps \in Seq(Step), Then(t, steps)
    PROVE  /\ script' \in [Thread -> Seq(Step)]
           /\ script'[t] = steps \o Tail(script[t])
           /\ ToSet(script'[t]) = ToSet(steps) \cup ToSet(Tail(script[t]))
           /\ ToSet(script[t]) = {Head(script[t])} \cup ToSet(Tail(script[t]))
           /\ \A k \in Thread : k # t => script'[k] = script[k]
<1>1. script[t] \in Seq(Step)
  OBVIOUS
<1>2. Tail(script[t]) \in Seq(Step) /\ ToSet(script[t]) = {Head(script[t])} \cup ToSet(Tail(script[t]))
  BY <1>1, SetTail
<1>3. steps \o Tail(script[t]) \in Seq(Step) /\ ToSet(steps \o Tail(script[t])) = ToSet(steps) \cup ToSet(Tail(script[t]))
  BY <1>2, SetConcat, ZenonT(30)
<1>4. script' = [script EXCEPT ![t] = steps \o Tail(script[t])]
  BY DEF Then
<1> QED
  BY <1>2, <1>3, <1>4

(* It keeps the script good. *)
LEMMA ThenScript ==
    ASSUME ScriptInv, NEW t \in Thread, script[t] # <<>>, NEW steps \in Seq(Step), Then(t, steps), loopOf' = loopOf,
           t \in Io => \A x \in ToSet(steps) : IoStep(t, x)
    PROVE  ScriptInv'
<1>1. script \in [Thread -> Seq(Step)]
  BY DEF ScriptInv
<1>2. \A l \in Io : \A x \in ToSet(script'[l]) : IoStep(l, x)
  <2> SUFFICES ASSUME NEW l \in Io, NEW x \in ToSet(script'[l]) PROVE IoStep(l, x)
    OBVIOUS
  <2>1. CASE l = t
    BY <1>1, <2>1, ThenSet DEF ScriptInv
  <2>2. CASE l # t
    BY <1>1, <2>2, ThenSet DEF ScriptInv, Thread
  <2> QED
    BY <2>1, <2>2
<1> QED
  BY <1>1, <1>2, ThenSet DEF ScriptInv, IoStep

(* What a sequence keeps of a step. *)
Same(s, t, x) == (x \in ToSet(s) <=> x \in ToSet(t)) /\ (Once(s, x) => Once(t, x))

(* Steps that are neither taken out nor put in stay as they are.           *)
LEMMA ThenSame ==
    ASSUME script \in [Thread -> Seq(Step)], NEW t \in Thread, script[t] # <<>>, NEW steps \in Seq(Step), Then(t, steps),
           NEW x, x # Head(script[t]), x \notin ToSet(steps)
    PROVE  \A k \in Thread : Same(script[k], script'[k], x)
<1>1. Same(script[t], script'[t], x)
  <2>1. script[t] \in Seq(Step) /\ Tail(script[t]) \in Seq(Step)
    BY SetTail
  <2>2. Once(script[t], x) => Once(Tail(script[t]), x)
    BY <2>1, OnceTail
  <2>3. Once(steps, x)
    BY OnceAbsent
  <2>4. Once(script[t], x) => Once(script'[t], x)
    <3>1. script'[t] = steps \o Tail(script[t])
      BY ThenSet
    <3> QED
      BY <2>1, <2>2, <2>3, <3>1, OnceConcat
  <2> QED
    BY <2>4, ThenSet DEF Same
<1> QED
  BY <1>1, ThenSet DEF Same

(* A script that was empty. *)
LEMMA FreshSet ==
    ASSUME script \in [Thread -> Seq(Step)], NEW t \in Thread, NEW steps \in Seq(Step),
           script' = [script EXCEPT ![t] = steps]
    PROVE  /\ script' \in [Thread -> Seq(Step)] /\ script'[t] = steps
           /\ \A k \in Thread : k # t => script'[k] = script[k]
OBVIOUS

(* A new task at the end of a loop's queue. *)
LEMMA QueueSet ==
    ASSUME QueueInv, NEW l \in Io, NEW x \in Step, q' = [q EXCEPT ![l] = Append(@, x)]
    PROVE  /\ q' \in [Io -> Seq(Step)] /\ q'[l] = Append(q[l], x) /\ q[l] \in Seq(Step)
           /\ ToSet(q'[l]) = ToSet(q[l]) \cup {x}
           /\ \A k \in Io : k # l => q'[k] = q[k]
<1>1. q[l] \in Seq(Step)
  BY DEF QueueInv
<1>2. ToSet(Append(q[l], x)) = ToSet(q[l]) \cup {x} /\ Append(q[l], x) \in Seq(Step)
  BY <1>1, SetAppend
<1> QED
  BY <1>1, <1>2 DEF QueueInv

(* A send that is queued leaves the other tasks as they are. *)
LEMMA SendQueued ==
    ASSUME QueueInv, NEW c \in Conn, loopOf[c] \in Io, Queue(c, "send"), loopOf' = loopOf
    PROVE  /\ QueueInv'
           /\ \A l \in Io : \A d \in Conn :
                 /\ \A op \in {"establish", "cleanup", "destroy"} : Same(q[l], q'[l], Do(op, d))
                 /\ Before(q[l], Establishment(d), CleanupOf(d)) => Before(q'[l], Establishment(d), CleanupOf(d))
<1>0. Do("send", c) \in Step /\ Do("send", c).op = "send" /\ Do("send", c).conn = c
  BY DoStep DEF IoOp
<1>1. q' = [q EXCEPT ![loopOf[c]] = Append(@, Do("send", c))]
  BY DEF Queue
<1>2. QueueInv'
  <2> SUFFICES ASSUME NEW l \in Io, NEW x \in ToSet(q'[l]) PROVE IoTask(l, x)'
    BY <1>0, <1>1, QueueSet DEF QueueInv
  <2>1. x \in ToSet(q[l]) \/ (l = loopOf[c] /\ x = Do("send", c))
    <3>1. CASE l = loopOf[c]
      <4>1. ToSet(q'[l]) = ToSet(q[l]) \cup {Do("send", c)}
        BY <1>0, <1>1, <3>1, QueueSet
      <4> QED
        BY <3>1, <4>1
    <3>2. CASE l # loopOf[c]
      BY <1>0, <1>1, <3>2, QueueSet
    <3> QED
      BY <3>1, <3>2
  <2> QED
    BY <1>0, <2>1 DEF QueueInv, IoTask, QueueOp
<1>3. ASSUME NEW l \in Io, NEW d \in Conn
      PROVE  /\ \A op \in {"establish", "cleanup", "destroy"} : Same(q[l], q'[l], Do(op, d))
             /\ Before(q[l], Establishment(d), CleanupOf(d)) => Before(q'[l], Establishment(d), CleanupOf(d))
  <2>1. CASE l # loopOf[c]
    <3>1. q'[l] = q[l]
      BY <1>0, <1>1, <2>1, QueueSet
    <3> QED
      BY <3>1 DEF Same
  <2>2. CASE l = loopOf[c]
    <3>1. q[l] \in Seq(Step) /\ q'[l] = Append(q[l], Do("send", c)) /\ ToSet(q'[l]) = ToSet(q[l]) \cup {Do("send", c)}
      BY <1>0, <1>1, <2>2, QueueSet
    <3>2. ASSUME NEW op \in {"establish", "cleanup", "destroy"} PROVE Same(q[l], q'[l], Do(op, d))
      <4>1. Do(op, d) # Do("send", c)
        BY <1>0 DEF Do
      <4> QED
        BY <1>0, <3>1, <4>1, OnceAppend DEF Same
    <3>3. Establishment(d) # Do("send", c) /\ Establishment(d) # CleanupOf(d)
      BY DEF Do, Establishment, CleanupOf
    <3> QED
      BY <1>0, <3>1, <3>2, <3>3, BeforeAppend
  <2> QED
    BY <2>1, <2>2
<1> QED
  BY <1>2, <1>3

-------------------------------------------------------------------------------
(* What a step leaves as it is *)

Kept(c) ==
    /\ \A l \in Io : /\ Same(script[l], script'[l], Destruction(c)) /\ Same(script[l], script'[l], Removal(c))
                     /\ script'[l] = script[l] \/ script[l] = <<>> \/ Head(script[l]) # Do("close", c) \/ ~Connected(c)
                     /\ \A op \in {"establish", "cleanup", "destroy"} : Same(q[l], q'[l], Do(op, c))
                     /\ Before(q[l], Establishment(c), CleanupOf(c)) => Before(q'[l], Establishment(c), CleanupOf(c))
    /\ Same(mq, mq', Removal(c)) /\ Same(mbatch, mbatch', Removal(c))
    /\ state'[c] = state[c] /\ sock'[c] = sock[c] /\ closecb'[c] = closecb[c] /\ loopOf'[c] = loopOf[c]
    /\ c \in conns' <=> c \in conns
    /\ events'[c] # {} => events[c] # {} \/ Connected(c)
    /\ started' = started /\ dead' = dead

LifeOf(c) == StateOf(c) /\ RemoveOf(c) /\ SightOf(c) /\ \A l \in Io : EndOf(l, c)

(* The lives of all connections. *)
LEMMA Lives == LifeInv <=> \A c \in Conn : LifeOf(c)
BY DEF LifeInv, LifeOf

(* A connection of which all is kept lives on as before. *)
LEMMA KeptLife ==
    ASSUME NEW c \in Conn, LifeOf(c), Kept(c)
    PROVE  LifeOf(c)'
<1>1. StateOf(c)'
  BY DEF LifeOf, StateOf, Connected, Kept
<1>2. RemoveOf(c)'
  <2>1. RemoveOf(c)
    BY DEF LifeOf
  <2>2. /\ Removal(c) \in ToSet(mq') <=> Removal(c) \in ToSet(mq)
        /\ Removal(c) \in ToSet(mbatch') <=> Removal(c) \in ToSet(mbatch)
        /\ Once(mq', Removal(c)) /\ Once(mbatch', Removal(c))
    BY <2>1 DEF Kept, Same, RemoveOf
  <2>3. \A l \in Io : Removal(c) \in ToSet(script'[l]) <=> Removal(c) \in ToSet(script[l])
    BY DEF Kept, Same
  <2>4. \A l \in Io : Once(script'[l], Removal(c))
    BY <2>1 DEF Kept, Same, RemoveOf
  <2>5. state'[c] = state[c] /\ started' = started /\ (c \in conns' <=> c \in conns) /\ Removal(c)' = Removal(c)
    BY DEF Kept, Removal, Do
  <2> QED
    BY <2>1, <2>2, <2>3, <2>4, <2>5 DEF RemoveOf
<1>3. SightOf(c)'
  <2>1. SightOf(c)
    BY DEF LifeOf
  <2>2. \A l \in Io : /\ Destruction(c) \in ToSet(script'[l]) <=> Destruction(c) \in ToSet(script[l])
                      /\ Removal(c) \in ToSet(script'[l]) <=> Removal(c) \in ToSet(script[l])
    BY DEF Kept, Same
  <2>3. \A l \in Io : /\ CleanupOf(c) \in ToSet(q'[l]) <=> CleanupOf(c) \in ToSet(q[l])
                      /\ Destruction(c) \in ToSet(q'[l]) <=> Destruction(c) \in ToSet(q[l])
    BY DEF Kept, Same, CleanupOf, Destruction
  <2>4. /\ Removal(c) \in ToSet(mq') <=> Removal(c) \in ToSet(mq)
        /\ Removal(c) \in ToSet(mbatch') <=> Removal(c) \in ToSet(mbatch)
    BY DEF Kept, Same
  <2>5. state'[c] = state[c] /\ sock'[c] = sock[c] /\ closecb'[c] = closecb[c] /\ dead' = dead
    BY DEF Kept
  <2> QED
    BY <2>1, <2>2, <2>3, <2>4, <2>5 DEF SightOf, Ending, Removal, Destruction, CleanupOf, Do
<1>4. ASSUME NEW l \in Io PROVE EndOf(l, c)'
  <2>1. EndOf(l, c)
    BY DEF LifeOf
  <2>2. Same(script[l], script'[l], Destruction(c))
    BY DEF Kept
  <2>3. Same(q[l], q'[l], Establishment(c)) /\ Same(q[l], q'[l], CleanupOf(c)) /\ Same(q[l], q'[l], Destruction(c))
    BY DEF Kept, Establishment, CleanupOf, Destruction
  <2>4. Before(q'[l], Establishment(c), CleanupOf(c))
    BY <2>1 DEF Kept, EndOf
  <2>5. state'[c] = state[c] /\ sock'[c] = sock[c] /\ (c \in conns' <=> c \in conns)
    BY DEF Kept
  <2>6. Destruction(c) \in ToSet(script'[l]) /\ Connected(c) => script'[l] # <<>> /\ Head(script'[l]) = Do("close", c)
    <3> SUFFICES ASSUME Destruction(c) \in ToSet(script[l]), Connected(c)
                 PROVE  script'[l] # <<>> /\ Head(script'[l]) = Do("close", c)
      BY <2>2 DEF Same
    <3>1. script[l] # <<>> /\ Head(script[l]) = Do("close", c)
      BY <2>1 DEF EndOf
    <3>2. script'[l] = script[l]
      BY <3>1 DEF Kept
    <3> QED
      BY <3>1, <3>2
  <2>7. Connected(c)' <=> Connected(c)
    BY <2>5 DEF Connected
  <2> QED
    BY <2>1, <2>2, <2>3, <2>4, <2>5, <2>6, <2>7 DEF EndOf, Same, Establishment, CleanupOf, Destruction, Do
<1> QED
  BY <1>1, <1>2, <1>3, <1>4 DEF LifeOf

-------------------------------------------------------------------------------
(* Steps that neither open nor end a connection *)

QuietScript ==
    /\ ScriptInv'
    /\ \A l \in Io : \A c \in Conn : /\ Same(script[l], script'[l], Destruction(c))
                                     /\ Same(script[l], script'[l], Removal(c))
    /\ \A l \in Io : script'[l] = script[l] \/ script[l] = <<>> \/ Head(script[l]).op # "close"

QuietQueue ==
    /\ QueueInv'
    /\ \A l \in Io : \A c \in Conn :
          /\ \A op \in {"establish", "cleanup", "destroy"} : Same(q[l], q'[l], Do(op, c))
          /\ Before(q[l], Establishment(c), CleanupOf(c)) => Before(q'[l], Establishment(c), CleanupOf(c))

QuietMainQueue ==
    /\ MainQueueInv'
    /\ \A c \in Conn : Same(mq, mq', Removal(c)) /\ Same(mbatch, mbatch', Removal(c))

QuietConn ==
    /\ UNCHANGED <<conns, started, dead, loopOf, state, sock, closecb, bad>>
    /\ \A c \in Conn : events'[c] # {} => events[c] # {} \/ Connected(c)
    /\ zombie \subseteq zombie'
    /\ \A c \in Registered' : c \in Registered \/ Connected(c) \/ c \in zombie'

Quiet == QuietScript /\ QuietQueue /\ QuietMainQueue /\ QuietConn

(* They keep the invariant, if they keep the types and the main script.    *)
LEMMA QuietInv ==
    ASSUME IInv, Quiet, TypeInv', MainInv'
    PROVE  IInv'
<1> USE DEF Quiet
<1>1. Shape'
  BY DEF Shape, QuietScript, QuietQueue, QuietMainQueue
<1>2. ASSUME NEW c \in Conn PROVE LifeOf(c)'
  <2>1. LifeOf(c)
    BY Lives DEF IInv
  <2>2. \A l \in Io : script'[l] = script[l] \/ script[l] = <<>> \/ Head(script[l]) # Do("close", c)
    BY DEF QuietScript, Do
  <2>3. \A l \in Io : Same(script[l], script'[l], Destruction(c)) /\ Same(script[l], script'[l], Removal(c))
    BY DEF QuietScript
  <2>4. \A l \in Io : /\ \A op \in {"establish", "cleanup", "destroy"} : Same(q[l], q'[l], Do(op, c))
                      /\ Before(q[l], Establishment(c), CleanupOf(c)) => Before(q'[l], Establishment(c), CleanupOf(c))
    BY DEF QuietQueue
  <2>5. Kept(c)
    BY <2>2, <2>3, <2>4 DEF Kept, QuietMainQueue, QuietConn
  <2> QED
    BY <2>1, <2>5, KeptLife
<1>3. LifeInv'
  BY <1>2 DEF LifeInv, LifeOf
<1>6. RegistryInv'
  <2> SUFFICES ASSUME NEW c \in Registered' PROVE Connected(c)' \/ c \in zombie' \/ \E l \in Io : Removal(c) \in ToSet(script'[l])
    BY DEF RegistryInv, Removal, Do
  <2>1. c \in Conn
    BY Names DEF Registered, TypeInv
  <2>2. Connected(c)' <=> Connected(c)
    BY DEF Connected, QuietConn
  <2>3. CASE c \in Registered
    <3>1. Connected(c) \/ c \in zombie \/ \E l \in Io : Removal(c) \in ToSet(script[l])
      BY <2>3 DEF IInv, RegistryInv
    <3>2. \A l \in Io : Removal(c) \in ToSet(script[l]) => Removal(c) \in ToSet(script'[l])
      BY <2>1 DEF QuietScript, Same
    <3> QED
      BY <2>2, <3>1, <3>2 DEF QuietConn
  <2>4. CASE c \notin Registered
    BY <2>2, <2>4 DEF QuietConn
  <2> QED
    BY <2>3, <2>4
<1>7. SocketSafe'
  BY DEF IInv, SocketSafe, QuietConn
<1> QED
  BY <1>1, <1>3, <1>6, <1>7 DEF IInv

(* A step of an IO thread's script that is not one of the last.            *)
LEMMA ThenQuiet ==
    ASSUME ScriptInv, NEW t \in Thread, script[t] # <<>>, NEW steps \in Seq(Step), Then(t, steps), loopOf' = loopOf,
           t \in Io => /\ Head(script[t]).op \notin {"close", "destroy", "remove"}
                       /\ \A x \in ToSet(steps) : IoStep(t, x) /\ x.op \notin {"destroy", "remove"}
    PROVE  QuietScript
<1>1. ScriptInv'
  BY ThenScript
<1>2. script \in [Thread -> Seq(Step)]
  BY DEF ScriptInv
<1>3. CASE t \in Io
  <2>1. ASSUME NEW c \in Conn, NEW op \in {"destroy", "remove"} PROVE \A k \in Thread : Same(script[k], script'[k], Do(op, c))
    <3>1. Do(op, c) # Head(script[t]) /\ Do(op, c) \notin ToSet(steps)
      BY <1>3 DEF Do
    <3> QED
      BY <1>2, <3>1, ThenSame
  <2>2. \A l \in Io : script'[l] = script[l] \/ Head(script[l]).op # "close"
    BY <1>2, <1>3, ThenSet DEF Thread
  <2> QED
    BY <1>1, <2>1, <2>2 DEF QuietScript, Destruction, Removal, Thread
<1>4. CASE t \notin Io
  <2>1. \A l \in Io : script'[l] = script[l]
    BY <1>2, <1>4, ThenSet DEF Thread
  <2> QED
    BY <1>1, <2>1 DEF QuietScript, Same
<1> QED
  BY <1>3, <1>4

(* What is left alone is quiet. *)
LEMMA QuietSame ==
    ASSUME Shape
    PROVE  /\ UNCHANGED <<script, loopOf>> => QuietScript
           /\ UNCHANGED <<q, loopOf>> => QuietQueue
           /\ UNCHANGED <<mq, mbatch>> => QuietMainQueue
<1>1. UNCHANGED <<script, loopOf>> => QuietScript
  BY DEF Shape, ScriptInv, QuietScript, Same, IoStep
<1>2. UNCHANGED <<q, loopOf>> => QuietQueue
  BY DEF Shape, QueueInv, QuietQueue, Same, IoTask
<1>3. UNCHANGED <<mq, mbatch>> => QuietMainQueue
  BY DEF Shape, MainQueueInv, QuietMainQueue, Same, MainStepOf
<1> QED
  BY <1>1, <1>2, <1>3

(* The main script does not mind what other threads do.                    *)
LEMMA MainFrame ==
    ASSUME MainInv, UNCHANGED <<signalled, started, dead, mstop>>, script'[Main] = script[Main],
           \A x \in ToSet(mq') \cup ToSet(mbatch') : x.op = "stop" => x \in ToSet(mq) \cup ToSet(mbatch)
    PROVE  MainInv'
<1>1. PICK n \in 0..3 : Stopping(n)
  BY DEF MainInv
<1>2. Stopping(n)'
  BY <1>1 DEF Stopping, MainScript
<1> QED
  BY <1>2 DEF MainInv

-------------------------------------------------------------------------------
(* An IO thread's steps *)

(* The steps that handlers and callbacks put on an IO thread's script.     *)
GoodStep(l, x) == x \in Step /\ IoStep(l, x) /\ x.op \notin {"destroy", "remove"}
GoodSteps(l, steps) == steps \in Seq(Step) /\ \A x \in ToSet(steps) : GoodStep(l, x)

(* Short sequences of them. *)
LEMMA GoodTuples ==
    ASSUME NEW l
    PROVE  /\ GoodSteps(l, <<>>)
           /\ \A x : GoodStep(l, x) => GoodSteps(l, <<x>>)
           /\ \A x, y : GoodStep(l, x) /\ GoodStep(l, y) => GoodSteps(l, <<x, y>>)
           /\ \A x, y, z : GoodStep(l, x) /\ GoodStep(l, y) /\ GoodStep(l, z) => GoodSteps(l, <<x, y, z>>)
<1>1. GoodSteps(l, <<>>)
  BY SetTuples DEF GoodSteps
<1>2. ASSUME NEW x, GoodStep(l, x) PROVE GoodSteps(l, <<x>>)
  <2>1. ToSet(<<x>>) = {x} /\ <<x>> \in Seq(Step)
    BY <1>2, SetTuples DEF GoodStep
  <2> QED
    BY <1>2, <2>1 DEF GoodSteps
<1>3. ASSUME NEW x, NEW y, GoodStep(l, x), GoodStep(l, y) PROVE GoodSteps(l, <<x, y>>)
  <2>1. ToSet(<<x, y>>) = {x, y} /\ <<x, y>> \in Seq(Step)
    BY <1>3, SetTuples DEF GoodStep
  <2> QED
    BY <1>3, <2>1 DEF GoodSteps
<1>4. ASSUME NEW x, NEW y, NEW z, GoodStep(l, x), GoodStep(l, y), GoodStep(l, z) PROVE GoodSteps(l, <<x, y, z>>)
  <2>1. ToSet(<<x, y, z>>) = {x, y, z} /\ <<x, y, z>> \in Seq(Step)
    BY <1>4, SetTuples DEF GoodStep
  <2> QED
    BY <1>4, <2>1 DEF GoodSteps
<1> QED
  BY <1>1, <1>2, <1>3, <1>4

(* A plain step of an IO thread that leaves the server alone.              *)
LEMMA IoPlain ==
    ASSUME IInv, NEW l \in Io, script[l] # <<>>, Head(script[l]).op \notin {"close", "destroy", "remove"},
           NEW steps, GoodSteps(l, steps), Then(l, steps), UNCHANGED <<mainVars, dead, mq, active>>, QuietQueue, QuietConn, TypeInv'
    PROVE  IInv'
<1>1. QuietScript
  BY ThenQuiet DEF IInv, Shape, QuietConn, Thread, GoodSteps, GoodStep
<1>2. QuietMainQueue
  BY QuietSame DEF IInv, mainVars
<1>3. script'[Main] = script[Main]
  BY ThenSet, Names DEF IInv, Shape, ScriptInv, Thread, GoodSteps
<1>4. MainInv'
  BY <1>3, MainFrame DEF IInv, mainVars
<1> QED
  BY <1>1, <1>2, <1>4, QuietInv DEF Quiet

(* What an IO thread at one of its own steps knows. *)
LEMMA OwnStep ==
    ASSUME IInv, NEW l \in Io, NEW op \in OwnOp, At(l, op)
    PROVE  /\ Cur(l) \in Conn /\ loopOf[Cur(l)] = l /\ script[l] # <<>> /\ Head(script[l]).op = op
           /\ Head(script[l]) = Do(op, Cur(l)) /\ StateOf(Cur(l)) /\ RemoveOf(Cur(l)) /\ SightOf(Cur(l)) /\ EndOf(l, Cur(l))
<1>1. script[l] # <<>> /\ Head(script[l]).op = op
  BY DEF At
<1>2. IoStep(l, Head(script[l])) /\ Head(script[l]) = Do(Head(script[l]).op, Cur(l))
  BY <1>1, HeadStep DEF IInv, Shape
<1>3. Cur(l) \in Conn /\ loopOf[Cur(l)] = l
  BY <1>1, <1>2 DEF IoStep, Cur, OwnOp
<1> QED
  BY <1>1, <1>2, <1>3 DEF IInv, LifeInv

(* A connection that is connected has an open socket. *)
LEMMA UseOpen ==
    ASSUME IInv, NEW c \in Conn, Connected(c) \/ Waiting(c), Use(c)
    PROVE  bad' = bad /\ sock[c] = "open"
<1>1. StateOf(c)
  BY DEF IInv, LifeInv
<1>2. sock[c] = "open"
  BY <1>1 DEF StateOf, Waiting
<1> QED
  BY <1>2 DEF Use

(* The steps that are put on a script are good steps. *)
LEMMA OwnSteps ==
    ASSUME NEW l \in Io, NEW c \in Conn, loopOf[c] = l, NEW op \in OwnOp \cup {"send"}
    PROVE  /\ Do(op, c) \in Step /\ IoStep(l, Do(op, c)) /\ Do(op, c).op = op
           /\ op \notin {"destroy", "remove"} => GoodStep(l, Do(op, c))
BY DoStep DEF IoStep, IoOp, OwnOp, GoodStep

(* Polling changes nothing but what is ready. *)
LEMMA PollInv ==
    ASSUME IInv, NEW l \in Io, Poll(l)
    PROVE  IInv'
<1>1. TypeInv'
  BY DEF IInv, Shape, TypeInv, Poll, mainVars, connVars, wsVars
<1>2. QuietScript /\ QuietQueue /\ QuietMainQueue
  BY QuietSame DEF IInv, Poll, connVars, mainVars
<1>3. QuietConn
  BY DEF Poll, mainVars, connVars, wsVars, QuietConn, Registered
<1>4. MainInv'
  BY MainFrame DEF IInv, Poll, mainVars
<1> QED
  BY <1>1, <1>2, <1>3, <1>4, QuietInv DEF Quiet

(* Handling an event puts the callbacks of its channel on the script. *)
LEMMA HandleEventInv ==
    ASSUME IInv, NEW l \in Io, HandleEvent(l)
    PROVE  IInv'
<1>1. PICK c \in active[l] : /\ active' = [active EXCEPT ![l] = @ \ {c}]
                             /\ \E steps \in Callbacks(c) : script' = [script EXCEPT ![l] = steps]
  BY DEF HandleEvent
<1>2. PICK steps \in Callbacks(c) : script' = [script EXCEPT ![l] = steps]
  BY <1>1
<1>3. c \in Conn /\ loopOf[c] = l /\ l \in Thread /\ script[l] = <<>>
  BY DEF IInv, Shape, TypeInv, Thread, HandleEvent
<1>4. GoodStep(l, Do("close", c)) /\ GoodStep(l, Do("read", c)) /\ GoodStep(l, Do("write", c))
  BY <1>3, OwnSteps DEF OwnOp
<1>5. GoodSteps(l, steps)
  BY <1>4, GoodTuples DEF Callbacks
<1>6. steps \in Seq(Step) /\ \A x \in ToSet(steps) : IoStep(l, x) /\ x.op \notin {"destroy", "remove"}
  BY <1>5 DEF GoodSteps, GoodStep
<1>7. /\ script' \in [Thread -> Seq(Step)] /\ script'[l] = steps
      /\ \A k \in Thread : k # l => script'[k] = script[k]
  BY <1>2, <1>3, <1>6 DEF IInv, Shape, ScriptInv
<1>8. loopOf' = loopOf
  BY DEF HandleEvent, connVars
<1>9. QuietScript
  <2>1. ScriptInv'
    <3> SUFFICES ASSUME NEW k \in Io, NEW x \in ToSet(script'[k]) PROVE IoStep(k, x)
      BY <1>7, <1>8 DEF ScriptInv, IoStep
    <3> QED
      BY <1>6, <1>7 DEF IInv, Shape, ScriptInv, Thread
  <2>2. ASSUME NEW k \in Io, NEW d \in Conn, NEW op \in {"destroy", "remove"} PROVE Same(script[k], script'[k], Do(op, d))
    <3>1. CASE k = l
      <4>1. Do(op, d) \notin ToSet(script[k]) /\ Do(op, d) \notin ToSet(script'[k])
        BY <1>3, <1>6, <1>7, <3>1, SetTuples DEF Do
      <4> QED
        BY <4>1, OnceAbsent DEF Same
    <3>2. CASE k # l
      BY <1>7, <3>2 DEF Same, Thread
    <3> QED
      BY <3>1, <3>2
  <2>3. \A k \in Io : script'[k] = script[k] \/ script[k] = <<>>
    BY <1>3, <1>7 DEF Thread
  <2> QED
    BY <2>1, <2>2, <2>3 DEF QuietScript, Destruction, Removal
<1>10. TypeInv'
  BY <1>1 DEF IInv, Shape, TypeInv, HandleEvent, mainVars, connVars, wsVars
<1>11. QuietQueue /\ QuietMainQueue
  BY QuietSame DEF IInv, HandleEvent, connVars, mainVars
<1>12. QuietConn
  BY DEF HandleEvent, mainVars, connVars, wsVars, QuietConn, Registered
<1>13. MainInv'
  BY <1>3, <1>7, MainFrame, Names DEF IInv, HandleEvent, mainVars, Thread
<1> QED
  BY <1>9, <1>10, <1>11, <1>12, <1>13, QuietInv DEF Quiet

(* Reading leaves the connection as it is, and its handler to come. *)
LEMMA ReadInv ==
    ASSUME IInv, NEW l \in Io, Read(l)
    PROVE  IInv'
<1>1. PICK c \in Conn : c = Cur(l)
  BY OwnStep DEF Read, OwnOp
<1>2. loopOf[c] = l /\ script[l] # <<>> /\ Head(script[l]).op = "read"
  BY <1>1, OwnStep DEF Read, OwnOp
<1>3. /\ GoodStep(l, Do("close", c)) /\ GoodStep(l, Do("respond", c)) /\ GoodStep(l, Do("send", c))
      /\ GoodStep(l, Do("reg_metrics", c)) /\ GoodStep(l, Do("reg_session", c))
  BY <1>2, OwnSteps DEF OwnOp
<1>4. GoodStep(l, Does("push"))
  BY DoStep DEF Does, IoStep, IoOp, OwnOp, GoodStep
<1>5. \E steps : GoodSteps(l, steps) /\ Then(l, steps)
  <2>1. CASE Then(l, <<>>)
    BY <2>1, GoodTuples
  <2>2. CASE Then(l, <<Do("close", c)>>)
    BY <2>2, <1>3, GoodTuples
  <2>3. ASSUME NEW steps \in Handlers(c) PROVE GoodSteps(l, steps)
    BY <1>3, <1>4, <2>3, GoodTuples DEF Handlers
  <2> QED
    BY <1>1, <2>1, <2>2, <2>3 DEF Read
<1>6. bad' = bad
  BY <1>1, UseOpen DEF Read
<1>7. TypeInv'
  BY DEF IInv, Shape, TypeInv, Read, mainVars, connVars, wsVars
<1>8. QuietQueue
  BY QuietSame DEF IInv, Read, connVars
<1>9. QuietConn
  BY <1>6 DEF Read, mainVars, connVars, wsVars, QuietConn, Registered
<1> QED
  BY <1>2, <1>5, <1>7, <1>8, <1>9, IoPlain DEF Read

(* What send does, in the connection's own loop or in another thread.      *)
LEMMA SendsCases ==
    ASSUME IInv, NEW t \in Thread, NEW c \in Conn, NEW callback, Sends(t, c, callback), UNCHANGED <<loopOf, state>>
    PROVE  /\ Then(t, <<>>) \/ (loopOf[c] = t /\ Then(t, <<Do("close", c)>>))
           /\ QuietQueue
           /\ bad' = bad
           /\ events' = events \/ (Connected(c) /\ events' = [events EXCEPT ![c] = @ \cup {"w"}])
<1>1. Then(t, <<>>) \/ (loopOf[c] = t /\ Then(t, <<Do("close", c)>>))
  BY DEF Sends, WriteComplete
<1>2. QuietQueue
  <2>1. CASE UNCHANGED q
    BY <2>1, QuietSame DEF IInv
  <2>2. CASE Connected(c) /\ Queue(c, "send")
    <3>1. loopOf[c] \in Io
      BY <2>2 DEF IInv, Shape, TypeInv, LifeInv, StateOf, Connected
    <3> QED
      BY <2>2, <3>1, SendQueued DEF IInv, Shape, QuietQueue
  <2> QED
    BY <2>1, <2>2 DEF Sends
<1>3. bad' = bad
  BY UseOpen DEF Sends
<1>4. events' = events \/ (Connected(c) /\ events' = [events EXCEPT ![c] = @ \cup {"w"}])
  BY DEF Sends
<1> QED
  BY <1>1, <1>2, <1>3, <1>4

(* Sending in an IO thread. *)
LEMMA IoSends ==
    ASSUME IInv, NEW l \in Io, script[l] # <<>>, Head(script[l]).op \in {"send", "respond"}, NEW c \in Conn, NEW callback,
           Sends(l, c, callback),
           UNCHANGED <<mainVars, cleaning, dead, mq, active, loopOf, state, sock, closecb, ctx, wsVars>>
    PROVE  IInv'
<1>0. l \in Thread
  BY DEF Thread
<1>1. /\ Then(l, <<>>) \/ (loopOf[c] = l /\ Then(l, <<Do("close", c)>>))
      /\ QuietQueue /\ bad' = bad
      /\ events' = events \/ (Connected(c) /\ events' = [events EXCEPT ![c] = @ \cup {"w"}])
  BY <1>0, SendsCases
<1>2. \E steps : GoodSteps(l, steps) /\ Then(l, steps)
  <2>1. CASE Then(l, <<>>)
    BY <2>1, GoodTuples
  <2>2. CASE loopOf[c] = l /\ Then(l, <<Do("close", c)>>)
    <3>1. GoodStep(l, Do("close", c))
      BY <2>2, OwnSteps DEF OwnOp
    <3> QED
      BY <2>2, <3>1, GoodTuples
  <2> QED
    BY <1>1, <2>1, <2>2
<1>3. TypeInv'
  BY <1>1 DEF IInv, Shape, TypeInv, mainVars, wsVars
<1>4. QuietConn
  BY <1>1 DEF IInv, Shape, TypeInv, mainVars, wsVars, QuietConn, Registered
<1> QED
  BY <1>1, <1>2, <1>3, <1>4, IoPlain

(* A send of a frame or of a response. *)
LEMMA SendInv ==
    ASSUME IInv, NEW l \in Io, Send(l) \/ Respond(l)
    PROVE  IInv'
<1>1. CASE Send(l)
  <2>1. script[l] # <<>> /\ Head(script[l]).op = "send"
    BY <1>1 DEF Send, At
  <2>2. Cur(l) \in Conn
    BY <2>1, HeadStep DEF IInv, Shape, IoStep, Cur
  <2> QED
    BY <1>1, <2>1, <2>2, IoSends DEF Send
<1>2. CASE Respond(l)
  <2>1. script[l] # <<>> /\ Head(script[l]).op = "respond"
    BY <1>2 DEF Respond, At
  <2>2. Cur(l) \in Conn
    BY <2>1, HeadStep DEF IInv, Shape, IoStep, Cur
  <2>3. PICK callback \in {"none", "close"} : Sends(l, Cur(l), callback)
    BY <1>2 DEF Respond
  <2> QED
    BY <1>2, <2>1, <2>2, <2>3, IoSends DEF Respond
<1> QED
  BY <1>1, <1>2

(* Writing what was left. *)
LEMMA WriteInv ==
    ASSUME IInv, NEW l \in Io, Write(l)
    PROVE  IInv'
<1>1. PICK c \in Conn : c = Cur(l)
  BY OwnStep DEF Write, OwnOp
<1>2. loopOf[c] = l /\ script[l] # <<>> /\ Head(script[l]).op = "write" /\ StateOf(c)
  BY <1>1, OwnStep DEF Write, OwnOp
<1>3. GoodStep(l, Do("close", c))
  BY <1>2, OwnSteps DEF OwnOp
<1>4. Then(l, <<>>) \/ Then(l, <<Do("close", c)>>)
  BY <1>1 DEF Write, WriteComplete
<1>5. \E steps : GoodSteps(l, steps) /\ Then(l, steps)
  BY <1>3, <1>4, GoodTuples
<1>6. bad' = bad
  BY <1>1, UseOpen DEF Write
<1>7. events' = events \/ (Waiting(c) /\ events' = [events EXCEPT ![c] = @ \ {"w"}])
  BY <1>1 DEF Write
<1>8. TypeInv'
  BY <1>7 DEF IInv, Shape, TypeInv, Write, mainVars, wsVars
<1>9. QuietQueue
  BY QuietSame DEF IInv, Write
<1>10. QuietConn
  BY <1>6, <1>7 DEF IInv, Shape, TypeInv, Write, mainVars, wsVars, QuietConn, Registered
<1> QED
  BY <1>2, <1>5, <1>8, <1>9, <1>10, IoPlain DEF Write

(* Setting a promise, registering, pushing and unlocking. *)
LEMMA RegistryStepInv ==
    ASSUME IInv, NEW l \in Io, Promise(l) \/ Register(l) \/ Push(l) \/ Unlock(l)
    PROVE  IInv'
<1>1. script[l] # <<>> /\ Head(script[l]).op \in {"promise", "reg_metrics", "reg_session", "push", "unlock"}
  BY DEF Promise, Register, Push, Unlock, At
<1>2. UNCHANGED <<mainVars, dead, mq, q, active, loopOf, state, sock, events, closecb, bad>>
  BY DEF Promise, Register, Push, Unlock, connVars
<1>3. QuietQueue
  BY <1>2, QuietSame DEF IInv
<1>4. \E steps : GoodSteps(l, steps) /\ Then(l, steps)
  <2>1. CASE Then(l, <<>>)
    BY <2>1, GoodTuples
  <2>2. CASE session # None /\ Then(l, <<Do("send", session), Does("unlock")>>)
    <3>1. session \in Conn
      BY <2>2 DEF IInv, Shape, TypeInv
    <3>2. /\ Do("send", session) \in Step /\ Do("send", session).op = "send" /\ Do("send", session).conn = session
          /\ Does("unlock") \in Step /\ Does("unlock").op = "unlock"
      BY <3>1, DoStep DEF IoOp, Does
    <3>3. GoodStep(l, Do("send", session)) /\ GoodStep(l, Does("unlock"))
      BY <3>1, <3>2 DEF IoStep, IoOp, OwnOp, GoodStep
    <3> QED
      BY <2>2, <3>3, GoodTuples
  <2> QED
    BY <2>1, <2>2 DEF Promise, Register, Push, Unlock
<1>5. CASE Register(l)
  <2>1. PICK c \in Conn : c = Cur(l)
    BY <1>5, OwnStep DEF Register, OwnOp
  <2>2. /\ zombie' = IF Connected(c) THEN zombie ELSE zombie \cup {c}
        /\ metrics' \in {metrics, metrics \cup {c}} /\ session' \in {session, c}
    BY <1>5, <2>1 DEF Register
  <2>3. TypeInv'
    BY <1>2, <2>2 DEF IInv, Shape, TypeInv, mainVars
  <2>4. zombie \subseteq zombie' /\ \A d \in Registered' : d \in Registered \/ Connected(d) \/ d \in zombie'
    BY <2>2 DEF Registered
  <2>5. QuietConn
    BY <1>2, <2>4 DEF mainVars, QuietConn
  <2> QED
    BY <1>1, <1>2, <1>3, <1>4, <2>3, <2>5, IoPlain
<1>6. CASE UNCHANGED <<metrics, session, zombie>>
  <2>1. TypeInv'
    BY <1>2, <1>6 DEF IInv, Shape, TypeInv, mainVars
  <2>2. QuietConn
    BY <1>2, <1>6 DEF mainVars, QuietConn, Registered
  <2> QED
    BY <1>1, <1>2, <1>3, <1>4, <2>1, <2>2, IoPlain
<1> QED
  BY <1>5, <1>6 DEF Promise, Push, Unlock, wsVars

-------------------------------------------------------------------------------
(* The main thread's steps *)

(* The main thread takes the first step off its script. *)
LEMMA PopMain ==
    ASSUME NEW s \in Seq(Step), s # <<>>, NEW n \in 0..3, MainScript(s, n)
    PROVE  /\ MainScript(Tail(s), IF n = 0 THEN 0 ELSE n - 1)
           /\ n = 0 => Head(s).op \in PlainMainOp /\ (Head(s).op = "send" => Head(s).conn \in Conn)
           /\ n = 1 => Head(s).op = "reset"
           /\ n = 2 => Head(s).op = "wait"
           /\ n = 3 => Head(s).op = "stop"
<1>1. /\ Len(s) \in Nat \ {0} /\ Head(s) = s[1] /\ Len(Tail(s)) = Len(s) - 1
      /\ \A i \in 1..(Len(s) - 1) : Tail(s)[i] = s[i + 1]
  BY HeadTailProperties, LenProperties, EmptySeq
<1>2. StopOps[1] = "stop" /\ StopOps[2] = "wait" /\ StopOps[3] = "reset"
  BY DEF StopOps
<1>3. CASE n = 0
  BY <1>1, <1>3 DEF MainScript
<1>4. CASE n = 1
  BY <1>1, <1>2, <1>4 DEF MainScript
<1>5. CASE n = 2
  BY <1>1, <1>2, <1>5 DEF MainScript
<1>6. CASE n = 3
  BY <1>1, <1>2, <1>6 DEF MainScript
<1> QED
  BY <1>3, <1>4, <1>5, <1>6

(* An empty script. *)
LEMMA EmptyMain ==
    ASSUME NEW n \in 0..3
    PROVE  MainScript(<<>>, n) <=> n = 0
BY DEF MainScript

(* stop_in_loop, on top of what it interrupts. *)
LEMMA PushMain ==
    ASSUME NEW s \in Seq(Step), MainScript(s, 0)
    PROVE  MainScript(StopScript \o s, 3) /\ StopScript \o s \in Seq(Step)
<1>1. Does("stop") \in Step /\ Does("wait") \in Step /\ Does("reset") \in Step
  BY DoStep DEF Does, StopOp
<1>2. /\ StopScript \in Seq(Step) /\ Len(StopScript) = 3
      /\ StopScript[1].op = "stop" /\ StopScript[2].op = "wait" /\ StopScript[3].op = "reset"
  <2>1. /\ Len(StopScript) = 3 /\ StopScript[1] = Does("stop") /\ StopScript[2] = Does("wait")
        /\ StopScript[3] = Does("reset")
    BY DEF StopScript
  <2>2. StopScript \in Seq(Step)
    BY <1>1, SetTuples DEF StopScript
  <2>3. Does("stop").op = "stop" /\ Does("wait").op = "wait" /\ Does("reset").op = "reset"
    BY DEF Does, Do
  <2> QED
    BY <2>1, <2>2, <2>3
<1>3. /\ StopScript \o s \in Seq(Step) /\ Len(StopScript \o s) = 3 + Len(s) /\ Len(s) \in Nat
      /\ \A i \in 1..3 : (StopScript \o s)[i] = StopScript[i]
      /\ \A i \in 4..(3 + Len(s)) : (StopScript \o s)[i] = s[i - 3]
  <2>1. /\ StopScript \o s \in Seq(Step) /\ Len(StopScript \o s) = Len(StopScript) + Len(s) /\ Len(s) \in Nat
        /\ \A i \in 1..Len(StopScript) : (StopScript \o s)[i] = StopScript[i]
        /\ \A i \in (Len(StopScript) + 1)..(Len(StopScript) + Len(s)) : (StopScript \o s)[i] = s[i - Len(StopScript)]
    BY <1>2, ConcatAt, ZenonT(30)
  <2> QED
    BY <1>2, <2>1
<1>4. \A i \in 1..3 : (StopScript \o s)[i].op = StopOps[3 - 3 + i]
  BY <1>2, <1>3 DEF StopOps
<1>5. \A i \in 4..(3 + Len(s)) : i - 3 \in 1..Len(s)
  BY <1>3
<1> QED
  BY <1>3, <1>4, <1>5 DEF MainScript

(* Steps that are not of stop_in_loop. *)
LEMMA PlainMain ==
    ASSUME NEW t \in Seq(Step), NEW s \in Seq(Step), MainScript(t, 0), MainScript(s, 0)
    PROVE  MainScript(t \o s, 0) /\ t \o s \in Seq(Step)
<1>1. ASSUME NEW i \in 1..Len(t \o s)
      PROVE  (t \o s)[i].op \in PlainMainOp /\ ((t \o s)[i].op = "send" => (t \o s)[i].conn \in Conn)
  <2>1. CASE i <= Len(t)
    BY <2>1, ConcatAt DEF MainScript
  <2>2. CASE ~(i <= Len(t))
    <3>1. i - Len(t) \in 1..Len(s) /\ (t \o s)[i] = s[i - Len(t)]
      BY <2>2, ConcatAt
    <3> QED
      BY <3>1 DEF MainScript
  <2> QED
    BY <2>1, <2>2
<1> QED
  BY <1>1, ConcatAt DEF MainScript

(* One step that is not of stop_in_loop. *)
LEMMA OneMain ==
    ASSUME NEW x \in Step, x.op \in PlainMainOp, x.op = "send" => x.conn \in Conn
    PROVE  MainScript(<<x>>, 0) /\ <<x>> \in Seq(Step)
BY DEF MainScript

(* What the main thread does to its own script concerns no other thread.   *)
LEMMA MainQuiet ==
    ASSUME ScriptInv, script' \in [Thread -> Seq(Step)], \A l \in Io : script'[l] = script[l], loopOf' = loopOf
    PROVE  QuietScript
BY DEF ScriptInv, QuietScript, Same, IoStep

(* The main script and its parts. *)
LEMMA MainParts ==
    ASSUME IInv
    PROVE  Main \in Thread /\ script \in [Thread -> Seq(Step)] /\ script[Main] \in Seq(Step) /\ \A l \in Io : l \in Thread /\ l # Main
BY Names DEF IInv, Shape, ScriptInv, Thread

(* The main thread finishes a step of what it was doing. *)
LEMMA MainPops ==
    ASSUME IInv, script[Main] # <<>>, Then(Main, <<>>)
    PROVE  /\ script' \in [Thread -> Seq(Step)] /\ script'[Main] = Tail(script[Main])
           /\ \A l \in Io : script'[l] = script[l]
<1>1. <<>> \in Seq(Step) /\ Tail(script[Main]) \in Seq(Step)
  BY MainParts, SetTail, SetTuples
<1>2. script'[Main] = <<>> \o Tail(script[Main]) /\ script' \in [Thread -> Seq(Step)]
  BY <1>1, MainParts, ThenSet
<1>3. <<>> \o Tail(script[Main]) = Tail(script[Main])
  BY <1>1, ConcatEmptySeq
<1>4. \A l \in Io : script'[l] = script[l]
  BY <1>1, MainParts, ThenSet
<1> QED
  BY <1>2, <1>3, <1>4

(* Sending, unlocking, the loop's stop() and the wait for the promises. *)
LEMMA MainPlainInv ==
    ASSUME IInv, Send(Main) \/ Unlock(Main) \/ StopLoop \/ StopWait
    PROVE  IInv'
<1>1. script[Main] # <<>> /\ Head(script[Main]).op \in {"send", "unlock", "stop_loop", "wait"}
  BY DEF Send, Unlock, StopLoop, StopWait, At
<1>2. PICK n \in 0..3 : Stopping(n)
  BY DEF IInv, MainInv
<1>3. /\ MainScript(Tail(script[Main]), IF n = 0 THEN 0 ELSE n - 1)
      /\ n = 0 /\ Head(script[Main]).op = "send" => Cur(Main) \in Conn
      /\ n \in {0, 2} /\ (Head(script[Main]).op # "wait" => n = 0)
  BY <1>1, <1>2, MainParts, PopMain DEF Stopping, Cur, PlainMainOp
<1>4. UNCHANGED <<conns, started, signalled, phase, mbatch, dead, mq, active, loopOf, state, sock, closecb, metrics, session, zombie>>
  BY DEF Send, Unlock, StopLoop, StopWait, mainVars, connVars, wsVars
<1>5. /\ Then(Main, <<>>) /\ QuietQueue /\ bad' = bad
      /\ events' = events \/ \E c \in Conn : Connected(c) /\ events' = [events EXCEPT ![c] = @ \cup {"w"}]
  <2>1. CASE Send(Main)
    <3>1. Cur(Main) \in Conn /\ Sends(Main, Cur(Main), wcb[Cur(Main)])
      BY <1>3, <2>1 DEF Send, At
    <3>2. loopOf[Cur(Main)] # Main
      BY <3>1, Names DEF IInv, Shape, TypeInv
    <3> QED
      BY <1>4, <3>1, <3>2, MainParts, SendsCases
  <2>2. CASE Unlock(Main) \/ StopLoop \/ StopWait
    <3>1. Then(Main, <<>>) /\ UNCHANGED <<q, events, bad, loopOf>>
      BY <2>2 DEF Unlock, StopLoop, StopWait, connVars
    <3> QED
      BY <3>1, QuietSame DEF IInv
  <2> QED
    BY <2>1, <2>2
<1>6. /\ script' \in [Thread -> Seq(Step)] /\ script'[Main] = Tail(script[Main])
      /\ \A l \in Io : script'[l] = script[l]
  BY <1>1, <1>5, MainPops
<1>7. QuietScript /\ QuietMainQueue
  BY <1>4, <1>6, MainQuiet, QuietSame DEF IInv, Shape
<1>8. mstop' = mstop \/ StopLoop
  BY DEF Send, Unlock, StopLoop, StopWait, mainVars
<1>9. mstop' \in BOOLEAN
  BY <1>8 DEF IInv, Shape, TypeInv, StopLoop
<1>10. TypeInv'
  BY <1>4, <1>5, <1>9 DEF IInv, Shape, TypeInv
<1>11. QuietConn
  BY <1>4, <1>5 DEF IInv, Shape, TypeInv, QuietConn, Registered
<1>12. MainInv'
  <2>1. Stopping(IF n = 0 THEN 0 ELSE n - 1)'
    BY <1>2, <1>3, <1>4, <1>6 DEF Stopping
  <2>2. Head(script[Main]) \in ToSet(script[Main]) /\ ToSet(script'[Main]) \subseteq ToSet(script[Main])
    BY <1>1, <1>6, MainParts, SetTail
  <2>5. StopLoop => signalled
    BY <2>2 DEF StopLoop, At, IInv, MainInv
  <2>3. (IF n = 0 THEN 0 ELSE n - 1) \in 0..3
    OBVIOUS
  <2>4. \E m \in 0..3 : Stopping(m)'
    BY <2>1, <2>3
  <2> QED
    BY <1>4, <1>8, <2>2, <2>4, <2>5 DEF IInv, MainInv
<1> QED
  BY <1>7, <1>5, <1>10, <1>11, <1>12, QuietInv DEF Quiet

(* The steps of some connections are finitely many. *)
LEMMA StepsFinite ==
    ASSUME NEW D, D \subseteq Conn, NEW op \in IoOp \cup QueueOp
    PROVE  IsFiniteSet({Do(op, c) : c \in D}) /\ {Do(op, c) : c \in D} \subseteq Step
<1>1. IsFiniteSet(D)
  BY TcpServerAssumption, FS_Subset
<1>2. [c \in D |-> Do(op, c)] \in Surjection(D, {Do(op, c) : c \in D})
  BY DEF Surjection
<1>3. IsFiniteSet({Do(op, c) : c \in D})
  BY <1>1, <1>2, FS_Surjection
<1> QED
  BY <1>3, DoStep

(* A change of the main thread's script and of nothing that counts for     *)
(* connections.                                                            *)
LEMMA MainScriptInv ==
    ASSUME IInv, script' \in [Thread -> Seq(Step)], \A l \in Io : script'[l] = script[l],
           UNCHANGED <<conns, started, dead, q, active, connVars, metrics, session, zombie, bad>>,
           QuietMainQueue, signalled' \in BOOLEAN, mstop' \in BOOLEAN, MainInv'
    PROVE  IInv'
<1>1. QuietScript /\ QuietQueue
  BY MainQuiet, QuietSame DEF IInv, Shape, connVars
<1>2. TypeInv'
  BY DEF IInv, Shape, TypeInv, connVars
<1>3. QuietConn
  BY DEF QuietConn, Registered, connVars
<1> QED
  BY <1>1, <1>2, <1>3, QuietInv DEF Quiet

(* The server is gone. *)
LEMMA DownInv ==
    ASSUME IInv, Down
    PROVE  IInv'
<1>1. MainInv'
  BY MainFrame DEF Down, IInv
<1>2. QuietMainQueue
  BY QuietSame DEF IInv, Down
<1> QED
  BY <1>1, <1>2, MainParts, MainScriptInv DEF Down, IInv, Shape, TypeInv, wsVars

(* The main loop returns and ~TcpServer begins. *)
LEMMA LoopExitInv ==
    ASSUME IInv, LoopExit
    PROVE  IInv'
<1>1. MainScript(<<>>, 0) /\ <<>> \in Seq(Step)
  BY EmptyMain, SetTuples
<1>2. StopScript \o <<>> = StopScript /\ StopScript \in Seq(Step) /\ MainScript(StopScript, 3)
  <2>1. StopScript \in Seq(Step)
    BY DoStep, SetTuples DEF StopScript, Does, StopOp
  <2> QED
    BY <1>1, <2>1, PushMain, ConcatEmptySeq
<1>3. /\ script' \in [Thread -> Seq(Step)] /\ script'[Main] = StopScript
      /\ \A l \in Io : script'[l] = script[l]
  BY <1>2, MainParts DEF LoopExit
<1>4. script[Main] = <<>> /\ mstop
  BY DEF LoopExit, MainIdle
<1>5. signalled
  BY <1>4 DEF IInv, MainInv
<1>6. UNCHANGED <<conns, started, signalled, mstop, mbatch, dead, mq>>
  BY DEF LoopExit
<1>7. ~started => dead
  BY <1>4, EmptyMain DEF IInv, MainInv, Stopping
<1>8. Stopping(3)'
  BY <1>2, <1>3, <1>5, <1>6, <1>7 DEF Stopping
<1>9. MainInv'
  BY <1>5, <1>6, <1>8 DEF IInv, MainInv
<1>10. QuietMainQueue
  BY <1>6, QuietSame DEF IInv
<1> QED
  BY <1>3, <1>6, <1>9, <1>10, MainScriptInv DEF LoopExit, IInv, Shape, TypeInv, wsVars

(* The metrics are sent to all who asked for them. *)
LEMMA BroadcastInv ==
    ASSUME IInv, Broadcast
    PROVE  IInv'
<1> DEFINE S == {Do("send", c) : c \in metrics}
           steps == SetToSeq(S) \o <<Does("unlock")>>
<1>1. IsFiniteSet(S) /\ S \subseteq Step
  BY StepsFinite DEF IInv, Shape, TypeInv, IoOp
<1>2. SetToSeq(S) \in Seq(S) /\ ToSet(SetToSeq(S)) \subseteq S
  BY <1>1, SetToSeqOnce
<1>3. SetToSeq(S) \in Seq(Step) /\ Len(SetToSeq(S)) \in Nat /\ DOMAIN SetToSeq(S) = 1..Len(SetToSeq(S))
  BY <1>1, <1>2, SeqMonotonic, LenProperties
<1>4. MainScript(SetToSeq(S), 0)
  <2> SUFFICES ASSUME NEW i \in 1..Len(SetToSeq(S))
               PROVE  SetToSeq(S)[i].op \in PlainMainOp /\ SetToSeq(S)[i].conn \in Conn
    BY <1>3 DEF MainScript
  <2>1. SetToSeq(S)[i] \in S
    BY <1>2, <1>3 DEF ToSet
  <2>2. PICK c \in metrics : SetToSeq(S)[i] = Do("send", c)
    BY <2>1
  <2>3. c \in Conn
    BY DEF IInv, Shape, TypeInv
  <2> QED
    BY <2>2, <2>3, DoStep, SMTT(30) DEF PlainMainOp
<1>5. Does("unlock") \in Step /\ Does("unlock").op = "unlock"
  BY DoStep DEF Does, IoOp
<1>6. MainScript(<<Does("unlock")>>, 0) /\ <<Does("unlock")>> \in Seq(Step)
  BY <1>5, OneMain DEF PlainMainOp
<1>7. MainScript(steps, 0) /\ steps \in Seq(Step)
  BY <1>3, <1>4, <1>6, PlainMain
<1>8. ToSet(steps) \subseteq S \cup {Does("unlock")}
  <2>1. ToSet(steps) = ToSet(SetToSeq(S)) \cup ToSet(<<Does("unlock")>>)
    BY <1>3, <1>6, SetConcat, ZenonT(30)
  <2>2. ToSet(<<Does("unlock")>>) = {Does("unlock")}
    BY SetTuples
  <2> QED
    BY <1>2, <2>1, <2>2
<1>9. script' = [script EXCEPT ![Main] = steps]
  BY DEF Broadcast
<1>10. ~signalled /\ UNCHANGED <<mainVars, dead, mq, q, active, connVars, metrics, session, zombie, bad>>
  BY DEF Broadcast
<1>11. \A x \in S \cup {Does("unlock")} : x.op # "stop_loop"
  BY <1>5 DEF Do
<1> HIDE DEF S, steps
<1>12. /\ script' \in [Thread -> Seq(Step)] /\ script'[Main] = steps
       /\ \A l \in Io : script'[l] = script[l]
  BY <1>7, <1>9, MainParts
<1>13. started
  BY <1>10 DEF IInv, MainInv, Stopping
<1>14. Stopping(0)'
  BY <1>7, <1>10, <1>12, <1>13 DEF Stopping, mainVars
<1>15. MainInv'
  BY <1>8, <1>10, <1>11, <1>12, <1>14 DEF IInv, MainInv, mainVars
<1>16. QuietMainQueue
  BY <1>10, QuietSame DEF IInv, mainVars
<1> QED
  BY <1>10, <1>12, <1>15, <1>16, MainScriptInv DEF IInv, Shape, TypeInv, mainVars

(* The signal comes, in whichever thread. *)
LEMMA SignalInv ==
    ASSUME IInv, NEW t \in Thread, Signal(t)
    PROVE  IInv'
<1>1. ~signalled /\ signalled' = TRUE
      /\ UNCHANGED <<conns, started, phase, mbatch, dead, q, active, connVars, metrics, session, zombie, bad>>
  BY DEF Signal, wsVars
<1>2. Stopping(0) /\ started
  BY <1>1 DEF IInv, MainInv, Stopping
<1>3. CASE t = Main
  <2>1. Does("stop_loop") \in Step /\ Does("stop_loop").op = "stop_loop"
    BY DoStep DEF Does, PlainMainOp
  <2>2. MainScript(<<Does("stop_loop")>>, 0) /\ <<Does("stop_loop")>> \in Seq(Step)
    BY <2>1, OneMain DEF PlainMainOp
  <2>3. MainScript(<<Does("stop_loop")>> \o script[Main], 0) /\ <<Does("stop_loop")>> \o script[Main] \in Seq(Step)
    BY <1>2, <2>2, PlainMain, MainParts DEF Stopping
  <2>4. StopScript \in Seq(Step)
    BY DoStep, SetTuples DEF StopScript, Does, StopOp
  <2>5. (StopScript \o <<Does("stop_loop")>>) \o script[Main] = StopScript \o (<<Does("stop_loop")>> \o script[Main])
    BY <2>2, <2>4, MainParts, ConcatAssociative
  <2>6. PICK s \in Seq(Step) : s = (StopScript \o <<Does("stop_loop")>>) \o script[Main] /\ MainScript(s, 3)
    BY <2>3, <2>5, PushMain
  <2>7. script' = [script EXCEPT ![Main] = s] /\ UNCHANGED <<mq, mstop>>
    BY <1>3, <2>6 DEF Signal
  <2>8. /\ script' \in [Thread -> Seq(Step)] /\ script'[Main] = s
        /\ \A l \in Io : script'[l] = script[l]
    BY <2>7, MainParts
  <2>9. Stopping(3)'
    BY <1>1, <1>2, <2>6, <2>8 DEF Stopping
  <2>10. MainInv'
    BY <1>1, <2>7, <2>9 DEF IInv, MainInv
  <2>11. QuietMainQueue
    BY <1>1, <2>7, QuietSame DEF IInv
  <2> QED
    BY <1>1, <2>7, <2>8, <2>10, <2>11, MainScriptInv DEF IInv, Shape, TypeInv
<1>4. CASE t # Main
  <2>1. mq' = Append(mq, Does("stop")) /\ mstop' = TRUE /\ UNCHANGED script
    BY <1>4 DEF Signal
  <2>2. Does("stop") \in Step /\ Does("stop").op = "stop"
    BY DoStep DEF Does, StopOp
  <2>3. ToSet(mq') = ToSet(mq) \cup {Does("stop")} /\ mq' \in Seq(Step) /\ mq \in Seq(Step)
    BY <2>1, <2>2, SetAppend DEF IInv, Shape, MainQueueInv
  <2>4. QuietMainQueue
    <3>1. MainQueueInv'
      BY <1>1, <2>2, <2>3 DEF IInv, Shape, MainQueueInv, MainStepOf
    <3>2. ASSUME NEW c \in Conn PROVE Same(mq, mq', Removal(c)) /\ Same(mbatch, mbatch', Removal(c))
      <4>1. Removal(c) # Does("stop")
        BY <2>2 DEF Removal, Do
      <4>2. Once(mq, Removal(c)) => Once(mq', Removal(c))
        BY <2>1, <2>2, <2>3, <4>1, OnceAppend
      <4> QED
        BY <1>1, <2>3, <4>1, <4>2 DEF Same
    <3> QED
      BY <3>1, <3>2 DEF QuietMainQueue
  <2>5. Stopping(0)'
    BY <1>1, <1>2, <2>1 DEF Stopping
  <2>6. MainInv'
    BY <1>1, <2>5 DEF IInv, MainInv
  <2> QED
    BY <1>1, <2>1, <2>4, <2>6, MainParts, MainScriptInv DEF IInv, Shape, TypeInv
<1> QED
  BY <1>3, <1>4

-------------------------------------------------------------------------------
(* The steps that open and end connections *)

(* A loop has nothing to do with the other loops' connections. *)
LEMMA Elsewhere ==
    ASSUME ScriptInv', QueueInv', NEW c \in Conn, NEW l \in Io, loopOf'[c] # l
    PROVE  EndOf(l, c)' /\ Removal(c) \notin ToSet(script'[l]) /\ Once(script'[l], Removal(c))
<1>1. /\ Establishment(c) \notin ToSet(q'[l]) /\ CleanupOf(c) \notin ToSet(q'[l]) /\ Destruction(c) \notin ToSet(q'[l])
      /\ Destruction(c) \notin ToSet(script'[l]) /\ Removal(c) \notin ToSet(script'[l])
  BY DEF ScriptInv, QueueInv, IoStep, IoTask, OwnOp, Establishment, CleanupOf, Destruction, Removal, Do
<1>2. /\ Once(q'[l], Establishment(c)) /\ Once(q'[l], CleanupOf(c)) /\ Once(q'[l], Destruction(c))
      /\ Once(script'[l], Destruction(c)) /\ Once(script'[l], Removal(c))
      /\ Before(q'[l], Establishment(c), CleanupOf(c))
  BY <1>1, OnceAbsent, BeforeAbsent
<1> QED
  BY <1>1, <1>2 DEF EndOf, Establishment, CleanupOf, Destruction, Removal, Do

(* The first task is taken off a loop's queue. *)
LEMMA PopQueue ==
    ASSUME QueueInv, NEW l \in Io, q[l] # <<>>, q' = [q EXCEPT ![l] = Tail(@)], loopOf' = loopOf
    PROVE  /\ QueueInv' /\ q[l] \in Seq(Step) /\ q'[l] = Tail(q[l]) /\ Head(q[l]) \in Step /\ IoTask(l, Head(q[l]))
           /\ ToSet(q[l]) = {Head(q[l])} \cup ToSet(q'[l]) /\ Head(q[l]) \in ToSet(q[l])
           /\ \A k \in Io : k # l => q'[k] = q[k]
           /\ \A x : x # Head(q[l]) => \A k \in Io : Same(q[k], q'[k], x)
           /\ \A x, y : \A k \in Io : Before(q[k], x, y) => Before(q'[k], x, y)
           /\ \A x : Once(q[l], x) => Once(q'[l], x)
           /\ Once(q[l], Head(q[l])) => Head(q[l]) \notin ToSet(q'[l])
<1>1. q[l] \in Seq(Step)
  BY DEF QueueInv
<1>2. Tail(q[l]) \in Seq(Step) /\ Head(q[l]) \in Step /\ ToSet(q[l]) = {Head(q[l])} \cup ToSet(Tail(q[l]))
  BY <1>1, SetTail
<1>3. q'[l] = Tail(q[l]) /\ q' \in [Io -> Seq(Step)] /\ \A k \in Io : k # l => q'[k] = q[k]
  BY <1>2 DEF QueueInv
<1>4. IoTask(l, Head(q[l]))
  BY <1>2 DEF QueueInv
<1>5. QueueInv'
  <2> SUFFICES ASSUME NEW k \in Io, NEW x \in ToSet(q'[k]) PROVE IoTask(k, x)'
    BY <1>3 DEF QueueInv
  <2>1. x \in ToSet(q[k])
    BY <1>2, <1>3
  <2> QED
    BY <2>1 DEF QueueInv, IoTask
<1>6. \A x : Once(q[l], x) => Once(q'[l], x)
  BY <1>1, <1>3, OnceTail
<1>7. ASSUME NEW x, x # Head(q[l]), NEW k \in Io PROVE Same(q[k], q'[k], x)
  BY <1>2, <1>3, <1>6, <1>7 DEF Same
<1>8. ASSUME NEW x, NEW y, NEW k \in Io, Before(q[k], x, y) PROVE Before(q'[k], x, y)
  <2>1. CASE k = l
    BY <1>1, <1>3, <1>8, <2>1, BeforeTail
  <2>2. CASE k # l
    BY <1>3, <1>8, <2>2
  <2> QED
    BY <2>1, <2>2
<1>9. Once(q[l], Head(q[l])) => Head(q[l]) \notin ToSet(q'[l])
  BY <1>1, <1>3, OnceTail
<1> QED
  BY <1>1, <1>2, <1>3, <1>4, <1>5, <1>6, <1>7, <1>8, <1>9

(* The first handle_close ends the connection and leaves remove_session to *)
(* come; a later one does nothing.                                         *)
LEMMA CloseInv ==
    ASSUME IInv, NEW l \in Io, Close(l)
    PROVE  IInv'
<1>1. PICK c \in Conn : c = Cur(l)
  BY OwnStep DEF Close, OwnOp
<1>2. loopOf[c] = l /\ script[l] # <<>> /\ Head(script[l]) = Do("close", c) /\ LifeOf(c) /\ l \in Thread
  BY <1>1, OwnStep, Lives DEF Close, OwnOp, IInv, Thread
<1>3. UNCHANGED <<mainVars, dead, mq, q, active, loopOf, sock, closecb, metrics, session, zombie, bad>>
  BY DEF Close, wsVars
<1>4. PICK steps \in {<<>>, <<Removal(c)>>} : Then(l, steps) /\ (steps = <<Removal(c)>> <=> Connected(c))
  <2>1. <<>> # <<Removal(c)>>
    OBVIOUS
  <2> QED
    BY <1>1, <2>1 DEF Close, FirstClose, Removal
<1>5. steps \in Seq(Step) /\ ToSet(steps) \subseteq {Removal(c)} /\ \A x \in ToSet(steps) : IoStep(l, x)
  <2>1. Removal(c) \in Step /\ IoStep(l, Removal(c))
    BY <1>2, OwnSteps DEF OwnOp, Removal
  <2>2. ToSet(<<>>) = {} /\ ToSet(<<Removal(c)>>) = {Removal(c)} /\ <<>> \in Seq(Step) /\ <<Removal(c)>> \in Seq(Step)
    BY <2>1, SetTuples
  <2> QED
    BY <2>1, <2>2
<1>6. script \in [Thread -> Seq(Step)] /\ ScriptInv'
  BY <1>2, <1>3, <1>4, <1>5, ThenScript DEF IInv, Shape, ScriptInv
<1>7. /\ script'[l] = steps \o Tail(script[l]) /\ \A k \in Thread : k # l => script'[k] = script[k]
      /\ ToSet(script'[l]) = ToSet(steps) \cup ToSet(Tail(script[l]))
      /\ ToSet(script[l]) = {Head(script[l])} \cup ToSet(Tail(script[l]))
  BY <1>2, <1>4, <1>5, <1>6, ThenSet
<1>8. ASSUME NEW x, x # Do("close", c), x \notin ToSet(steps) PROVE \A k \in Io : Same(script[k], script'[k], x)
  BY <1>2, <1>4, <1>5, <1>6, <1>8, ThenSame DEF Thread
<1>9. /\ IF Connected(c) THEN state' = [state EXCEPT ![c] = "disconnected"] /\ events' = [events EXCEPT ![c] = {}]
                         ELSE UNCHANGED <<state, events>>
  BY <1>1 DEF Close, FirstClose
<1>10. QueueInv' /\ MainQueueInv' /\ MainInv'
  <2>1. script'[Main] = script[Main]
    BY <1>7, MainParts
  <2> QED
    BY <1>3, <2>1, QuietSame, MainFrame DEF IInv, Shape, mainVars, QuietQueue, QuietMainQueue
<1>11. TypeInv'
  BY <1>3, <1>9 DEF IInv, Shape, TypeInv, mainVars
<1>12. ASSUME NEW d \in Conn, d # c \/ ~Connected(c) PROVE LifeOf(d)'
  <2>1. Destruction(d) # Do("close", c) /\ Removal(d) # Do("close", c) /\ Destruction(d) # Removal(c) /\ (d # c => Removal(d) # Removal(c))
    BY DEF Destruction, Removal, Do
  <2>2. d = c => steps = <<>>
    BY <1>4, <1>12
  <2>3. Destruction(d) \notin ToSet(steps) /\ Removal(d) \notin ToSet(steps)
    BY <1>5, <2>1, <2>2, SetTuples
  <2>4. \A k \in Io : Same(script[k], script'[k], Destruction(d)) /\ Same(script[k], script'[k], Removal(d))
    BY <1>8, <2>1, <2>3
  <2>5. \A k \in Io : script'[k] = script[k] \/ Head(script[k]) # Do("close", d) \/ ~Connected(d)
    BY <1>2, <1>7, <1>12 DEF Do, Thread
  <2>6. state'[d] = state[d] /\ events'[d] = events[d]
    BY <1>9, <1>12 DEF IInv, Shape, TypeInv
  <2>7. Kept(d)
    BY <1>3, <2>4, <2>5, <2>6 DEF Kept, Same, mainVars
  <2> QED
    BY <2>7, KeptLife, Lives DEF IInv
<1>13. ASSUME Connected(c) PROVE LifeOf(c)'
  <2>1. steps = <<Removal(c)>> /\ state'[c] = "disconnected" /\ events'[c] = {} /\ state[c] = "connected" /\ sock[c] = "open"
    BY <1>2, <1>4, <1>9, <1>13 DEF IInv, Shape, TypeInv, Connected, LifeOf, StateOf
  <2>2. StateOf(c)'
    BY <1>2, <1>3, <2>1 DEF LifeOf, StateOf, Connected, mainVars
  <2>3. /\ Removal(c) \notin ToSet(mq) \cup ToSet(mbatch) /\ \A k \in Io : Removal(c) \notin ToSet(script[k])
    BY <1>2, <2>1 DEF LifeOf, RemoveOf
  <2>4. ToSet(steps) = {Removal(c)} /\ Once(steps, Removal(c))
    BY <2>1, SetTuples DEF Once
  <2>5. Once(script'[l], Removal(c)) /\ Removal(c) \in ToSet(script'[l])
    <3>1. Tail(script[l]) \in Seq(Step) /\ Removal(c) \notin ToSet(Tail(script[l]))
      BY <1>2, <1>6, <1>7, <2>3, SetTail
    <3> QED
      BY <1>5, <1>7, <2>4, <3>1, OnceConcat, OnceAbsent, ZenonT(30)
  <2>6. \A k \in Io : k # l => Removal(c) \notin ToSet(script'[k]) /\ Once(script'[k], Removal(c)) /\ EndOf(k, c)'
    BY <1>2, <1>3, <1>6, <1>10, Elsewhere
  <2>7. started => c \in conns
    BY <1>2, <2>1 DEF LifeOf, StateOf
  <2>8. Removal(c)' = Removal(c) /\ Destruction(c)' = Destruction(c)
    BY DEF Removal, Destruction, Do
  <2>9. RemoveOf(c)'
    BY <1>2, <1>3, <2>1, <2>3, <2>5, <2>6, <2>7, <2>8 DEF LifeOf, RemoveOf, mainVars
  <2>10. \A k \in Io : Same(script[k], script'[k], Destruction(c))
    <3>1. Destruction(c) # Do("close", c) /\ Destruction(c) # Removal(c)
      BY DEF Destruction, Removal, Do
    <3> QED
      BY <1>8, <2>4, <3>1
  <2>11. SightOf(c)'
    BY <1>2, <1>3, <2>5, <2>8, <2>10 DEF LifeOf, SightOf, Ending, Same
  <2>12. EndOf(l, c)'
    <3>1. EndOf(l, c) /\ Same(script[l], script'[l], Destruction(c))
      BY <1>2, <2>10 DEF LifeOf
    <3>2. Establishment(c) \notin ToSet(q[l]) /\ Destruction(c) \notin ToSet(q[l])
      BY <2>1, <3>1 DEF EndOf
    <3>3. UNCHANGED <<q, sock, conns>> /\ ~Connected(c)'
      BY <1>3, <2>1 DEF Connected, mainVars
    <3> QED
      BY <2>8, <3>1, <3>2, <3>3 DEF EndOf, Same, Establishment, CleanupOf, Do
  <2> QED
    BY <2>2, <2>6, <2>9, <2>11, <2>12 DEF LifeOf
<1>14. LifeInv'
  BY <1>12, <1>13 DEF LifeInv, LifeOf
<1>15. RegistryInv'
  <2> SUFFICES ASSUME NEW d \in Registered' PROVE Connected(d)' \/ d \in zombie' \/ \E k \in Io : Removal(d) \in ToSet(script'[k])
    BY DEF RegistryInv, Removal, Do
  <2>1. d \in Conn /\ d \in Registered
    BY <1>3, <1>11, Names DEF Registered, TypeInv
  <2>2. CASE d = c /\ Connected(c)
    <3>1. Removal(c) \in ToSet(script'[l])
      BY <1>4, <1>7, <2>2, SetTuples
    <3> QED
      BY <2>2, <3>1
  <2>3. CASE ~(d = c /\ Connected(c))
    <3>1. state'[d] = state[d]
      BY <1>9, <2>1, <2>3 DEF IInv, Shape, TypeInv
    <3>2. ASSUME NEW k \in Io, Removal(d) \in ToSet(script[k]) PROVE Removal(d) \in ToSet(script'[k])
      <4>1. Removal(d) # Do("close", c)
        BY DEF Removal, Do
      <4> QED
        BY <1>2, <1>7, <3>2, <4>1 DEF Thread
    <3> QED
      BY <1>3, <2>1, <3>1, <3>2 DEF IInv, RegistryInv, Connected
  <2> QED
    BY <2>2, <2>3
<1> QED
  BY <1>3, <1>6, <1>10, <1>11, <1>14, <1>15 DEF IInv, Shape, SocketSafe

(* A step off an IO thread's script: what is left. *)
LEMMA IoPops ==
    ASSUME IInv, NEW l \in Io, script[l] # <<>>, Then(l, <<>>), loopOf' = loopOf
    PROVE  /\ ScriptInv' /\ script'[l] = Tail(script[l]) /\ script[l] \in Seq(Step) /\ script'[Main] = script[Main]
           /\ ToSet(script[l]) = {Head(script[l])} \cup ToSet(script'[l])
           /\ \A k \in Io : k # l => script'[k] = script[k]
           /\ \A x : x # Head(script[l]) => \A k \in Io : Same(script[k], script'[k], x)
<1>1. l \in Thread /\ script \in [Thread -> Seq(Step)] /\ <<>> \in Seq(Step) /\ ToSet(<<>>) = {}
  BY SetTuples DEF IInv, Shape, ScriptInv, Thread
<1>2. ScriptInv'
  BY <1>1, ThenScript DEF IInv, Shape
<1>3. Tail(script[l]) \in Seq(Step)
  BY <1>1, SetTail
<1>4. <<>> \o Tail(script[l]) = Tail(script[l])
  BY <1>3, ConcatEmptySeq
<1>5. /\ script'[l] = Tail(script[l]) /\ ToSet(script[l]) = {Head(script[l])} \cup ToSet(Tail(script[l]))
      /\ \A k \in Thread : k # l => script'[k] = script[k]
  BY <1>1, <1>4, ThenSet
<1>6. \A x : x # Head(script[l]) => \A k \in Io : Same(script[k], script'[k], x)
  BY <1>1, ThenSame DEF Thread
<1> QED
  BY <1>1, <1>2, <1>5, <1>6, MainParts

(* connection_destroyed runs once. *)
LEMMA DestroyInv ==
    ASSUME IInv, NEW l \in Io, Destroy(l)
    PROVE  IInv'
<1>1. PICK c \in Conn : c = Cur(l)
  BY OwnStep DEF Destroy, OwnOp
<1>2. loopOf[c] = l /\ script[l] # <<>> /\ Head(script[l]) = Destruction(c) /\ LifeOf(c)
  BY <1>1, OwnStep, Lives DEF Destroy, OwnOp, IInv, Destruction
<1>3. UNCHANGED <<mainVars, dead, mq, q, active, loopOf, closecb, metrics, session, zombie>> /\ Then(l, <<>>)
  BY DEF Destroy, wsVars
<1>4. /\ ScriptInv' /\ script'[l] = Tail(script[l]) /\ script[l] \in Seq(Step) /\ script'[Main] = script[Main]
      /\ ToSet(script[l]) = {Destruction(c)} \cup ToSet(script'[l])
      /\ \A k \in Io : k # l => script'[k] = script[k]
      /\ \A x : x # Destruction(c) => \A k \in Io : Same(script[k], script'[k], x)
  BY <1>2, <1>3, IoPops
<1>5. EndOf(l, c)
  BY <1>2 DEF LifeOf
<1>6. ~Connected(c) /\ sock[c] = "open" /\ c \notin conns
  <2>1. Head(script[l]) # Do("close", c)
    BY <1>2 DEF Destruction, Do
  <2> QED
    BY <1>4, <1>5, <2>1 DEF EndOf
<1>7. UNCHANGED <<bad, state, events>> /\ sock' = [sock EXCEPT ![c] = "closed"]
  BY <1>1, <1>6 DEF Destroy, IInv, Shape, TypeInv
<1>8. Destruction(c) \notin ToSet(script'[l])
  BY <1>2, <1>4, <1>5, OnceTail DEF EndOf
<1>9. QueueInv' /\ MainQueueInv' /\ MainInv'
  BY <1>3, <1>4, QuietSame, MainFrame DEF IInv, Shape, mainVars, QuietQueue, QuietMainQueue
<1>10. TypeInv'
  BY <1>3, <1>7 DEF IInv, Shape, TypeInv, mainVars
<1>11. ASSUME NEW d \in Conn, d # c PROVE LifeOf(d)'
  <2>1. Destruction(d) # Destruction(c) /\ Removal(d) # Destruction(c) /\ Do("close", d) # Destruction(c)
    BY <1>11 DEF Destruction, Removal, Do
  <2>2. sock'[d] = sock[d]
    BY <1>7, <1>11 DEF IInv, Shape, TypeInv
  <2>3. Kept(d)
    BY <1>2, <1>3, <1>4, <1>7, <2>1, <2>2 DEF Kept, Same, mainVars
  <2> QED
    BY <2>3, KeptLife, Lives DEF IInv
<1>12. LifeOf(c)'
  <2>0. Removal(c)' = Removal(c) /\ Destruction(c)' = Destruction(c) /\ Removal(c) # Destruction(c)
    BY DEF Removal, Destruction, Do
  <2>1. sock'[c] = "closed"
    BY <1>7 DEF IInv, Shape, TypeInv
  <2>2. StateOf(c)'
    BY <1>2, <1>3, <1>6, <1>7, <2>1 DEF LifeOf, StateOf, Connected, mainVars
  <2>3. \A k \in Io : Same(script[k], script'[k], Removal(c))
    BY <1>4, <2>0
  <2>4. RemoveOf(c)'
    BY <1>2, <1>3, <1>7, <2>0, <2>3 DEF LifeOf, RemoveOf, Same, mainVars
  <2>5. SightOf(c)'
    BY <2>1 DEF SightOf
  <2>6. EndOf(l, c)'
    <3>1. Establishment(c) \notin ToSet(q[l]) /\ CleanupOf(c) \notin ToSet(q[l]) /\ Destruction(c) \notin ToSet(q[l])
      BY <1>4, <1>5 DEF EndOf
    <3> QED
      BY <1>3, <1>5, <1>8, <2>0, <3>1, OnceAbsent DEF EndOf, Establishment, CleanupOf, Do
  <2>7. \A k \in Io : k # l => EndOf(k, c)'
    BY <1>2, <1>3, <1>4, <1>9, Elsewhere
  <2> QED
    BY <2>2, <2>4, <2>5, <2>6, <2>7 DEF LifeOf
<1>13. LifeInv'
  BY <1>11, <1>12 DEF LifeInv, LifeOf
<1>14. RegistryInv'
  <2> SUFFICES ASSUME NEW d \in Registered' PROVE Connected(d)' \/ d \in zombie' \/ \E k \in Io : Removal(d) \in ToSet(script'[k])
    BY DEF RegistryInv, Removal, Do
  <2>1. Removal(d) # Destruction(c) /\ d \in Registered
    BY <1>3 DEF Removal, Destruction, Do, Registered
  <2> QED
    BY <1>3, <1>4, <1>7, <2>1 DEF IInv, RegistryInv, Connected, Same
<1> QED
  BY <1>4, <1>7, <1>9, <1>10, <1>13, <1>14 DEF IInv, Shape, SocketSafe

(* remove_session, and the task for the main loop. *)
LEMMA RemoveSessionInv ==
    ASSUME IInv, NEW l \in Io, RemoveSession(l)
    PROVE  IInv'
<1>1. PICK c \in Conn : c = Cur(l)
  BY OwnStep DEF RemoveSession, OwnOp
<1>2. loopOf[c] = l /\ script[l] # <<>> /\ Head(script[l]) = Removal(c) /\ LifeOf(c)
  BY <1>1, OwnStep, Lives DEF RemoveSession, OwnOp, IInv, Removal
<1>3. UNCHANGED <<mainVars, dead, q, active, connVars, zombie, bad>> /\ Then(l, <<>>)
  BY DEF RemoveSession
<1>4. /\ ScriptInv' /\ script'[l] = Tail(script[l]) /\ script[l] \in Seq(Step) /\ script'[Main] = script[Main]
      /\ ToSet(script[l]) = {Removal(c)} \cup ToSet(script'[l])
      /\ \A k \in Io : k # l => script'[k] = script[k]
      /\ \A x : x # Removal(c) => \A k \in Io : Same(script[k], script'[k], x)
  BY <1>2, <1>3, IoPops DEF connVars
<1>5. mq' = IF closecb[c] = "remove" THEN Append(mq, Removal(c)) ELSE mq
  BY <1>1 DEF RemoveSession, Removal
<1>6. Removal(c) \in Step /\ Removal(c).op = "remove" /\ Removal(c).conn = c
  BY DoStep DEF Removal, IoOp, OwnOp
<1>7. mq \in Seq(Step) /\ mq' \in Seq(Step) /\ ToSet(mq) \subseteq ToSet(mq') /\ ToSet(mq') \subseteq ToSet(mq) \cup {Removal(c)}
      /\ (closecb[c] = "remove" => Removal(c) \in ToSet(mq'))
  <2>1. CASE closecb[c] = "remove"
    BY <1>5, <1>6, <2>1, SetAppend DEF IInv, Shape, MainQueueInv
  <2>2. CASE closecb[c] # "remove"
    BY <1>5, <2>2 DEF IInv, Shape, MainQueueInv
  <2> QED
    BY <2>1, <2>2
<1>8. RemoveOf(c) /\ Removal(c) \notin ToSet(mq) \cup ToSet(mbatch)
  BY <1>2, <1>4 DEF LifeOf, RemoveOf
<1>9. Removal(c) \notin ToSet(script'[l])
  BY <1>2, <1>4, <1>8, OnceTail DEF RemoveOf
<1>10. QueueInv'
  BY <1>3, QuietSame DEF IInv, Shape, QuietQueue, connVars
<1>11. MainQueueInv'
  BY <1>3, <1>6, <1>7 DEF IInv, Shape, MainQueueInv, MainStepOf, mainVars
<1>12. MainInv'
  BY <1>3, <1>4, <1>6, <1>7, MainFrame DEF IInv, mainVars
<1>13. metrics' = metrics \ {c} /\ session' = IF session = c THEN None ELSE session
  BY <1>1 DEF RemoveSession, Unsubscribed
<1>14. TypeInv'
  BY <1>3, <1>13 DEF IInv, Shape, TypeInv, mainVars, connVars
<1>15. ASSUME NEW d \in Conn, d # c PROVE LifeOf(d)'
  <2>1. Destruction(d) # Removal(c) /\ Removal(d) # Removal(c) /\ Do("close", d) # Removal(c)
    BY <1>15 DEF Destruction, Removal, Do
  <2>2. Same(mq, mq', Removal(d))
    BY <1>5, <1>6, <1>7, <2>1, OnceAppend DEF Same
  <2>3. Kept(d)
    BY <1>2, <1>3, <1>4, <2>1, <2>2 DEF Kept, Same, mainVars, connVars
  <2> QED
    BY <2>3, KeptLife, Lives DEF IInv
<1>16. LifeOf(c)'
  <2>0. Removal(c)' = Removal(c) /\ Destruction(c)' = Destruction(c) /\ Removal(c) # Destruction(c)
    BY DEF Removal, Destruction, Do
  <2>1. StateOf(c)'
    BY <1>2, <1>3 DEF LifeOf, StateOf, Connected, mainVars, connVars
  <2>2. \A k \in Io : k # l => Removal(c) \notin ToSet(script'[k]) /\ Once(script'[k], Removal(c)) /\ EndOf(k, c)'
    BY <1>2, <1>3, <1>4, <1>10, Elsewhere DEF connVars
  <2>3. \A k \in Io : Removal(c) \notin ToSet(script'[k]) /\ Once(script'[k], Removal(c))
    BY <1>9, <2>2, OnceAbsent
  <2>4. Once(mq', Removal(c)) /\ Once(mbatch', Removal(c)) /\ Removal(c) \notin ToSet(mbatch')
    BY <1>3, <1>5, <1>6, <1>7, <1>8, OnceAppend DEF RemoveOf, mainVars
  <2>5. state[c] = "disconnected" /\ (started => c \in conns)
    BY <1>4, <1>8 DEF RemoveOf
  <2>6. UNCHANGED <<state, started, conns>>
    BY <1>3 DEF mainVars, connVars
  <2>7. RemoveOf(c)'
    BY <2>0, <2>3, <2>4, <2>5, <2>6 DEF RemoveOf
  <2>8. \A k \in Io : Same(script[k], script'[k], Destruction(c))
    BY <1>4, <2>0
  <2>9. SightOf(c)'
    <3>1. SightOf(c) /\ closecb[c] \in {"none", "remove"}
      BY <1>2 DEF LifeOf, IInv, Shape, TypeInv
    <3>2. UNCHANGED <<closecb, sock, state, dead>>
      BY <1>3 DEF connVars
    <3>3. (closecb[c] = "none" /\ sock[c] = "open" => \E k \in Io : Destruction(c) \in ToSet(script[k]))'
      BY <2>0, <2>8, <3>1, <3>2 DEF SightOf, Same
    <3>4. sock[c] = "open" => Ending(c)'
      <4>1. CASE closecb[c] = "none"
        BY <2>0, <3>2, <3>3, <4>1 DEF Ending
      <4>2. CASE closecb[c] = "remove"
        BY <1>7, <2>0, <4>2 DEF Ending
      <4> QED
        BY <3>1, <4>1, <4>2
    <3> QED
      BY <3>2, <3>3, <3>4 DEF SightOf
  <2>10. EndOf(l, c)'
    <3>1. EndOf(l, c) /\ Same(script[l], script'[l], Destruction(c)) /\ ~Connected(c)
      BY <1>2, <2>5, <2>8 DEF LifeOf, Connected
    <3>2. UNCHANGED <<q, sock, conns, state>> /\ ~Connected(c)'
      BY <1>3, <3>1 DEF Connected, mainVars, connVars
    <3> QED
      BY <2>0, <3>1, <3>2 DEF EndOf, Same, Establishment, CleanupOf, Do
  <2> QED
    BY <2>1, <2>2, <2>7, <2>9, <2>10 DEF LifeOf
<1>17. LifeInv'
  BY <1>15, <1>16 DEF LifeInv, LifeOf
<1>18. RegistryInv'
  <2> SUFFICES ASSUME NEW d \in Registered' PROVE Connected(d)' \/ d \in zombie' \/ \E k \in Io : Removal(d) \in ToSet(script'[k])
    BY DEF RegistryInv, Removal, Do
  <2>1. d # c /\ d \in Registered
    BY <1>13, Names DEF Registered
  <2>2. Removal(d) # Removal(c)
    BY <2>1 DEF Removal, Do
  <2> QED
    BY <1>3, <1>4, <2>1, <2>2 DEF IInv, RegistryInv, Connected, Same, connVars
<1> QED
  BY <1>3, <1>4, <1>10, <1>11, <1>12, <1>14, <1>17, <1>18 DEF IInv, Shape, SocketSafe

(* What an IO thread knows of the task it takes out. *)
LEMMA TaskOf ==
    ASSUME IInv, NEW l \in Io, RunTask(l)
    PROVE  \E c \in Conn :
              /\ c = Head(q[l]).conn /\ Head(q[l]) = Do(Head(q[l]).op, c) /\ loopOf[c] = l /\ LifeOf(c)
              /\ q[l] # <<>> /\ script[l] = <<>> /\ ToSet(script[l]) = {} /\ ~dead
              /\ q' = [q EXCEPT ![l] = Tail(@)]
              /\ UNCHANGED <<mainVars, dead, mq, active, loopOf, sock, metrics, session, zombie, bad>>
<1>1. q[l] # <<>> /\ q' = [q EXCEPT ![l] = Tail(@)] /\ script[l] = <<>> /\ ~dead
  BY DEF RunTask, Idle
<1>2. UNCHANGED <<mainVars, dead, mq, active, loopOf, sock, metrics, session, zombie, bad>>
  BY DEF RunTask, wsVars
<1>3. Head(q[l]) \in Step /\ IoTask(l, Head(q[l]))
  BY <1>1, <1>2, PopQueue DEF IInv, Shape
<1> QED
  BY <1>1, <1>2, <1>3, StepIs, Lives, SetTuples DEF IoTask, IInv

(* A task that puts steps on the empty script. *)
LEMMA FreshScript ==
    ASSUME IInv, NEW l \in Io, NEW steps \in Seq(Step), script' = [script EXCEPT ![l] = steps], script[l] = <<>>,
           \A x \in ToSet(steps) : IoStep(l, x), loopOf' = loopOf
    PROVE  /\ ScriptInv' /\ script'[l] = steps /\ script'[Main] = script[Main]
           /\ \A k \in Io : k # l => script'[k] = script[k]
           /\ \A x : x \notin ToSet(steps) => \A k \in Io : Same(script[k], script'[k], x)
<1>1. l \in Thread /\ script \in [Thread -> Seq(Step)] /\ \A k \in Io : k \in Thread
  BY DEF Thread, IInv, Shape, ScriptInv
<1>2. /\ script' \in [Thread -> Seq(Step)] /\ script'[l] = steps
      /\ \A k \in Thread : k # l => script'[k] = script[k]
  BY <1>1, FreshSet
<1>3. ScriptInv'
  <2> SUFFICES ASSUME NEW k \in Io, NEW x \in ToSet(script'[k]) PROVE IoStep(k, x)'
    BY <1>2 DEF ScriptInv
  <2>1. IoStep(k, x)
    BY <1>1, <1>2 DEF IInv, Shape, ScriptInv
  <2> QED
    BY <2>1 DEF IoStep
<1>4. ASSUME NEW x, x \notin ToSet(steps), NEW k \in Io PROVE Same(script[k], script'[k], x)
  BY <1>1, <1>2, <1>4, SetTuples, OnceAbsent DEF Same
<1> QED
  BY <1>1, <1>2, <1>3, <1>4, MainParts

(* connection_established: a connection comes to life before any other     *)
(* task of its own.                                                        *)
LEMMA EstablishInv ==
    ASSUME IInv, NEW l \in Io, RunTask(l), Head(q[l]).op = "establish"
    PROVE  IInv'
<1>1. PICK c \in Conn :
              /\ c = Head(q[l]).conn /\ Head(q[l]) = Do(Head(q[l]).op, c) /\ loopOf[c] = l /\ LifeOf(c)
              /\ q[l] # <<>> /\ script[l] = <<>> /\ ToSet(script[l]) = {} /\ ~dead
              /\ q' = [q EXCEPT ![l] = Tail(@)]
              /\ UNCHANGED <<mainVars, dead, mq, active, loopOf, sock, metrics, session, zombie, bad>>
  BY TaskOf
<1>2. Head(q[l]) = Establishment(c)
  BY <1>1 DEF Establishment
<1>3. /\ state' = [state EXCEPT ![c] = "connected"] /\ events' = [events EXCEPT ![c] = {"r"}]
      /\ UNCHANGED <<script, closecb>>
  BY <1>1 DEF RunTask
<1>4. /\ QueueInv' /\ ToSet(q[l]) = {Establishment(c)} \cup ToSet(q'[l])
      /\ \A k \in Io : k # l => q'[k] = q[k]
      /\ \A x : x # Establishment(c) => \A k \in Io : Same(q[k], q'[k], x)
      /\ \A x, y : \A k \in Io : Before(q[k], x, y) => Before(q'[k], x, y)
      /\ Once(q[l], Establishment(c)) => Establishment(c) \notin ToSet(q'[l])
  BY <1>1, <1>2, PopQueue DEF IInv, Shape
<1>5. EndOf(l, c) /\ state[c] = "connecting" /\ sock[c] = "open"
  BY <1>1, <1>4 DEF LifeOf, EndOf
<1>6. TypeInv'
  BY <1>1, <1>3 DEF IInv, Shape, TypeInv, mainVars
<1>7. ScriptInv' /\ MainQueueInv' /\ MainInv'
  BY <1>1, <1>3, QuietSame, MainFrame DEF IInv, Shape, mainVars, QuietScript, QuietMainQueue
<1>8. ASSUME NEW d \in Conn, d # c PROVE LifeOf(d)'
  <2>1. \A op \in {"establish", "cleanup", "destroy"} : Do(op, d) # Establishment(c)
    BY <1>8 DEF Establishment, Do
  <2>2. state'[d] = state[d] /\ events'[d] = events[d]
    BY <1>3, <1>8 DEF IInv, Shape, TypeInv
  <2>3. Kept(d)
    BY <1>1, <1>3, <1>4, <2>1, <2>2 DEF Kept, Same, mainVars
  <2> QED
    BY <2>3, KeptLife, Lives DEF IInv
<1>9. LifeOf(c)'
  <2>0. /\ Removal(c)' = Removal(c) /\ Destruction(c)' = Destruction(c) /\ Establishment(c)' = Establishment(c)
        /\ CleanupOf(c)' = CleanupOf(c) /\ Destruction(c) # Establishment(c) /\ CleanupOf(c) # Establishment(c)
    BY DEF Removal, Destruction, Establishment, CleanupOf, Do
  <2>1. state'[c] = "connected"
    BY <1>3 DEF IInv, Shape, TypeInv
  <2>2. StateOf(c)'
    BY <1>1, <1>5, <2>1 DEF LifeOf, StateOf, Connected, mainVars
  <2>3. Removal(c) \notin ToSet(mq) \cup ToSet(mbatch) /\ \A k \in Io : Removal(c) \notin ToSet(script[k])
    BY <1>1, <1>5 DEF LifeOf, RemoveOf
  <2>4. RemoveOf(c)'
    BY <1>1, <1>3, <2>0, <2>3 DEF LifeOf, RemoveOf, mainVars
  <2>5. SightOf(c)'
    BY <1>1, <1>3, <2>0, <2>1 DEF LifeOf, SightOf
  <2>6. Destruction(c) \notin ToSet(q[l]) /\ Destruction(c) \notin ToSet(script[l])
    BY <1>4, <1>5 DEF EndOf
  <2>7. EndOf(l, c)'
    <3>1. Same(q[l], q'[l], Destruction(c)) /\ Same(q[l], q'[l], CleanupOf(c))
      BY <1>4, <2>0
    <3>2. Establishment(c) \notin ToSet(q'[l]) /\ Once(q'[l], Establishment(c))
      BY <1>4, <1>5, OnceAbsent DEF EndOf
    <3>3. Before(q'[l], Establishment(c), CleanupOf(c))
      BY <3>2, BeforeAbsent
    <3>4. UNCHANGED <<script, sock, conns>>
      BY <1>1, <1>3 DEF mainVars
    <3> QED
      BY <1>5, <2>0, <2>6, <3>1, <3>2, <3>3, <3>4 DEF EndOf, Same
  <2>8. \A k \in Io : k # l => EndOf(k, c)'
    BY <1>1, <1>4, <1>7, Elsewhere
  <2> QED
    BY <2>2, <2>4, <2>5, <2>7, <2>8 DEF LifeOf
<1>10. LifeInv'
  BY <1>8, <1>9 DEF LifeInv, LifeOf
<1>11. RegistryInv'
  <2> SUFFICES ASSUME NEW d \in Registered' PROVE Connected(d)' \/ d \in zombie' \/ \E k \in Io : Removal(d) \in ToSet(script'[k])
    BY DEF RegistryInv, Removal, Do
  <2>1. d \in Conn /\ d \in Registered
    BY <1>1, <1>6, Names DEF Registered, TypeInv
  <2>2. Connected(d) => Connected(d)'
    BY <1>3, <2>1 DEF IInv, Shape, TypeInv, Connected
  <2> QED
    BY <1>1, <1>3, <2>1, <2>2 DEF IInv, RegistryInv
<1> QED
  BY <1>1, <1>4, <1>6, <1>7, <1>10, <1>11 DEF IInv, Shape, SocketSafe

(* A send that another thread has queued. *)
LEMMA SendTaskInv ==
    ASSUME IInv, NEW l \in Io, RunTask(l), Head(q[l]).op = "send"
    PROVE  IInv'
<1>1. PICK c \in Conn :
              /\ c = Head(q[l]).conn /\ Head(q[l]) = Do(Head(q[l]).op, c) /\ loopOf[c] = l /\ LifeOf(c)
              /\ q[l] # <<>> /\ script[l] = <<>> /\ ToSet(script[l]) = {} /\ ~dead
              /\ q' = [q EXCEPT ![l] = Tail(@)]
              /\ UNCHANGED <<mainVars, dead, mq, active, loopOf, sock, metrics, session, zombie, bad>>
  BY TaskOf
<1>2. Head(q[l]) = Do("send", c)
  BY <1>1
<1>3. script' = [script EXCEPT ![l] = <<Do("send", c)>>] /\ UNCHANGED <<state, events, closecb>>
  BY <1>2 DEF RunTask
<1>4. <<Do("send", c)>> \in Seq(Step) /\ ToSet(<<Do("send", c)>>) = {Do("send", c)} /\ IoStep(l, Do("send", c))
  <2>1. Do("send", c) \in Step /\ IoStep(l, Do("send", c))
    BY <1>1, OwnSteps
  <2> QED
    BY <2>1, SetTuples
<1>5. /\ ScriptInv' /\ script'[Main] = script[Main]
      /\ \A k \in Io : k # l => script'[k] = script[k]
      /\ \A x : x \notin {Do("send", c)} => \A k \in Io : Same(script[k], script'[k], x)
  BY <1>1, <1>3, <1>4, FreshScript, ZenonT(30)
<1>6. QuietScript
  <2>1. \A d \in Conn : Destruction(d) # Do("send", c) /\ Removal(d) # Do("send", c)
    BY DEF Destruction, Removal, Do
  <2> QED
    BY <1>1, <1>5, <2>1 DEF QuietScript
<1>7. QuietQueue
  <2>1. \A d \in Conn : \A op \in {"establish", "cleanup", "destroy"} : Do(op, d) # Do("send", c)
    BY DEF Do
  <2>2. /\ QueueInv'
        /\ \A x : x # Do("send", c) => \A k \in Io : Same(q[k], q'[k], x)
        /\ \A x, y : \A k \in Io : Before(q[k], x, y) => Before(q'[k], x, y)
    BY <1>1, <1>2, PopQueue DEF IInv, Shape
  <2> QED
    BY <2>1, <2>2 DEF QuietQueue
<1>8. TypeInv'
  BY <1>1, <1>3 DEF IInv, Shape, TypeInv, mainVars
<1>9. QuietMainQueue
  BY <1>1, QuietSame DEF IInv, mainVars
<1>10. QuietConn
  BY <1>1, <1>3 DEF QuietConn, Registered, mainVars
<1>11. MainInv'
  BY <1>1, <1>5, MainFrame DEF IInv, mainVars
<1> QED
  BY <1>6, <1>7, <1>8, <1>9, <1>10, <1>11, QuietInv DEF Quiet

(* The task that ends a connection: connection_destroyed, or the clean-up  *)
(* that the stop posted.                                                   *)
LEMMA EndTaskInv ==
    ASSUME IInv, NEW l \in Io, RunTask(l), Head(q[l]).op \in {"destroy", "cleanup"}
    PROVE  IInv'
<1>1. PICK c \in Conn :
              /\ c = Head(q[l]).conn /\ Head(q[l]) = Do(Head(q[l]).op, c) /\ loopOf[c] = l /\ LifeOf(c)
              /\ q[l] # <<>> /\ script[l] = <<>> /\ ToSet(script[l]) = {} /\ ~dead
              /\ q' = [q EXCEPT ![l] = Tail(@)]
              /\ UNCHANGED <<mainVars, dead, mq, active, loopOf, sock, metrics, session, zombie, bad>>
  BY TaskOf
<1>2. PICK x \in {Destruction(c), CleanupOf(c)} : x = Head(q[l])
  BY <1>1 DEF Destruction, CleanupOf
<1>3. PICK steps \in {<<Destruction(c)>>, Cleanup(c)} :
         /\ script' = [script EXCEPT ![l] = steps] /\ (x = Destruction(c) => steps = <<Destruction(c)>>)
         /\ (x = CleanupOf(c) => steps = Cleanup(c))
  <2>1. CASE x = Destruction(c)
    <3>1. script' = [script EXCEPT ![l] = <<Destruction(c)>>] /\ x # CleanupOf(c)
      BY <1>2, <2>1 DEF RunTask, Destruction, CleanupOf, Do
    <3> QED
      BY <2>1, <3>1
  <2>2. CASE x = CleanupOf(c)
    <3>1. script' = [script EXCEPT ![l] = Cleanup(c)] /\ x # Destruction(c)
      BY <1>1, <1>2, <2>2 DEF RunTask, Destruction, CleanupOf, Do
    <3> QED
      BY <2>2, <3>1
  <2> QED
    BY <2>1, <2>2
<1>4. UNCHANGED <<state, events>> /\ closecb' = IF x = CleanupOf(c) THEN [closecb EXCEPT ![c] = "none"] ELSE closecb
  BY <1>1, <1>2 DEF RunTask, Destruction, CleanupOf, Do
<1>5. /\ steps \in Seq(Step) /\ ToSet(steps) \subseteq {Do("close", c), Destruction(c), Do("promise", c)}
      /\ Destruction(c) \in ToSet(steps) /\ Once(steps, Destruction(c)) /\ \A y \in ToSet(steps) : IoStep(l, y)
      /\ x = CleanupOf(c) => steps # <<>> /\ Head(steps) = Do("close", c)
  <2>1. /\ Do("close", c) \in Step /\ Destruction(c) \in Step /\ Do("promise", c) \in Step
        /\ IoStep(l, Do("close", c)) /\ IoStep(l, Destruction(c)) /\ IoStep(l, Do("promise", c))
    BY <1>1, OwnSteps DEF OwnOp, Destruction
  <2>2. /\ ToSet(<<Destruction(c)>>) = {Destruction(c)} /\ <<Destruction(c)>> \in Seq(Step)
        /\ Once(<<Destruction(c)>>, Destruction(c))
    BY <2>1, SetTuples DEF Once
  <2>3. Cleanup(c) = <<Do("close", c), Destruction(c), Do("promise", c)>>
    BY DEF Cleanup, Destruction
  <2>4. /\ ToSet(Cleanup(c)) = {Do("close", c), Destruction(c), Do("promise", c)} /\ Cleanup(c) \in Seq(Step)
    BY <2>1, <2>3, SetTuples
  <2>5. Destruction(c) # Do("close", c) /\ Destruction(c) # Do("promise", c)
    BY DEF Destruction, Do
  <2>6. Once(Cleanup(c), Destruction(c)) /\ Cleanup(c) # <<>> /\ Head(Cleanup(c)) = Do("close", c)
    <3>1. /\ DOMAIN Cleanup(c) = {1, 2, 3} /\ Cleanup(c)[1] = Do("close", c) /\ Cleanup(c)[3] = Do("promise", c)
          /\ Cleanup(c) # <<>> /\ Head(Cleanup(c)) = Do("close", c)
      BY <2>3
    <3> QED
      BY <2>5, <3>1 DEF Once
  <2>7. x = CleanupOf(c) => steps # <<>> /\ Head(steps) = Do("close", c)
    BY <1>3, <2>6
  <2>8. CASE steps = <<Destruction(c)>>
    BY <2>1, <2>2, <2>7, <2>8
  <2>9. CASE steps = Cleanup(c)
    BY <2>1, <2>4, <2>6, <2>7, <2>9
  <2> QED
    BY <1>3, <2>8, <2>9
<1>6. /\ ScriptInv' /\ script'[l] = steps /\ script'[Main] = script[Main]
      /\ \A k \in Io : k # l => script'[k] = script[k]
      /\ \A y : y \notin ToSet(steps) => \A k \in Io : Same(script[k], script'[k], y)
  BY <1>1, <1>3, <1>5, FreshScript
<1>7. /\ QueueInv' /\ q[l] \in Seq(Step) /\ ToSet(q[l]) = {x} \cup ToSet(q'[l])
      /\ \A y : y # x => \A k \in Io : Same(q[k], q'[k], y)
      /\ \A y, z : \A k \in Io : Before(q[k], y, z) => Before(q'[k], y, z)
      /\ Once(q[l], x) => x \notin ToSet(q'[l])
  BY <1>1, <1>2, PopQueue DEF IInv, Shape
<1>8. EndOf(l, c) /\ sock[c] = "open" /\ c \notin conns
  BY <1>1, <1>2, <1>7 DEF LifeOf, EndOf
<1>9. TypeInv'
  BY <1>1, <1>4 DEF IInv, Shape, TypeInv, mainVars
<1>10. MainQueueInv' /\ MainInv'
  BY <1>1, <1>6, QuietSame, MainFrame DEF IInv, Shape, mainVars, QuietMainQueue
<1>11. ASSUME NEW d \in Conn, d # c PROVE LifeOf(d)'
  <2>1. Destruction(d) \notin ToSet(steps) /\ Removal(d) \notin ToSet(steps)
    BY <1>5, <1>11 DEF Destruction, Removal, Do
  <2>2. \A op \in {"establish", "cleanup", "destroy"} : Do(op, d) # x
    BY <1>11 DEF Destruction, CleanupOf, Do
  <2>3. closecb'[d] = closecb[d]
    BY <1>4, <1>11 DEF IInv, Shape, TypeInv
  <2>4. \A k \in Io : /\ Same(script[k], script'[k], Destruction(d)) /\ Same(script[k], script'[k], Removal(d))
                      /\ script'[k] = script[k] \/ script[k] = <<>>
    BY <1>1, <1>6, <2>1
  <2>5. \A k \in Io : /\ \A op \in {"establish", "cleanup", "destroy"} : Same(q[k], q'[k], Do(op, d))
                      /\ Before(q[k], Establishment(d), CleanupOf(d)) => Before(q'[k], Establishment(d), CleanupOf(d))
    BY <1>7, <2>2
  <2>6. Kept(d)
    BY <1>1, <1>4, <2>3, <2>4, <2>5 DEF Kept, Same, mainVars
  <2> QED
    BY <2>6, KeptLife, Lives DEF IInv
<1>12. LifeOf(c)'
  <2>0. /\ Removal(c)' = Removal(c) /\ Destruction(c)' = Destruction(c) /\ Establishment(c)' = Establishment(c)
        /\ CleanupOf(c)' = CleanupOf(c) /\ Destruction(c) # Establishment(c) /\ CleanupOf(c) # Establishment(c)
        /\ Destruction(c) # CleanupOf(c) /\ Do("close", c)' = Do("close", c)
    BY DEF Removal, Destruction, Establishment, CleanupOf, Do
  <2>1. StateOf(c)'
    BY <1>1, <1>4 DEF LifeOf, StateOf, Connected, mainVars
  <2>2. \A k \in Io : Same(script[k], script'[k], Removal(c))
    <3>1. Removal(c) \notin ToSet(steps)
      BY <1>5 DEF Removal, Destruction, Do
    <3> QED
      BY <1>6, <3>1
  <2>3. RemoveOf(c)'
    BY <1>1, <1>4, <2>0, <2>2 DEF LifeOf, RemoveOf, Same, mainVars
  <2>4. Destruction(c) \in ToSet(script'[l])
    BY <1>5, <1>6
  <2>5. SightOf(c)'
    BY <2>0, <2>4 DEF SightOf, Ending
  <2>6. Establishment(c) \notin ToSet(q[l]) /\ Establishment(c) \notin ToSet(q'[l])
    <3>1. CASE x = Destruction(c)
      BY <1>7, <1>8, <3>1 DEF EndOf
    <3>2. CASE x = CleanupOf(c)
      BY <1>1, <1>2, <1>7, <1>8, <3>2, BeforeTail DEF EndOf
    <3> QED
      BY <3>1, <3>2, <1>7
  <2>7. CleanupOf(c) \notin ToSet(q'[l]) /\ Destruction(c) \notin ToSet(q'[l])
    <3>1. CASE x = Destruction(c)
      BY <1>7, <1>8, <3>1 DEF EndOf
    <3>2. CASE x = CleanupOf(c)
      BY <1>7, <1>8, <3>2 DEF EndOf
    <3> QED
      BY <3>1, <3>2
  <2>8. Connected(c)' => script'[l] # <<>> /\ Head(script'[l]) = Do("close", c)
    <3>1. CASE x = Destruction(c)
      <4>1. state[c] = "disconnected"
        BY <1>7, <1>8, <3>1 DEF EndOf
      <4> QED
        BY <1>4, <4>1 DEF Connected
    <3>2. CASE x = CleanupOf(c)
      BY <1>5, <1>6, <3>2
    <3> QED
      BY <3>1, <3>2
  <2>9. EndOf(l, c)'
    <3>1. /\ Once(q'[l], Establishment(c)) /\ Once(q'[l], CleanupOf(c)) /\ Once(q'[l], Destruction(c))
          /\ Before(q'[l], Establishment(c), CleanupOf(c))
      BY <2>6, <2>7, OnceAbsent, BeforeAbsent
    <3>2. Once(script'[l], Destruction(c))
      BY <1>5, <1>6
    <3>3. UNCHANGED <<sock, conns>>
      BY <1>1 DEF mainVars
    <3> QED
      BY <1>8, <2>0, <2>6, <2>7, <2>8, <3>1, <3>2, <3>3 DEF EndOf
  <2>10. \A k \in Io : k # l => EndOf(k, c)'
    BY <1>1, <1>6, <1>7, Elsewhere
  <2> QED
    BY <2>1, <2>3, <2>5, <2>9, <2>10 DEF LifeOf
<1>13. LifeInv'
  BY <1>11, <1>12 DEF LifeInv, LifeOf
<1>14. RegistryInv'
  <2> SUFFICES ASSUME NEW d \in Registered' PROVE Connected(d)' \/ d \in zombie' \/ \E k \in Io : Removal(d) \in ToSet(script'[k])
    BY DEF RegistryInv, Removal, Do
  <2>1. d \in Registered /\ Removal(d) \notin ToSet(steps)
    BY <1>1, <1>5 DEF Registered, Removal, Destruction, Do
  <2> QED
    BY <1>1, <1>4, <1>6, <2>1 DEF IInv, RegistryInv, Connected, Same
<1> QED
  BY <1>1, <1>6, <1>7, <1>9, <1>10, <1>13, <1>14 DEF IInv, Shape, SocketSafe

(* Accept: nothing is known yet of a connection that was never accepted. *)
LEMMA AcceptInv ==
    ASSUME IInv, NEW c \in Conn, NEW l \in Io, Accept(c, l)
    PROVE  IInv'
<1>1. state[c] = "none" /\ started
  BY DEF Accept
<1>2. /\ conns' = conns \cup {c} /\ loopOf' = [loopOf EXCEPT ![c] = l] /\ sock' = [sock EXCEPT ![c] = "open"]
      /\ state' = [state EXCEPT ![c] = "connecting"] /\ closecb' = [closecb EXCEPT ![c] = "remove"]
      /\ q' = [q EXCEPT ![l] = Append(@, Establishment(c))]
      /\ UNCHANGED <<started, signalled, mstop, phase, mbatch, dead, mq, active, script, events, metrics, session, zombie, bad>>
  BY DEF Accept, Establishment, wsVars
<1>3. LifeOf(c) /\ loopOf[c] = None /\ sock[c] = "none" /\ c \notin conns /\ events[c] = {}
  BY <1>1, Lives DEF IInv, LifeOf, StateOf, Connected
<1>4. \A k \in Io : loopOf[c] # k
  BY <1>3, Names
<1>5. Establishment(c) \in Step /\ Establishment(c).op = "establish" /\ Establishment(c).conn = c
  BY DoStep DEF Establishment, QueueOp
<1>6. /\ q' \in [Io -> Seq(Step)] /\ q'[l] = Append(q[l], Establishment(c)) /\ q[l] \in Seq(Step)
      /\ ToSet(q'[l]) = ToSet(q[l]) \cup {Establishment(c)}
      /\ \A k \in Io : k # l => q'[k] = q[k]
  BY <1>2, <1>5, QueueSet DEF IInv, Shape
<1>7. loopOf'[c] = l /\ \A d \in Conn : d # c => loopOf'[d] = loopOf[d]
  BY <1>2 DEF IInv, Shape, TypeInv
<1>8. \A d \in Conn : loopOf[d] \in Io => loopOf'[d] = loopOf[d]
  BY <1>4, <1>7
<1>9. QueueInv'
  <2> SUFFICES ASSUME NEW k \in Io, NEW x \in ToSet(q'[k]) PROVE IoTask(k, x)'
    BY <1>6 DEF QueueInv
  <2>1. CASE x \in ToSet(q[k])
    <3>1. IoTask(k, x)
      BY <2>1 DEF IInv, Shape, QueueInv
    <3> QED
      BY <1>8, <3>1 DEF IoTask
  <2>2. CASE x \notin ToSet(q[k])
    <3>1. k = l /\ x = Establishment(c)
      BY <1>6, <2>2
    <3> QED
      BY <1>5, <1>7, <3>1 DEF IoTask, QueueOp
  <2> QED
    BY <2>1, <2>2
<1>10. ScriptInv'
  <2> SUFFICES ASSUME NEW k \in Io, NEW x \in ToSet(script'[k]) PROVE IoStep(k, x)'
    BY <1>2 DEF IInv, Shape, ScriptInv
  <2>1. IoStep(k, x)
    BY <1>2 DEF IInv, Shape, ScriptInv
  <2> QED
    BY <1>8, <2>1 DEF IoStep, OwnOp
<1>11. TypeInv'
  <2>1. \A k \in Io : \A d \in active[k] : d \in Conn /\ loopOf'[d] = k
    BY <1>8 DEF IInv, Shape, TypeInv
  <2> QED
    BY <1>2, <2>1 DEF IInv, Shape, TypeInv
<1>12. MainQueueInv' /\ MainInv'
  BY <1>2, QuietSame, MainFrame DEF IInv, Shape, QuietMainQueue
<1>13. ASSUME NEW d \in Conn, d # c PROVE LifeOf(d)'
  <2>1. \A op \in {"establish", "cleanup", "destroy"} : Do(op, d) # Establishment(c)
    BY <1>13 DEF Establishment, Do
  <2>2. /\ state'[d] = state[d] /\ sock'[d] = sock[d] /\ closecb'[d] = closecb[d] /\ loopOf'[d] = loopOf[d]
        /\ d \in conns' <=> d \in conns
    BY <1>2, <1>13 DEF IInv, Shape, TypeInv
  <2>3. ASSUME NEW k \in Io
        PROVE  /\ \A op \in {"establish", "cleanup", "destroy"} : Same(q[k], q'[k], Do(op, d))
               /\ Before(q[k], Establishment(d), CleanupOf(d)) => Before(q'[k], Establishment(d), CleanupOf(d))
    <3>1. CASE k = l
      <4>1. ASSUME NEW op \in {"establish", "cleanup", "destroy"} PROVE Same(q[k], q'[k], Do(op, d))
        <5>1. Once(q[k], Do(op, d)) => Once(q'[k], Do(op, d))
          BY <1>5, <1>6, <2>1, <3>1, OnceAppend
        <5> QED
          BY <1>6, <2>1, <3>1, <5>1 DEF Same
      <4>2. Establishment(d) # Establishment(c) /\ Establishment(d) # CleanupOf(d)
        BY <1>13 DEF Establishment, CleanupOf, Do
      <4>3. Before(q[k], Establishment(d), CleanupOf(d)) => Before(q'[k], Establishment(d), CleanupOf(d))
        BY <1>5, <1>6, <3>1, <4>2, BeforeAppend
      <4> QED
        BY <4>1, <4>3
    <3>2. CASE k # l
      BY <1>6, <3>2 DEF Same
    <3> QED
      BY <3>1, <3>2
  <2>4. Kept(d)
    BY <1>2, <2>2, <2>3 DEF Kept, Same
  <2> QED
    BY <2>4, KeptLife, Lives DEF IInv
<1>14. LifeOf(c)'
  <2>0. /\ Removal(c)' = Removal(c) /\ Destruction(c)' = Destruction(c) /\ Establishment(c)' = Establishment(c)
        /\ CleanupOf(c)' = CleanupOf(c) /\ Destruction(c) # Establishment(c) /\ CleanupOf(c) # Establishment(c)
    BY DEF Removal, Destruction, Establishment, CleanupOf, Do
  <2>1. state'[c] = "connecting" /\ sock'[c] = "open" /\ closecb'[c] = "remove" /\ c \in conns'
    BY <1>2 DEF IInv, Shape, TypeInv
  <2>2. StateOf(c)'
    BY <1>1, <1>2, <1>3, <1>7, <2>1, Names DEF StateOf, Connected
  <2>3. Removal(c) \notin ToSet(mq) \cup ToSet(mbatch) /\ \A k \in Io : Removal(c) \notin ToSet(script[k])
    BY <1>1, <1>3 DEF LifeOf, RemoveOf
  <2>4. RemoveOf(c)'
    BY <1>2, <1>3, <2>0, <2>3 DEF LifeOf, RemoveOf
  <2>5. SightOf(c)'
    BY <2>1 DEF SightOf
  <2>6. /\ Establishment(c) \notin ToSet(q[l]) /\ CleanupOf(c) \notin ToSet(q[l]) /\ Destruction(c) \notin ToSet(q[l])
        /\ Destruction(c) \notin ToSet(script[l])
    BY <1>4 DEF IInv, Shape, ScriptInv, QueueInv, IoStep, IoTask, OwnOp, Establishment, CleanupOf, Destruction, Do
  <2>7. EndOf(l, c)'
    <3>1. CleanupOf(c) \notin ToSet(q'[l]) /\ Destruction(c) \notin ToSet(q'[l]) /\ Destruction(c) \notin ToSet(script'[l])
      BY <1>2, <1>6, <2>0, <2>6
    <3>2. /\ Once(q'[l], CleanupOf(c)) /\ Once(q'[l], Destruction(c)) /\ Once(script'[l], Destruction(c))
          /\ Before(q'[l], Establishment(c), CleanupOf(c))
      BY <3>1, OnceAbsent, BeforeAbsent
    <3>3. Once(q[l], Establishment(c))
      BY <2>6, OnceAbsent
    <3>4. Once(q'[l], Establishment(c))
      BY <1>5, <1>6, <2>6, <3>3, OnceAppend
    <3> QED
      BY <2>0, <2>1, <3>1, <3>2, <3>4 DEF EndOf
  <2>8. \A k \in Io : k # l => EndOf(k, c)'
    BY <1>7, <1>9, <1>10, Elsewhere
  <2> QED
    BY <2>2, <2>4, <2>5, <2>7, <2>8 DEF LifeOf
<1>15. LifeInv'
  BY <1>13, <1>14 DEF LifeInv, LifeOf
<1>16. RegistryInv'
  <2> SUFFICES ASSUME NEW d \in Registered' PROVE Connected(d)' \/ d \in zombie' \/ \E k \in Io : Removal(d) \in ToSet(script'[k])
    BY DEF RegistryInv, Removal, Do
  <2>1. d \in Conn /\ d \in Registered
    BY <1>2, <1>11, Names DEF Registered, TypeInv
  <2>2. Connected(d) => Connected(d)'
    BY <1>1, <1>2, <2>1 DEF IInv, Shape, TypeInv, Connected
  <2> QED
    BY <1>2, <2>1, <2>2 DEF IInv, RegistryInv
<1> QED
  BY <1>2, <1>9, <1>10, <1>11, <1>12, <1>15, <1>16 DEF IInv, Shape, SocketSafe

(* The main loop takes its tasks out. *)
LEMMA MainSwapInv ==
    ASSUME IInv, MainSwap
    PROVE  IInv'
<1>1. /\ mbatch = <<>> /\ mbatch' = mq /\ mq' = <<>>
      /\ UNCHANGED <<conns, started, signalled, mstop, phase, dead, q, active, script, connVars, metrics, session, zombie, bad>>
  BY DEF MainSwap, MainIdle, wsVars
<1>2. ToSet(<<>>) = {} /\ <<>> \in Seq(Step)
  BY SetTuples
<1>3. TypeInv' /\ ScriptInv' /\ QueueInv'
  BY <1>1, QuietSame DEF IInv, Shape, TypeInv, connVars, QuietScript, QuietQueue
<1>4. MainQueueInv'
  BY <1>1, <1>2 DEF IInv, Shape, MainQueueInv, MainStepOf
<1>5. MainInv'
  BY <1>1, <1>2, MainFrame DEF IInv
<1>6. ASSUME NEW c \in Conn PROVE LifeOf(c)'
  <2>0. LifeOf(c) /\ Removal(c)' = Removal(c) /\ Destruction(c)' = Destruction(c) /\ CleanupOf(c)' = CleanupOf(c)
    BY Lives DEF IInv, Removal, Destruction, CleanupOf, Do
  <2>1. StateOf(c)'
    BY <1>1, <2>0 DEF LifeOf, StateOf, Connected, connVars
  <2>2. Once(<<>>, Removal(c))
    BY <1>2, OnceAbsent
  <2>3. RemoveOf(c)'
    BY <1>1, <1>2, <2>0, <2>2 DEF LifeOf, RemoveOf, connVars
  <2>4. SightOf(c)'
    BY <1>1, <1>2, <2>0 DEF LifeOf, SightOf, Ending, connVars
  <2>5. \A l \in Io : EndOf(l, c)'
    BY <1>1, <2>0 DEF LifeOf, EndOf, connVars, Establishment, Connected, Do
  <2> QED
    BY <2>1, <2>3, <2>4, <2>5 DEF LifeOf
<1>7. LifeInv'
  BY <1>6 DEF LifeInv, LifeOf
<1>8. RegistryInv'
  BY <1>1 DEF IInv, RegistryInv, Registered, Connected, Removal, Do, connVars
<1> QED
  BY <1>1, <1>3, <1>4, <1>5, <1>7, <1>8 DEF IInv, Shape, SocketSafe

(* The main loop takes the next of its tasks. *)
LEMMA PopBatch ==
    ASSUME MainQueueInv, mbatch # <<>>, mbatch' = Tail(mbatch), mq' = mq
    PROVE  /\ MainQueueInv' /\ Head(mbatch) \in Step /\ MainStepOf(Head(mbatch))
           /\ ToSet(mbatch) = {Head(mbatch)} \cup ToSet(mbatch')
           /\ \A x : x # Head(mbatch) => Same(mbatch, mbatch', x)
           /\ Once(mbatch, Head(mbatch)) => Head(mbatch) \notin ToSet(mbatch')
<1>1. mbatch \in Seq(Step) /\ mq \in Seq(Step)
  BY DEF MainQueueInv
<1>2. ToSet(mbatch) = {Head(mbatch)} \cup ToSet(mbatch') /\ mbatch' \in Seq(Step) /\ Head(mbatch) \in Step
  BY <1>1, SetTail
<1>3. MainQueueInv' /\ MainStepOf(Head(mbatch))
  BY <1>1, <1>2 DEF MainQueueInv, MainStepOf
<1>4. ASSUME NEW x, x # Head(mbatch) PROVE Same(mbatch, mbatch', x)
  <2>1. Once(mbatch, x) => Once(mbatch', x)
    BY <1>1, OnceTail
  <2> QED
    BY <1>2, <1>4, <2>1 DEF Same
<1>5. Once(mbatch, Head(mbatch)) => Head(mbatch) \notin ToSet(mbatch')
  BY <1>1, OnceTail
<1> QED
  BY <1>2, <1>3, <1>4, <1>5

(* remove_connection_in_loop: the connection is out of the map and its     *)
(* destruction is queued, or the IO loops are gone.                        *)
LEMMA RemoveTaskInv ==
    ASSUME IInv, MainTask, Head(mbatch).op = "remove"
    PROVE  IInv'
<1>1. script[Main] = <<>> /\ mbatch # <<>> /\ mbatch' = Tail(mbatch)
      /\ UNCHANGED <<script, started, signalled, mstop, dead, mq, active, connVars, metrics, session, zombie>>
  BY DEF MainTask, wsVars
<1>2. PICK c \in Conn : c = Head(mbatch).conn /\ Head(mbatch) = Removal(c)
  <2>1. Head(mbatch) \in Step /\ MainStepOf(Head(mbatch))
    BY <1>1, PopBatch DEF IInv, Shape
  <2> QED
    BY <2>1, StepIs DEF MainStepOf, Removal
<1>3. /\ MainQueueInv' /\ ToSet(mbatch) = {Removal(c)} \cup ToSet(mbatch')
      /\ \A x : x # Removal(c) => Same(mbatch, mbatch', x)
      /\ Once(mbatch, Removal(c)) => Removal(c) \notin ToSet(mbatch')
  BY <1>1, <1>2, PopBatch DEF IInv, Shape
<1>4. LifeOf(c) /\ state[c] = "disconnected" /\ (started => c \in conns)
  <2>1. LifeOf(c)
    BY Lives DEF IInv
  <2> QED
    BY <1>3, <2>1 DEF LifeOf, RemoveOf
<1>5. PICK l \in Io : l = loopOf[c]
  BY <1>4 DEF LifeOf, StateOf, IInv, Shape, TypeInv
<1>6. started \/ dead
  BY <1>1, EmptyMain DEF IInv, MainInv, Stopping
<1>7. conns' = conns \ {c}
  BY <1>2 DEF MainTask, Forgotten
<1>8. /\ dead => q' = q /\ bad' = bad \cup {"dead loop"}
      /\ ~dead => q' = [q EXCEPT ![l] = Append(@, Destruction(c))] /\ bad' = bad
  <2>1. IF dead THEN bad' = bad \cup {"dead loop"} /\ UNCHANGED q ELSE q' = DestroyTask(c) /\ UNCHANGED bad
    BY <1>2 DEF MainTask
  <2> QED
    BY <1>5, <2>1 DEF DestroyTask, Destruction
<1>9. Destruction(c) \in Step /\ IoTask(l, Destruction(c)) /\ Removal(c)' = Removal(c) /\ Destruction(c)' = Destruction(c)
      /\ Establishment(c)' = Establishment(c) /\ CleanupOf(c)' = CleanupOf(c) /\ Destruction(c) # Establishment(c)
      /\ CleanupOf(c) # Establishment(c) /\ Destruction(c) # CleanupOf(c)
  BY <1>5, DoStep DEF IoTask, QueueOp, Destruction, Removal, Establishment, CleanupOf, Do
<1>10. /\ q' \in [Io -> Seq(Step)]
       /\ \A k \in Io : k # l => q'[k] = q[k]
       /\ dead => q' = q
       /\ ~dead => /\ q'[l] = Append(q[l], Destruction(c)) /\ q[l] \in Seq(Step)
                   /\ ToSet(q'[l]) = ToSet(q[l]) \cup {Destruction(c)}
  <2>1. CASE dead
    BY <1>8, <2>1 DEF IInv, Shape, QueueInv
  <2>2. CASE ~dead
    BY <1>8, <1>9, <2>2, QueueSet DEF IInv, Shape
  <2> QED
    BY <2>1, <2>2
<1>11. QueueInv'
  <2> SUFFICES ASSUME NEW k \in Io, NEW x \in ToSet(q'[k]) PROVE IoTask(k, x)'
    BY <1>10 DEF QueueInv
  <2>1. IoTask(k, x)
    BY <1>9, <1>10 DEF IInv, Shape, QueueInv
  <2> QED
    BY <1>1, <2>1 DEF IoTask, connVars
<1>12. ScriptInv' /\ TypeInv'
  BY <1>1, <1>7, QuietSame DEF IInv, Shape, TypeInv, connVars, QuietScript
<1>13. MainInv'
  BY <1>1, <1>3, MainFrame DEF IInv
<1>14. ASSUME NEW d \in Conn, d # c PROVE LifeOf(d)'
  <2>1. Removal(d) # Removal(c) /\ \A op \in {"establish", "cleanup", "destroy"} : Do(op, d) # Destruction(c)
    BY <1>14 DEF Removal, Destruction, Do
  <2>2. ASSUME NEW k \in Io
        PROVE  /\ \A op \in {"establish", "cleanup", "destroy"} : Same(q[k], q'[k], Do(op, d))
               /\ Before(q[k], Establishment(d), CleanupOf(d)) => Before(q'[k], Establishment(d), CleanupOf(d))
    <3>1. CASE k # l \/ dead
      <4>1. q'[k] = q[k]
        BY <1>10, <3>1
      <4> QED
        BY <4>1 DEF Same
    <3>2. CASE k = l /\ ~dead
      <4>1. ASSUME NEW op \in {"establish", "cleanup", "destroy"} PROVE Same(q[k], q'[k], Do(op, d))
        <5>1. Do(op, d) # Destruction(c)
          BY <2>1
        <5>2. Once(q[k], Do(op, d)) => Once(q'[k], Do(op, d))
          BY <1>9, <1>10, <3>2, <5>1, OnceAppend
        <5>3. ToSet(q'[k]) = ToSet(q[k]) \cup {Destruction(c)}
          BY <1>10, <3>2
        <5> QED
          BY <5>1, <5>2, <5>3 DEF Same
      <4>2. Establishment(d) # Destruction(c) /\ Establishment(d) # CleanupOf(d)
        BY DEF Establishment, Destruction, CleanupOf, Do
      <4>3. Before(q[k], Establishment(d), CleanupOf(d)) => Before(q'[k], Establishment(d), CleanupOf(d))
        BY <1>9, <1>10, <3>2, <4>2, BeforeAppend
      <4> QED
        BY <4>1, <4>3
    <3> QED
      BY <3>1, <3>2
  <2>3. Same(mbatch, mbatch', Removal(d)) /\ (d \in conns' <=> d \in conns)
    BY <1>3, <1>7, <1>14, <2>1
  <2>4. Kept(d)
    BY <1>1, <2>2, <2>3 DEF Kept, Same, connVars
  <2> QED
    BY <2>4, KeptLife, Lives DEF IInv
<1>15. LifeOf(c)'
  <2>1. StateOf(c)'
    BY <1>1, <1>4, <1>7 DEF LifeOf, StateOf, Connected, connVars
  <2>2. /\ Removal(c) \notin ToSet(mbatch') /\ Once(mbatch', Removal(c)) /\ Removal(c) \notin ToSet(mq)
        /\ \A k \in Io : Removal(c) \notin ToSet(script[k])
    <3>1. Removal(c) \notin ToSet(mbatch')
      BY <1>3, <1>4 DEF LifeOf, RemoveOf
    <3> QED
      BY <1>3, <1>4, <3>1, OnceAbsent DEF LifeOf, RemoveOf
  <2>3. RemoveOf(c)'
    BY <1>1, <1>4, <1>9, <2>2 DEF LifeOf, RemoveOf
  <2>4. SightOf(c)'
    <3>1. closecb[c] = "none" /\ sock[c] = "open" => \E k \in Io : Destruction(c) \in ToSet(script[k])
      BY <1>4 DEF LifeOf, SightOf
    <3>2. ~dead => Destruction(c) \in ToSet(q'[l])
      BY <1>10
    <3> QED
      BY <1>1, <1>9, <3>1, <3>2 DEF SightOf, Ending, connVars
  <2>5. EndOf(l, c)'
    <3>1. EndOf(l, c)
      BY <1>4 DEF LifeOf
    <3>2. CASE dead
      BY <1>1, <1>7, <1>9, <1>10, <3>1, <3>2 DEF EndOf, Connected, connVars, Do
    <3>3. CASE ~dead
      <4>1. sock[c] = "open" /\ c \in conns
        BY <1>4, <1>6, <3>3 DEF LifeOf, StateOf
      <4>2. /\ CleanupOf(c) \notin ToSet(q[l]) /\ Destruction(c) \notin ToSet(q[l]) /\ Destruction(c) \notin ToSet(script[l])
            /\ Establishment(c) \notin ToSet(q[l])
        BY <1>4, <3>1, <4>1 DEF EndOf
      <4>3. /\ CleanupOf(c) \notin ToSet(q'[l]) /\ Establishment(c) \notin ToSet(q'[l])
        BY <1>9, <1>10, <3>3, <4>2
      <4>4. Once(q'[l], CleanupOf(c)) /\ Once(q'[l], Establishment(c)) /\ Before(q'[l], Establishment(c), CleanupOf(c))
        BY <4>3, OnceAbsent, BeforeAbsent
      <4>5. Once(q[l], Destruction(c))
        BY <4>2, OnceAbsent
      <4>6. Once(q'[l], Destruction(c))
        <5>1. q'[l] = Append(q[l], Destruction(c)) /\ q[l] \in Seq(Step) /\ Destruction(c) \in Step
          BY <1>9, <1>10, <3>3
        <5>2. Once(Append(q[l], Destruction(c)), Destruction(c))
          BY <4>2, <4>5, <5>1, OnceAppend
        <5> QED
          BY <5>1, <5>2
      <4>7. state'[c] = "disconnected" /\ sock'[c] = "open" /\ c \notin conns' /\ ~Connected(c)'
            /\ Once(script'[l], Destruction(c)) /\ Destruction(c) \notin ToSet(script'[l])
        BY <1>1, <1>4, <1>7, <3>1, <4>1, <4>2 DEF EndOf, Connected, connVars
      <4> QED
        BY <1>9, <4>3, <4>4, <4>6, <4>7 DEF EndOf
    <3> QED
      BY <3>2, <3>3
  <2>6. \A k \in Io : k # l => EndOf(k, c)'
    BY <1>1, <1>5, <1>11, <1>12, Elsewhere DEF connVars
  <2> QED
    BY <2>1, <2>3, <2>4, <2>5, <2>6 DEF LifeOf
<1>16. LifeInv'
  BY <1>14, <1>15 DEF LifeInv, LifeOf
<1>17. RegistryInv'
  BY <1>1 DEF IInv, RegistryInv, Registered, Connected, Removal, Do, connVars
<1>18. SocketSafe'
  BY <1>8 DEF IInv, SocketSafe
<1> QED
  BY <1>3, <1>11, <1>12, <1>13, <1>16, <1>17, <1>18 DEF IInv, Shape

(* The stop that another thread has posted. *)
LEMMA StopTaskInv ==
    ASSUME IInv, MainTask, Head(mbatch).op = "stop"
    PROVE  IInv'
<1>1. script[Main] = <<>> /\ mbatch # <<>> /\ mbatch' = Tail(mbatch) /\ script' = [script EXCEPT ![Main] = StopScript]
      /\ UNCHANGED <<conns, q, bad, started, signalled, mstop, dead, mq, active, connVars, metrics, session, zombie>>
  BY DEF MainTask, wsVars
<1>2. StopScript \in Seq(Step) /\ MainScript(StopScript, 3)
  <2>1. StopScript \in Seq(Step)
    BY DoStep, SetTuples DEF StopScript, Does, StopOp
  <2>2. MainScript(<<>>, 0) /\ <<>> \in Seq(Step)
    BY EmptyMain, SetTuples
  <2> QED
    BY <2>1, <2>2, PushMain, ConcatEmptySeq
<1>3. /\ script' \in [Thread -> Seq(Step)] /\ script'[Main] = StopScript
      /\ \A l \in Io : script'[l] = script[l]
  BY <1>1, <1>2, MainParts
<1>4. /\ MainQueueInv' /\ ToSet(mbatch) = {Head(mbatch)} \cup ToSet(mbatch')
      /\ \A x : x # Head(mbatch) => Same(mbatch, mbatch', x)
  BY <1>1, PopBatch DEF IInv, Shape
<1>5. QuietMainQueue
  <2>1. \A c \in Conn : Removal(c) # Head(mbatch)
    BY DEF Removal, Do
  <2> QED
    BY <1>1, <1>4, <2>1 DEF QuietMainQueue, Same
<1>6. signalled
  BY <1>4 DEF IInv, MainInv
<1>7. ~started => dead
  BY <1>1, EmptyMain DEF IInv, MainInv, Stopping
<1>8. Stopping(3)'
  BY <1>1, <1>2, <1>3, <1>6, <1>7 DEF Stopping
<1>9. MainInv'
  BY <1>1, <1>6, <1>8 DEF IInv, MainInv
<1> QED
  BY <1>1, <1>3, <1>5, <1>9, MainScriptInv DEF IInv, Shape, TypeInv

(* A stop that finds the server stopped leaves what it interrupted. *)
LEMMA DropMain ==
    ASSUME NEW s \in Seq(Step), MainScript(s, 3)
    PROVE  MainScript(SubSeq(s, 4, Len(s)), 0) /\ SubSeq(s, 4, Len(s)) \in Seq(Step)
<1>1. Len(s) \in Nat /\ Len(s) >= 3 /\ \A i \in 1..Len(s) : s[i] \in Step
  BY LenProperties, ElementOfSeq DEF MainScript
<1>2. PICK n \in Nat : n = Len(s) - 3
  BY <1>1
<1>3. PICK r \in Seq(Step) : /\ r = SubSeq(s, 4, Len(s)) /\ Len(r) = n
                             /\ \A i \in 1..n : r[i] = s[i + 3]
  <2>1. \A i \in 4..Len(s) : s[i] \in Step
    BY <1>1
  <2>2. /\ SubSeq(s, 4, Len(s)) \in Seq(Step)
        /\ Len(SubSeq(s, 4, Len(s))) = IF 4 <= Len(s) THEN Len(s) - 4 + 1 ELSE 0
        /\ \A i \in 1..(Len(s) - 4 + 1) : SubSeq(s, 4, Len(s))[i] = s[4 + i - 1]
    BY <1>1, <2>1, SubSeqProperties
  <2>3. Len(SubSeq(s, 4, Len(s))) = n
    BY <1>1, <1>2, <2>2
  <2>4. ASSUME NEW i \in 1..n PROVE SubSeq(s, 4, Len(s))[i] = s[i + 3]
    <3>1. i \in 1..(Len(s) - 4 + 1) /\ 4 + i - 1 = i + 3
      BY <1>1, <1>2
    <3> QED
      BY <2>2, <3>1
  <2> QED
    BY <2>2, <2>3, <2>4
<1>4. \A i \in 1..n : i + 3 \in 4..Len(s)
  BY <1>1, <1>2
<1>5. \A i \in 1..n : r[i].op \in PlainMainOp /\ (r[i].op = "send" => r[i].conn \in Conn)
  BY <1>3, <1>4 DEF MainScript
<1>6. MainScript(r, 0)
  BY <1>3, <1>5 DEF MainScript
<1> QED
  BY <1>3, <1>6

(* The clean-ups that stop_in_loop posts to a loop, one for each of the    *)
(* connections that the loop has. *)
LEMMA CleanupTasks ==
    ASSUME IInv, NEW l \in Io
    PROVE  \E t \in Seq(Step) :
              /\ t = SetToSeq({Do("cleanup", c) : c \in {d \in conns : loopOf[d] = l}})
              /\ \A x : Once(t, x)
              /\ \A x \in ToSet(t) : \E d \in conns : x = CleanupOf(d) /\ loopOf[d] = l
<1> DEFINE D == {d \in conns : loopOf[d] = l}
           S == {Do("cleanup", c) : c \in D}
<1>1. D \subseteq Conn
  BY DEF IInv, Shape, TypeInv
<1>2. IsFiniteSet(S) /\ S \subseteq Step
  <2> HIDE DEF D
  <2> QED
    BY <1>1, StepsFinite DEF QueueOp
<1>3. \A x \in S : \E d \in conns : x = CleanupOf(d) /\ loopOf[d] = l
  BY DEF CleanupOf
<1> HIDE DEF S
<1>4. SetToSeq(S) \in Seq(S) /\ ToSet(SetToSeq(S)) \subseteq S /\ \A x : Once(SetToSeq(S), x)
  BY <1>2, SetToSeqOnce
<1>5. SetToSeq(S) \in Seq(Step)
  BY <1>2, <1>4, SeqMonotonic
<1>6. \E t \in Seq(Step) : /\ t = SetToSeq(S) /\ \A x : Once(t, x)
                           /\ \A x \in ToSet(t) : \E d \in conns : x = CleanupOf(d) /\ loopOf[d] = l
  BY <1>3, <1>4, <1>5
<1> QED
  BY <1>6 DEF S

(* stop_in_loop, on a server that was started: the map is emptied, and     *)
(* every connection that was in it gets its clean-up.                      *)
LEMMA StopStartedInv ==
    ASSUME IInv, StopInLoop, started
    PROVE  IInv'
<1>1. /\ script[Main] # <<>> /\ Head(script[Main]).op = "stop" /\ started' = FALSE /\ conns' = {}
      /\ q' = [l \in Io |-> q[l] \o SetToSeq({Do("cleanup", c) : c \in {d \in conns : loopOf[d] = l}})]
      /\ Then(Main, <<>>)
      /\ UNCHANGED <<signalled, mstop, mbatch, dead, mq, active, connVars, metrics, session, zombie, bad>>
  BY DEF StopInLoop, At, wsVars
<1>2. /\ script' \in [Thread -> Seq(Step)] /\ script'[Main] = Tail(script[Main])
      /\ \A l \in Io : script'[l] = script[l]
  BY <1>1, MainPops
<1>3. Stopping(3) /\ MainScript(Tail(script[Main]), 2)
  <2>1. PICK n \in 0..3 : Stopping(n)
    BY DEF IInv, MainInv
  <2>2. n = 3 /\ MainScript(Tail(script[Main]), IF n = 0 THEN 0 ELSE n - 1)
    BY <1>1, <2>1, MainParts, PopMain, SMTT(30) DEF Stopping, PlainMainOp
  <2> QED
    BY <2>1, <2>2
<1>4. MainInv'
  <2>1. signalled /\ ~dead
    BY <1>3 DEF Stopping, IInv, MainInv
  <2>2. Stopping(2)'
    BY <1>1, <1>2, <1>3, <2>1 DEF Stopping
  <2> QED
    BY <1>1, <2>1, <2>2 DEF MainInv
<1>5. ScriptInv' /\ MainQueueInv'
  BY <1>1, <1>2, MainQuiet, QuietSame DEF IInv, Shape, connVars, QuietScript, QuietMainQueue
<1>6. TypeInv'
  BY <1>1 DEF IInv, Shape, TypeInv, connVars
<1>7. ASSUME NEW l \in Io
      PROVE  \E t \in Seq(Step) :
                /\ q'[l] = q[l] \o t /\ q[l] \in Seq(Step) /\ q'[l] \in Seq(Step)
                /\ ToSet(q'[l]) = ToSet(q[l]) \cup ToSet(t)
                /\ \A x : Once(t, x)
                /\ \A x \in ToSet(t) : \E d \in conns : x = CleanupOf(d) /\ loopOf[d] = l
  <2>1. PICK t \in Seq(Step) :
              /\ t = SetToSeq({Do("cleanup", c) : c \in {d \in conns : loopOf[d] = l}})
              /\ \A x : Once(t, x)
              /\ \A x \in ToSet(t) : \E d \in conns : x = CleanupOf(d) /\ loopOf[d] = l
    BY CleanupTasks
  <2>2. q'[l] = q[l] \o t
    BY <1>1, <2>1
  <2>3. q[l] \in Seq(Step)
    BY DEF IInv, Shape, QueueInv
  <2>4. ToSet(q[l] \o t) = ToSet(q[l]) \cup ToSet(t) /\ q[l] \o t \in Seq(Step)
    BY <2>3, SetConcat
  <2>5. q'[l] \in Seq(Step) /\ ToSet(q'[l]) = ToSet(q[l]) \cup ToSet(t)
    BY <2>2, <2>4
  <2> QED
    BY <2>1, <2>2, <2>3, <2>5
<1>8. QueueInv'
  <2>1. q' \in [Io -> Seq(Step)]
    <3>1. \A l \in Io : q'[l] \in Seq(Step)
      BY <1>7
    <3>2. q' = [l \in Io |-> q'[l]]
      BY <1>1
    <3> QED
      BY <3>1, <3>2
  <2>2. ASSUME NEW l \in Io, NEW x \in ToSet(q'[l]) PROVE IoTask(l, x)
    <3>1. x \in ToSet(q[l]) \/ \E d \in conns : x = CleanupOf(d) /\ loopOf[d] = l
      BY <1>7
    <3>2. \A d \in conns : loopOf[d] = l => IoTask(l, CleanupOf(d))
      BY DoStep DEF IoTask, CleanupOf, QueueOp, IInv, Shape, TypeInv
    <3> QED
      BY <3>1, <3>2 DEF IInv, Shape, QueueInv
  <2>3. ASSUME NEW l \in Io, NEW x \in ToSet(q'[l]) PROVE IoTask(l, x)'
    BY <1>1, <2>2 DEF IoTask, connVars
  <2> QED
    BY <2>1, <2>3 DEF QueueInv
<1>9. ASSUME NEW c \in Conn PROVE LifeOf(c)'
  <2>0. /\ LifeOf(c) /\ Removal(c)' = Removal(c) /\ Destruction(c)' = Destruction(c) /\ CleanupOf(c)' = CleanupOf(c)
        /\ Establishment(c)' = Establishment(c) /\ Do("close", c)' = Do("close", c)
    BY Lives DEF IInv, Removal, Destruction, CleanupOf, Establishment, Do
  <2>1. StateOf(c)'
    BY <1>1, <2>0 DEF LifeOf, StateOf, Connected, connVars
  <2>2. RemoveOf(c)'
    BY <1>1, <1>2, <2>0 DEF LifeOf, RemoveOf, connVars
  <2>3. SightOf(c)'
    <3>1. \A l \in Io : ToSet(q[l]) \subseteq ToSet(q'[l])
      BY <1>7
    <3>2. Ending(c) => Ending(c)'
      BY <1>1, <1>2, <2>0, <3>1 DEF Ending
    <3> QED
      BY <1>1, <1>2, <2>0, <3>2 DEF LifeOf, SightOf, connVars
  <2>4. ASSUME NEW l \in Io PROVE EndOf(l, c)'
    <3>1. EndOf(l, c)
      BY <2>0 DEF LifeOf
    <3>2. PICK t \in Seq(Step) :
                /\ q'[l] = q[l] \o t /\ q[l] \in Seq(Step)
                /\ ToSet(q'[l]) = ToSet(q[l]) \cup ToSet(t)
                /\ \A x : Once(t, x)
                /\ \A x \in ToSet(t) : \E d \in conns : x = CleanupOf(d) /\ loopOf[d] = l
      BY <1>7
    <3>3. Establishment(c) \notin ToSet(t) /\ Destruction(c) \notin ToSet(t) /\ (CleanupOf(c) \in ToSet(t) => c \in conns)
      BY <3>2 DEF Establishment, Destruction, CleanupOf, Do
    <3>4. Once(q'[l], Establishment(c)) /\ Once(q'[l], Destruction(c)) /\ Before(q'[l], Establishment(c), CleanupOf(c))
      <4>1. Once(q[l] \o t, Establishment(c)) /\ Once(q[l] \o t, Destruction(c))
        BY <3>1, <3>2, <3>3, OnceConcat DEF EndOf
      <4>2. Before(q[l] \o t, Establishment(c), CleanupOf(c))
        BY <3>1, <3>2, <3>3, BeforeConcat DEF EndOf
      <4> QED
        BY <3>2, <4>1, <4>2
    <3>5. c \in conns => /\ CleanupOf(c) \notin ToSet(q[l]) /\ Destruction(c) \notin ToSet(q[l])
                         /\ Destruction(c) \notin ToSet(script[l]) /\ sock[c] = "open"
      BY <2>0, <3>1 DEF EndOf, LifeOf, StateOf
    <3>6. Once(q'[l], CleanupOf(c))
      <4>1. CleanupOf(c) \notin ToSet(q[l]) \/ CleanupOf(c) \notin ToSet(t)
        BY <3>3, <3>5
      <4>2. Once(q[l] \o t, CleanupOf(c))
        BY <3>1, <3>2, <4>1, OnceConcat DEF EndOf
      <4> QED
        BY <3>2, <4>2
    <3>7. script'[l] = script[l] /\ state' = state /\ sock' = sock /\ c \notin conns' /\ (Connected(c)' <=> Connected(c))
      BY <1>1, <1>2 DEF connVars, Connected
    <3>8. /\ Establishment(c) \in ToSet(q'[l]) <=> Establishment(c) \in ToSet(q[l])
          /\ Destruction(c) \in ToSet(q'[l]) <=> Destruction(c) \in ToSet(q[l])
          /\ CleanupOf(c) \in ToSet(q'[l]) => CleanupOf(c) \in ToSet(q[l]) \/ c \in conns
      BY <3>2, <3>3
    <3> QED
      BY <2>0, <3>1, <3>4, <3>5, <3>6, <3>7, <3>8 DEF EndOf
  <2> QED
    BY <2>1, <2>2, <2>3, <2>4 DEF LifeOf
<1>10. LifeInv'
  BY <1>9 DEF LifeInv, LifeOf
<1>11. RegistryInv'
  BY <1>1, <1>2 DEF IInv, RegistryInv, Registered, Connected, Removal, Do, connVars
<1> QED
  BY <1>1, <1>4, <1>5, <1>6, <1>8, <1>10, <1>11 DEF IInv, Shape, SocketSafe

(* stop_in_loop, on a server that was stopped already. *)
LEMMA StopAgainInv ==
    ASSUME IInv, StopInLoop, ~started
    PROVE  IInv'
<1>1. /\ script[Main] # <<>> /\ Head(script[Main]).op = "stop"
      /\ script' = [script EXCEPT ![Main] = SubSeq(@, Len(StopScript) + 1, Len(@))]
      /\ UNCHANGED <<started, conns, q, signalled, mstop, mbatch, dead, mq, active, connVars, metrics, session, zombie, bad>>
  BY DEF StopInLoop, At, wsVars
<1>2. Stopping(3)
  <2>1. PICK n \in 0..3 : Stopping(n)
    BY DEF IInv, MainInv
  <2>2. n = 3
    BY <1>1, <2>1, MainParts, PopMain DEF Stopping, PlainMainOp
  <2> QED
    BY <2>1, <2>2
<1>3. PICK r \in Seq(Step) : r = SubSeq(script[Main], 4, Len(script[Main])) /\ MainScript(r, 0)
  BY <1>2, MainParts, DropMain DEF Stopping
<1>4. script' = [script EXCEPT ![Main] = r]
  <2>1. Len(StopScript) + 1 = 4
    BY DEF StopScript
  <2> QED
    BY <1>1, <1>3, <2>1
<1>5. /\ script' \in [Thread -> Seq(Step)] /\ script'[Main] = r
      /\ \A l \in Io : script'[l] = script[l]
  BY <1>4, MainParts
<1>6. Stopping(0)' /\ signalled
  <2>1. signalled /\ dead
    BY <1>2 DEF Stopping
  <2>2. MainScript(script[Main], 0)'
    BY <1>3, <1>5 DEF MainScript
  <2> QED
    BY <1>1, <2>1, <2>2 DEF Stopping
<1>7. MainInv'
  BY <1>1, <1>6 DEF IInv, MainInv
<1>8. QuietMainQueue
  BY <1>1, QuietSame DEF IInv
<1> QED
  BY <1>1, <1>5, <1>7, <1>8, MainScriptInv DEF IInv, Shape, TypeInv

(* thread_pool_.reset(): the loops are gone, and with them their tasks.    *)
LEMMA PoolResetInv ==
    ASSUME IInv, PoolReset
    PROVE  IInv'
<1>1. /\ script[Main] # <<>> /\ Head(script[Main]).op = "reset" /\ dead' = TRUE /\ q' = [l \in Io |-> <<>>]
      /\ Then(Main, <<>>) /\ (\A l \in Io : script[l] = <<>>)
      /\ UNCHANGED <<mainVars, mq, active, connVars, metrics, session, zombie, bad>>
  BY DEF PoolReset, At, Idle, wsVars
<1>2. /\ script' \in [Thread -> Seq(Step)] /\ script'[Main] = Tail(script[Main])
      /\ \A l \in Io : script'[l] = script[l]
  BY <1>1, MainPops
<1>3. Stopping(1) /\ MainScript(Tail(script[Main]), 0)
  <2>1. PICK n \in 0..3 : Stopping(n)
    BY DEF IInv, MainInv
  <2>2. n = 1 /\ MainScript(Tail(script[Main]), IF n = 0 THEN 0 ELSE n - 1)
    BY <1>1, <2>1, MainParts, PopMain DEF Stopping, PlainMainOp
  <2> QED
    BY <2>1, <2>2
<1>4. MainInv'
  <2>1. signalled /\ ~started
    BY <1>3 DEF Stopping
  <2>2. Stopping(0)'
    BY <1>1, <1>2, <1>3, <2>1 DEF Stopping, mainVars
  <2> QED
    BY <1>1, <2>1, <2>2 DEF MainInv, mainVars
<1>5. ScriptInv' /\ MainQueueInv'
  BY <1>1, <1>2, MainQuiet, QuietSame DEF IInv, Shape, connVars, mainVars, QuietScript, QuietMainQueue
<1>6. TypeInv'
  BY <1>1 DEF IInv, Shape, TypeInv, connVars, mainVars
<1>7. ToSet(<<>>) = {} /\ <<>> \in Seq(Step)
  BY SetTuples
<1>8. QueueInv'
  BY <1>1, <1>7 DEF QueueInv
<1>9. ASSUME NEW c \in Conn PROVE LifeOf(c)'
  <2>0. /\ LifeOf(c) /\ Removal(c)' = Removal(c) /\ Destruction(c)' = Destruction(c) /\ CleanupOf(c)' = CleanupOf(c)
        /\ Establishment(c)' = Establishment(c)
    BY Lives DEF IInv, Removal, Destruction, CleanupOf, Establishment, Do
  <2>1. StateOf(c)'
    BY <1>1, <2>0 DEF LifeOf, StateOf, Connected, connVars, mainVars
  <2>2. RemoveOf(c)'
    BY <1>1, <1>2, <2>0 DEF LifeOf, RemoveOf, connVars, mainVars
  <2>3. SightOf(c)'
    BY <1>1, <1>2, <2>0 DEF LifeOf, SightOf, connVars
  <2>4. ASSUME NEW l \in Io PROVE EndOf(l, c)'
    <3>1. q'[l] = <<>> /\ script'[l] = <<>>
      BY <1>1, <1>2
    <3>2. \A x : Once(<<>>, x) /\ \A y : Before(<<>>, x, y)
      BY <1>7, OnceAbsent, BeforeAbsent
    <3> QED
      BY <1>7, <3>1, <3>2 DEF EndOf
  <2> QED
    BY <2>1, <2>2, <2>3, <2>4 DEF LifeOf
<1>10. LifeInv'
  BY <1>9 DEF LifeInv, LifeOf
<1>11. RegistryInv'
  BY <1>1, <1>2 DEF IInv, RegistryInv, Registered, Connected, Removal, Do, connVars
<1> QED
  BY <1>1, <1>4, <1>5, <1>6, <1>8, <1>10, <1>11 DEF IInv, Shape, SocketSafe

(* stop_in_loop *)
LEMMA StopInLoopInv ==
    ASSUME IInv, StopInLoop
    PROVE  IInv'
BY StopStartedInv, StopAgainInv

-------------------------------------------------------------------------------
(* The invariant *)

(* It holds before anything has happened. *)
LEMMA InitIInv == Init => IInv
<1> SUFFICES ASSUME Init PROVE IInv
  OBVIOUS
<1>1. ToSet(<<>>) = {} /\ <<>> \in Seq(Step) /\ MainScript(<<>>, 0)
  BY SetTuples, EmptyMain
<1>2. \A x : Once(<<>>, x) /\ \A y : Before(<<>>, x, y)
  BY <1>1, OnceAbsent, BeforeAbsent
<1>3. Shape
  <2>1. TypeInv
    BY Names DEF Init, TypeInv
  <2>2. script \in [Thread -> Seq(Step)] /\ q \in [Io -> Seq(Step)] /\ mq \in Seq(Step) /\ mbatch \in Seq(Step)
    BY <1>1 DEF Init
  <2>3. /\ \A l \in Io : ToSet(script[l]) = {} /\ ToSet(q[l]) = {}
        /\ ToSet(mq) = {} /\ ToSet(mbatch) = {}
    BY <1>1 DEF Init, Thread
  <2> QED
    BY <2>1, <2>2, <2>3 DEF Shape, ScriptInv, QueueInv, MainQueueInv
<1>4. script[Main] = <<>> /\ (\A l \in Io : script[l] = <<>> /\ q[l] = <<>>) /\ mq = <<>> /\ mbatch = <<>>
  BY DEF Init, Thread
<1>5. MainInv
  <2>1. started /\ ~dead /\ ~mstop
    BY DEF Init
  <2>2. Stopping(0)
    BY <1>1, <1>4, <2>1 DEF Stopping
  <2> QED
    BY <1>1, <1>4, <2>1, <2>2 DEF MainInv
<1>6. ASSUME NEW c \in Conn PROVE StateOf(c) /\ RemoveOf(c) /\ SightOf(c)
  BY <1>1, <1>2, <1>4 DEF Init, StateOf, Connected, RemoveOf, SightOf
<1>7. ASSUME NEW c \in Conn, NEW l \in Io PROVE EndOf(l, c)
  BY <1>1, <1>2, <1>4 DEF EndOf
<1>8. RegistryInv /\ SocketSafe
  BY DEF Init, RegistryInv, Registered, SocketSafe
<1> QED
  BY <1>3, <1>5, <1>6, <1>7, <1>8 DEF IInv, LifeInv

(* Every step of every thread keeps it. *)
LEMMA NextIInv == IInv /\ [Next]_vars => IInv'
<1> SUFFICES ASSUME IInv, [Next]_vars PROVE IInv'
  OBVIOUS
<1>1. ASSUME NEW l \in Io, Poll(l) \/ HandleEvent(l) \/ RunTask(l) \/ ScriptStep(l) PROVE IInv'
  <2>1. CASE Poll(l)
    BY <2>1, PollInv
  <2>2. CASE HandleEvent(l)
    BY <2>2, HandleEventInv
  <2>3. CASE RunTask(l)
    <3>1. Head(q[l]).op \in {"establish", "send", "destroy", "cleanup"}
      BY <2>3 DEF RunTask
    <3> QED
      BY <2>3, <3>1, EstablishInv, SendTaskInv, EndTaskInv
  <2>4. CASE ScriptStep(l)
    <3>1. CASE Close(l)
      BY <3>1, CloseInv
    <3>2. CASE Read(l)
      BY <3>2, ReadInv
    <3>3. CASE Respond(l) \/ Send(l)
      BY <3>3, SendInv
    <3>4. CASE Write(l)
      BY <3>4, WriteInv
    <3>5. CASE Destroy(l)
      BY <3>5, DestroyInv
    <3>6. CASE RemoveSession(l)
      BY <3>6, RemoveSessionInv
    <3>7. CASE Promise(l) \/ Register(l) \/ Push(l) \/ Unlock(l)
      BY <3>7, RegistryStepInv
    <3> QED
      BY <2>4, <3>1, <3>2, <3>3, <3>4, <3>5, <3>6, <3>7 DEF ScriptStep
  <2> QED
    BY <1>1, <2>1, <2>2, <2>3, <2>4
<1>2. CASE MainStep
  <2>1. CASE Send(Main) \/ Unlock(Main) \/ StopLoop \/ StopWait
    BY <2>1, MainPlainInv
  <2>2. CASE MainTask
    <3>1. Head(mbatch).op \in {"remove", "stop"}
      BY <2>2 DEF MainTask
    <3> QED
      BY <2>2, <3>1, RemoveTaskInv, StopTaskInv
  <2>3. CASE StopInLoop
    BY <2>3, StopInLoopInv
  <2>4. CASE PoolReset
    BY <2>4, PoolResetInv
  <2>5. CASE Down
    BY <2>5, DownInv
  <2> QED
    BY <1>2, <2>1, <2>2, <2>3, <2>4, <2>5 DEF MainStep
<1>3. CASE MainSwap \/ Broadcast \/ LoopExit
  BY <1>3, MainSwapInv, BroadcastInv, LoopExitInv
<1>4. ASSUME NEW c \in Conn, NEW l \in Io, Accept(c, l) PROVE IInv'
  BY <1>4, AcceptInv
<1>5. ASSUME NEW t \in Thread, Signal(t) PROVE IInv'
  BY <1>5, SignalInv
<1>6. CASE UNCHANGED vars
  <2>1. UNCHANGED <<conns, started, dead, q, active, connVars, metrics, session, zombie, bad, script, mq, mbatch,
                    signalled, mstop>>
    BY <1>6 DEF vars, mainVars, wsVars
  <2>2. MainInv'
    BY <2>1, MainFrame DEF IInv
  <2>3. QuietMainQueue
    BY <2>1, QuietSame DEF IInv
  <2> QED
    BY <2>1, <2>2, <2>3, MainParts, MainScriptInv DEF IInv, Shape, TypeInv
<1> QED
  BY <1>1, <1>2, <1>3, <1>4, <1>5, <1>6 DEF Next

(* It holds in every state of the server. *)
LEMMA IInvHolds == Spec => []IInv
BY InitIInv, NextIInv, PTL DEF Spec

(* connection_destroyed runs at most once for a connection, and nothing    *)
(* reads or writes its socket afterwards, however the closing, the main    *)
(* loop's remove_connection_in_loop and stop_in_loop's clean-up interleave,*)
(* for any number of connections and IO threads.                           *)
THEOREM SocketsSafe == Spec => []SocketSafe
<1>1. IInv => SocketSafe
  BY DEF IInv
<1> QED
  BY <1>1, IInvHolds, PTL

(* From handle_close until connection_destroyed the connection is never    *)
(* forgotten: its removal, destruction or clean-up is pending in its IO    *)
(* thread, in the main loop's tasks or in its IO loop's, until the IO      *)
(* loops themselves are gone.                                              *)
THEOREM EndAlwaysInSight == Spec => []EndInSight
<1>1. IInv => EndInSight
  <2> SUFFICES ASSUME IInv, NEW c \in Conn, state[c] = "disconnected", sock[c] = "open", ~dead
               PROVE  \E task \in Tasks : task.conn = c /\ task.op \in {"remove", "destroy", "cleanup"}
    BY DEF EndInSight
  <2>1. Ending(c)
    BY DEF IInv, LifeInv, SightOf
  <2>2. Removal(c) \in Tasks \/ CleanupOf(c) \in Tasks \/ Destruction(c) \in Tasks
    <3>1. CASE Removal(c) \in ToSet(mq) \cup ToSet(mbatch)
      BY <3>1 DEF Tasks, ToSet
    <3>2. CASE \E l \in Io : CleanupOf(c) \in ToSet(q[l]) \/ Destruction(c) \in ToSet(q[l])
      <4>1. PICK l \in Io : CleanupOf(c) \in ToSet(q[l]) \/ Destruction(c) \in ToSet(q[l])
        BY <3>2
      <4>2. ToSet(q[l]) \in {{q[k][i] : i \in DOMAIN q[k]} : k \in Io}
        BY DEF ToSet
      <4> QED
        BY <4>1, <4>2 DEF Tasks
    <3>3. CASE \E l \in Io : Destruction(c) \in ToSet(script[l]) \/ Removal(c) \in ToSet(script[l])
      <4>1. PICK l \in Io : Destruction(c) \in ToSet(script[l]) \/ Removal(c) \in ToSet(script[l])
        BY <3>3
      <4>2. ToSet(script[l]) \in {{script[k][i] : i \in DOMAIN script[k]} : k \in Thread}
        BY DEF ToSet, Thread
      <4> QED
        BY <4>1, <4>2 DEF Tasks
    <3> QED
      BY <2>1, <3>1, <3>2, <3>3 DEF Ending
  <2> QED
    BY <2>2 DEF Removal, CleanupOf, Destruction, Do
<1> QED
  BY <1>1, IInvHolds, PTL

(* The WebSocket registry keeps no closed connection, except one whose     *)
(* remove_session is still to come in its thread, or one that was          *)
(* registered after it was closed.                                         *)
THEOREM RegistryStaysClean == Spec => []RegistryClean
<1>1. IInv => RegistryClean
  <2> SUFFICES ASSUME IInv, NEW c \in Registered
               PROVE  \/ Connected(c) \/ c \in zombie
                      \/ \E l \in Io : \E i \in DOMAIN script[l] : script[l][i] = Do("remove", c)
    BY DEF RegistryClean, Registered
  <2>1. Connected(c) \/ c \in zombie \/ \E l \in Io : Removal(c) \in ToSet(script[l])
    BY DEF IInv, RegistryInv
  <2> QED
    BY <2>1 DEF Removal, ToSet
<1> QED
  BY <1>1, IInvHolds, PTL
===============================================================================
