------------------------------ MODULE Admission ------------------------------
(***************************************************************************)
(* What a request passes before its handler runs, in the IO threads: the   *)
(* sliding window of RateLimiter (a Redis sorted set for each client       *)
(* address), the authentication by a JSON Web Token, and the handlers that *)
(* issue the tokens (register and login).                                  *)
(*                                                                         *)
(* allow() takes its time stamp before it calls Redis, so the stamps of    *)
(* several threads can reach the script out of order.  Redis and the       *)
(* program share one clock, which does not go back.  A member of the       *)
(* sorted set is <stamp>:<seq_>, unique since seq_ is atomic: the set is   *)
(* represented by the number of members of each stamp.                     *)
(***************************************************************************)
EXTENDS Integers, FiniteSets, Base64Url

CONSTANTS
    Thread,     \* IO threads
    Ip,         \* client addresses
    Limit,      \* limits.rate_limit_per_ip
    Window,     \* kWindowSeconds, in ticks
    Ttl,        \* jwt_ttl_hours, in ticks
    Name,       \* user names, a set of byte sequences
    Secret,     \* signing keys the program can be configured with
    MaxTime,    \* the clock stops here (bound)
    MaxFaults,  \* restarts and losses of the Redis connection (bound)
    None

ASSUME AdmissionAssumption ==
    /\ Limit \in Nat \ {0} /\ Window \in Nat \ {0} /\ Ttl \in Nat \ {0}
    /\ MaxTime \in Nat /\ MaxFaults \in Nat /\ IsFiniteSet(Thread)
    /\ Name \subseteq Seq(0..255) /\ None \notin Seq(0..255)

VARIABLES
    now,
    link,      \* the Redis connection: none (ctx_ is null), up, or lost (every command fails)
    zset,      \* ratelimit:ip:<ip>: how many members have each stamp
    expiry,    \* when the key expires (PEXPIRE)
    users,     \* the rows of users, by their name
    secret,    \* JwtUtil::secret_
    tokens,    \* the tokens clients have been given
    job,       \* what each thread is doing
    admitted,  \* history: the stamps the script has let through
    faults

admitVars == <<now, link, zset, expiry, users, secret, tokens, job, admitted, faults>>

Time == 0..MaxTime
NoStamps == [s \in Time |-> 0]

(* Kinds of paths: is_exempt and is_whitelisted agree on the static ones.  *)
Path == {"static", "public", "register", "login", "private"}
is_exempt(path) == path = "static"
is_whitelisted(path) == path # "private"

IdleJob == [pc |-> "idle", ip |-> None, path |-> None, name |-> None, token |-> None, stamp |-> 0]

AdmitInit ==
    /\ now = 0 /\ link \in {"none", "up"}
    /\ zset = [i \in Ip |-> NoStamps] /\ expiry = [i \in Ip |-> MaxTime + 1]
    /\ users = {} /\ secret \in Secret /\ tokens = {}
    /\ job = [t \in Thread |-> IdleJob]
    /\ admitted = [i \in Ip |-> NoStamps] /\ faults = 0

Become(t, j) == job' = [job EXCEPT ![t] = j]
Goto(t, l)   == Become(t, [job[t] EXCEPT !.pc = l])
Answer(t)    == Become(t, IdleJob)

-------------------------------------------------------------------------------
(* RateLimiter *)

(* resolve_client_ip: the first address of X-Forwarded-For, unless there   *)
(* is none or it is blank.                                                 *)
resolve_client_ip(forwarded, peer) ==
    IF forwarded # <<>> /\ Head(forwarded) # None THEN Head(forwarded) ELSE peer

Arrive(t, path, forwarded, peer, name, token) ==
    /\ job[t].pc = "idle"
    /\ Become(t, [IdleJob EXCEPT !.pc = IF is_exempt(path) THEN "authenticate" ELSE "allow",
                                 !.ip = resolve_client_ip(forwarded, peer),
                                 !.path = path, !.name = name, !.token = token])
    /\ UNCHANGED <<now, link, zset, expiry, users, secret, tokens, admitted, faults>>

(* allow: without Redis everything is let through; else the time is read.  *)
Allow(t) ==
    /\ job[t].pc = "allow"
    /\ IF link = "none" THEN Goto(t, "authenticate")
                        ELSE Become(t, [job[t] EXCEPT !.pc = "eval", !.stamp = now])
    /\ UNCHANGED <<now, link, zset, expiry, users, secret, tokens, admitted, faults>>

(* The script: ZREMRANGEBYSCORE removes what has left the window, ZCARD,   *)
(* and ZADD and PEXPIRE if the limit is not reached.                       *)
Recent(stamps, ts) == [s \in Time |-> IF s <= ts - Window THEN 0 ELSE stamps[s]]
MutAdded(stamps, ts) == [stamps EXCEPT ![ts] = 1]
Added(stamps, ts) == [stamps EXCEPT ![ts] = @ + 1]
MutFull(stamps) == SumFunction(stamps) >= Limit - 1
Full(stamps) == SumFunction(stamps) >= Limit

Eval(t) ==
    LET i == job[t].ip
        ts == job[t].stamp
        recent == Recent(zset[i], ts)
    IN
    /\ job[t].pc = "eval" /\ link = "up"
    /\ \/ /\ Full(recent)
          /\ zset' = [zset EXCEPT ![i] = recent]
          /\ Answer(t)
          /\ UNCHANGED <<expiry, admitted>>
       \/ /\ ~Full(recent)
          /\ zset' = [zset EXCEPT ![i] = Added(recent, ts)]
          /\ expiry' = [expiry EXCEPT ![i] = now + Window]
          /\ admitted' = [admitted EXCEPT ![i][ts] = @ + 1]
          /\ Become(t, [job[t] EXCEPT !.pc = "authenticate", !.stamp = 0])
    /\ UNCHANGED <<now, link, users, secret, tokens, faults>>

(* redisCommand returns no reply: 429, though connected() still holds.     *)
EvalLost(t) ==
    /\ job[t].pc = "eval" /\ link = "lost"
    /\ Answer(t)
    /\ UNCHANGED <<now, link, zset, expiry, users, secret, tokens, admitted, faults>>

-------------------------------------------------------------------------------
(* JwtUtil *)

(* The payload from the user name on: what precedes it is 96 bytes long, a *)
(* multiple of three, and ASCII of which no character encodes to '-' or    *)
(* '_'; what follows is a quote and a brace.                               *)
Payload(name) == name \o <<34, 125>>

generate(name) ==
    [payload |-> base64url_encode(Payload(name)), iat |-> now, exp |-> now + Ttl, signed |-> secret]

(* verify: the signature, the payload, and then its exp.                   *)
Expired(token) == token.exp < now

verify(token) ==
    LET payload == base64url_decode(token.payload, None) IN
    IF token.signed # secret \/ payload = None \/ Expired(token) THEN None
    ELSE SubSeq(payload, 1, Len(payload) - 2)

(* AuthMiddleware::authenticate, for the paths that are not whitelisted.   *)
Authenticate(t) ==
    /\ job[t].pc = "authenticate"
    /\ IF is_whitelisted(job[t].path) THEN Goto(t, "dispatch")
       ELSE IF job[t].token = None \/ verify(job[t].token) = None THEN Answer(t)
       ELSE Become(t, [job[t] EXCEPT !.pc = "dispatch", !.name = verify(job[t].token)])
    /\ UNCHANGED <<now, link, zset, expiry, users, secret, tokens, admitted, faults>>

-------------------------------------------------------------------------------
(* AuthHandler and UserDao *)

(* The INSERT of register fails on a name that is taken (409), the SELECT  *)
(* of login finds no row for an unknown name or a wrong password (401).    *)
Dispatch(t) ==
    LET name == job[t].name IN
    /\ job[t].pc = "dispatch"
    /\ \/ /\ job[t].path = "register" /\ name \notin users
          /\ users' = users \cup {name} /\ Goto(t, "issue_token")
       \/ /\ job[t].path = "login" /\ name \in users
          /\ Goto(t, "issue_token") /\ UNCHANGED users
       \/ /\ job[t].path = "register" => name \in users
          /\ Answer(t) /\ UNCHANGED users
    /\ UNCHANGED <<now, link, zset, expiry, secret, tokens, admitted, faults>>

IssueToken(t) ==
    /\ job[t].pc = "issue_token"
    /\ tokens' = tokens \cup {generate(job[t].name)}
    /\ Answer(t)
    /\ UNCHANGED <<now, link, zset, expiry, users, secret, admitted, faults>>

-------------------------------------------------------------------------------
(* The environment *)

Fault == faults < MaxFaults /\ faults' = faults + 1

(* Time passes; Redis drops the keys that have expired.                    *)
Tick ==
    /\ now < MaxTime /\ now' = now + 1
    /\ zset' = [i \in Ip |-> IF expiry[i] < now' THEN NoStamps ELSE zset[i]]
    /\ UNCHANGED <<link, expiry, users, secret, tokens, job, admitted, faults>>

(* Nothing reconnects. *)
LoseRedis ==
    /\ link = "up" /\ Fault /\ link' = "lost"
    /\ UNCHANGED <<now, zset, expiry, users, secret, tokens, job, admitted>>

(* The process is started again, with this or with another secret.         *)
Restart ==
    /\ Fault /\ job' = [t \in Thread |-> IdleJob]
    /\ link' \in {"none", "up"} /\ secret' \in Secret
    /\ UNCHANGED <<now, zset, expiry, users, tokens, admitted>>

-------------------------------------------------------------------------------
Step(t) ==
    \/ Allow(t) \/ Eval(t) \/ EvalLost(t) \/ Authenticate(t) \/ Dispatch(t) \/ IssueToken(t)

Request(t) ==
    \E peer \in Ip, forwarded \in {<<>>} \cup {<<i>> : i \in Ip \cup {None}} :
        \/ \E path \in {"static", "public"} : Arrive(t, path, forwarded, peer, None, None)
        \/ \E path \in {"register", "login"}, name \in Name : Arrive(t, path, forwarded, peer, name, None)
        \/ \E token \in tokens \cup {None} : Arrive(t, "private", forwarded, peer, None, token)

AdmitNext ==
    \/ \E t \in Thread : Step(t) \/ Request(t)
    \/ Tick \/ LoseRedis \/ Restart

AdmitSpec == AdmitInit /\ [][AdmitNext]_admitVars

-------------------------------------------------------------------------------
(* Properties *)

InWindow(i, from, to) == SumFunctionOnSet(admitted[i], {s \in Time : from < s /\ s <= to})

(* WindowBound: in any window of kWindowSeconds the script lets through at *)
(* most the limit and one request more for each thread, which may have     *)
(* read the clock before a later stamp, or the expiry of the key, removed  *)
(* what its own window still counts (allow, sliding_window_allow).         *)
WindowBound ==
    \A i \in Ip, to \in Time :
        InWindow(i, to - Window, to) <= Limit + Cardinality(Thread)

(* RefusedOnlyFull: while Redis answers, a request is refused only if the  *)
(* limit was really reached since the start of its window: refused         *)
(* requests do not count, nor do those of other addresses                  *)
(* (sliding_window_allow).                                                 *)
RefusedOnlyFull ==
    [][\A t \in Thread :
         (job[t].pc = "eval" /\ job'[t].pc = "idle" /\ link = "up" /\ faults' = faults) =>
             InWindow(job[t].ip, job[t].stamp - Window, now) >= Limit]_admitVars

UrlText(token) == \E k \in DOMAIN token.payload : token.payload[k] \in {Minus, Underscore}

Judges(t) == job[t].pc = "authenticate" /\ job[t].token # None /\ job'[t] # job[t] /\ faults' = faults
Valid(token) == token.signed = secret /\ now <= token.iat + Ttl
LetsOwnUser(t) ==
    job'[t].pc = "dispatch" /\ job[t].token.payload = base64url_encode(Payload(job'[t].name))

(* TokensExact: a token is accepted only for its own user, until the       *)
(* second in which it expires and not longer, and until the secret         *)
(* changes; and a valid one is accepted if its payload is encoded without  *)
(* '-' and '_' (generate, verify).  Valid tokens with one of the two are   *)
(* the subject of TokensRoundTrip.                                         *)
TokensExact ==
    [][\A t \in Thread : Judges(t) =>
         /\ Valid(job[t].token) /\ ~UrlText(job[t].token) => LetsOwnUser(t)
         /\ job'[t].pc = "idle" \/ (Valid(job[t].token) /\ LetsOwnUser(t))]_admitVars

(* TokensRoundTrip: every token that generate has signed with the secret   *)
(* in force and that has not expired lets its user through, whatever       *)
(* bytes the name has.  verify refutes it: the reverse table of            *)
(* base64url_decode does not know the '+' and '/' it is asked for.         *)
TokensRoundTrip ==
    [][\A t \in Thread : Judges(t) /\ Valid(job[t].token) => LetsOwnUser(t)]_admitVars
===============================================================================
