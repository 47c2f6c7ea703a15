---------------------------- MODULE MultipartUpload ----------------------------
(***************************************************************************)
(* One multipart upload: the Redis hash multipart:<upload_id>, the         *)
(* requests of MultipartUploadHandler that work on it, and the files they  *)
(* create.  load_from_redis and save_to_redis move the session one field   *)
(* (one Redis command) at a time, so requests on different IO threads see  *)
(* each other's sessions half read and half written.                       *)
(*                                                                         *)
(* Fields whose value no branch looks at (mime_type, folder_id,            *)
(* total_size) are left out, and so is chunk_size, which is the configured *)
(* one whether it is read or missing.  The object store and the file rows  *)
(* are those of ContentStore, here a put that stores and an insert that    *)
(* succeeds or throws.  Different uploads share no key.                    *)
(*                                                                         *)
(* Any Redis command may fail (the link is lost, Redis answers with an     *)
(* error): RedisClient then says nullopt or false, and the handler looks   *)
(* at neither.                                                             *)
(***************************************************************************)
EXTENDS Naturals, Sequences, FiniteSets

CONSTANTS
    Request,    \* requests that can be in flight at once (bound)
    Kind,       \* what clients send: subset of {"part", "status", "complete", "abort"}
    ChunkCount, \* the number of parts of the upload
    Version,    \* different bytes that clients send for a part (bound)
    Manner,     \* how the clients behave: some of "serial" (one request at a time),
                \* "patient" (parts in parallel, but complete and abort alone, after
                \* every answer is in) and "any"; only "any" lets the session expire
                \* under a request
    MaxFiles,   \* no complete starts once there are so many files (bound)
    MaxFaults,  \* process crashes (bound)
    Failing,    \* the commands that can fail, for each manner (bound)
    None

ASSUME MultipartAssumption ==
    /\ Kind \subseteq {"part", "status", "complete", "abort"}
    /\ ChunkCount \in Nat \ {0} /\ MaxFiles \in Nat /\ MaxFaults \in Nat
    /\ Manner \subseteq {"serial", "patient", "any"}
    /\ Failing \in [Manner -> SUBSET {"hget", "hset", "expire", "del"}]

VARIABLES
    manner, \* the clients' behaviour, chosen once
    key,    \* the Redis hash: the value of each field, None where it is not set
    ttl,    \* the key has an expiry (EXPIRE, refreshed by every save)
    job,    \* the requests in flight
    known,  \* handle_init has answered: clients have the upload_id
    files,  \* the chunk lists of the files that complete has inserted
    acked,  \* history, for serial clients: the parts answered with 200 since the
            \* session was created, each with whether all its HSETs succeeded
    failed, \* history: commands that failed, each with the kind of its request
    faults,
    died    \* history: the process has died, by a crash or by OutOfRange

vars == <<manner, key, ttl, job, known, files, acked, failed, faults, died>>

(* In the order in which both save_to_redis and load_from_redis go.        *)
Field == <<"file_name", "user_id", "chunk_count", "part_hashes", "uploaded">>
FieldName == {Field[i] : i \in DOMAIN Field}

Part == 1..ChunkCount
PartHash == Part \X Version          \* the hash of the bytes sent for a part
NoHash == <<0>>                      \* the empty string in part_hashes

(* The nil reply of HGET is neither a name nor a list of hashes or flags.  *)
ASSUME NilAssumption ==
    None # "name" /\ None \notin [Part -> PartHash \cup {NoHash}] /\ None \notin [Part -> BOOLEAN]

NoKey == [f \in FieldName |-> None]

(* What load_from_redis makes of a field that is not there.                *)
Default ==
    [file_name |-> None, user_id |-> None, chunk_count |-> 0,
     part_hashes |-> <<>>, uploaded |-> <<>>]

(* handle_init: the session of a new upload.                               *)
NewSession ==
    [file_name |-> "name", user_id |-> "user", chunk_count |-> ChunkCount,
     part_hashes |-> [p \in Part |-> NoHash], uploaded |-> [p \in Part |-> FALSE]]

IdleJob == [kind |-> "none", pc |-> "idle", at |-> 0, s |-> Default, hash |-> NoHash,
            ok |-> TRUE]  \* history: no HSET of the request has failed

InitJob == [IdleJob EXCEPT !.kind = "init", !.pc = "save", !.at = 1, !.s = NewSession]

Init ==
    /\ manner \in Manner
    /\ key = NoKey /\ ttl = FALSE
    /\ job = [r \in Request |-> IdleJob]
    /\ known = FALSE
    /\ files = <<>> /\ acked = {} /\ failed = {} /\ faults = 0 /\ died = FALSE

Become(r, j) == job' = [job EXCEPT ![r] = j]
Finish(r)    == Become(r, IdleJob)
Quiet        == \A r \in Request : job[r].pc = "idle"

(* The command c of request r fails.  History: the failures that            *)
(* PatientOneFile has to except are remembered.                            *)
Telling == {<<"hget", "complete">>, <<"hset", "init">>, <<"del", "complete">>}
Fails(r, c) == c \in Failing[manner] /\ failed' = failed \cup ({<<c, job[r].kind>>} \cap Telling)

(* The process dies and is started again: Redis keeps the key.             *)
Die == job' = [r \in Request |-> IdleJob] /\ died' = TRUE

-------------------------------------------------------------------------------
(* handle_init: no other request can name the upload yet.  A client whose  *)
(* init was not answered asks again, and the old key is nobody's.          *)
StartInit(r) ==
    /\ ~known /\ Quiet
    /\ Become(r, InitJob)
    /\ key' = NoKey /\ ttl' = FALSE
    /\ UNCHANGED <<manner, known, files, acked, failed, faults, died>>

Deciding == {"complete", "abort"}

Start(r, k, h) ==
    /\ known /\ job[r].pc = "idle" /\ k \in Kind
    /\ manner = "serial" => Quiet
    /\ manner = "patient" => /\ \A q \in Request : job[q].kind \notin Deciding
                             /\ k \in Deciding => Quiet
    /\ k = "complete" => Len(files) < MaxFiles
    /\ Become(r, [IdleJob EXCEPT !.kind = k, !.pc = "load", !.at = 1, !.hash = h])
    /\ UNCHANGED <<manner, key, ttl, known, files, acked, failed, faults, died>>

(* load_from_redis: one hget.  A command that fails is taken for a field   *)
(* that is not there; without a file_name there is no session.             *)
Loaded(f, v) == IF v = None THEN Default[f] ELSE v

Load(r) ==
    LET f == Field[job[r].at] IN
    /\ job[r].pc = "load"
    /\ \E v \in {key[f], None} :
          /\ (v = key[f] /\ UNCHANGED failed) \/ (v = None /\ Fails(r, "hget"))
          /\ IF f = "file_name" /\ v = None THEN Finish(r)
             ELSE Become(r, [job[r] EXCEPT !.s[f] = Loaded(f, v), !.at = @ + 1,
                                           !.pc = IF job[r].at = Len(Field) THEN "check" ELSE "load"])
    /\ UNCHANGED <<manner, key, ttl, known, files, acked, faults, died>>

(* The answers 403 (user_id), 400 (part_num), and status's own.            *)
Refused(j) ==
    \/ j.s.user_id # "user"
    \/ j.kind = "part" /\ j.hash[1] > j.s.chunk_count
    \/ j.kind = "complete" /\ \E p \in 1..j.s.chunk_count : p \in DOMAIN j.s.uploaded /\ ~j.s.uploaded[p]

(* operator[] past the end of a vector that was read as missing: a write   *)
(* or a read through a null pointer.                                       *)
OutOfRange(j) ==
    \/ j.kind = "part" /\ ~(j.hash[1] \in DOMAIN j.s.uploaded /\ j.hash[1] \in DOMAIN j.s.part_hashes)
    \/ j.kind = "complete" /\ \E p \in 1..j.s.chunk_count : p \notin DOMAIN j.s.uploaded

After == [part |-> "put", complete |-> "merge", abort |-> "del"]

Check(r) ==
    /\ job[r].pc = "check"
    /\ \/ /\ Refused(job[r]) \/ job[r].kind = "status"
          /\ Finish(r) /\ UNCHANGED died
       \/ /\ ~Refused(job[r]) /\ OutOfRange(job[r])
          /\ Die
       \/ /\ ~Refused(job[r]) /\ ~OutOfRange(job[r]) /\ job[r].kind # "status"
          /\ Become(r, [job[r] EXCEPT !.pc = After[job[r].kind]]) /\ UNCHANGED died
    /\ UNCHANGED <<manner, key, ttl, known, files, acked, failed, faults>>

(* uploaded[part_num] = true and part_hashes[part_num] = hash.             *)
MutMarkedAlone(s, h) ==
    [s EXCEPT !.part_hashes = [p \in Part |-> IF p = h[1] THEN h ELSE NoHash], !.uploaded[h[1]] = TRUE]
Marked(s, h) == [s EXCEPT !.part_hashes[h[1]] = h, !.uploaded[h[1]] = TRUE]

(* store_.put, then the two assignments to the local session.              *)
Put(r) ==
    /\ job[r].pc = "put"
    /\ Become(r, [job[r] EXCEPT !.pc = "save", !.at = 1, !.s = Marked(@, job[r].hash)])
    /\ UNCHANGED <<manner, key, ttl, known, files, acked, failed, faults, died>>

(* save_to_redis: one hset, and after the last of them the expire.  Their  *)
(* results are not looked at.                                              *)
Saved(j) == Field[j.at]

Save(r) ==
    /\ job[r].pc = "save"
    /\ \E ok \in BOOLEAN :
          /\ IF ok THEN key' = [key EXCEPT ![Saved(job[r])] = job[r].s[Saved(job[r])]] /\ UNCHANGED failed
                   ELSE Fails(r, "hset") /\ UNCHANGED key
          /\ Become(r, [job[r] EXCEPT !.at = @ + 1, !.ok = @ /\ ok,
                                      !.pc = IF job[r].at = Len(Field) THEN "expire" ELSE "save"])
    /\ UNCHANGED <<manner, ttl, known, files, acked, faults, died>>

(* The 24 hours start again, and the request is answered.                  *)
SaveExpire(r) ==
    /\ job[r].pc = "expire"
    /\ \/ ttl' = (ttl \/ key # NoKey) /\ UNCHANGED failed
       \/ Fails(r, "expire") /\ UNCHANGED ttl
    /\ known' = TRUE
    /\ acked' = IF job[r].kind = "part" /\ manner = "serial"
                THEN acked \cup {<<job[r].hash[1], job[r].ok>>} ELSE acked
    /\ Finish(r)
    /\ UNCHANGED <<manner, key, files, faults, died>>

(* handle_complete reads the parts back: get("") throws and answers 500.   *)
MutUnreadable(s) == FALSE
Unreadable(s) == \E i \in DOMAIN s.part_hashes : s.part_hashes[i] = NoHash

Merge(r) ==
    /\ job[r].pc = "merge"
    /\ IF Unreadable(job[r].s) THEN Finish(r) ELSE Become(r, [job[r] EXCEPT !.pc = "insert"])
    /\ UNCHANGED <<manner, key, ttl, known, files, acked, failed, faults, died>>

(* link_existing_content or insert; a taken name or a purged content makes *)
(* it throw, and the session stays.                                        *)
Insert(r) ==
    /\ job[r].pc = "insert"
    /\ \/ /\ files' = Append(files, job[r].s.part_hashes)
          /\ Become(r, [job[r] EXCEPT !.pc = "del"])
       \/ Finish(r) /\ UNCHANGED files
    /\ UNCHANGED <<manner, key, ttl, known, acked, failed, faults, died>>

(* delete_from_redis, and the answer to complete or abort.                 *)
MutKept == key
Deleted == NoKey

Del(r) ==
    /\ job[r].pc = "del"
    /\ \/ key' = Deleted /\ ttl' = FALSE /\ acked' = {} /\ UNCHANGED failed
       \/ Fails(r, "del") /\ UNCHANGED <<key, ttl, acked>>
    /\ Finish(r)
    /\ UNCHANGED <<manner, known, files, faults, died>>

(* Redis drops the key when its time is up.                                *)
Expire ==
    /\ ttl /\ key # NoKey
    /\ manner # "any" => Quiet
    /\ key' = NoKey /\ ttl' = FALSE /\ acked' = {}
    /\ UNCHANGED <<manner, job, known, files, failed, faults, died>>

Crash ==
    /\ faults < MaxFaults /\ faults' = faults + 1
    /\ Die
    /\ UNCHANGED <<manner, key, ttl, known, files, acked, failed>>

-------------------------------------------------------------------------------
Step(r) ==
    \/ Load(r) \/ Check(r) \/ Put(r) \/ Save(r) \/ SaveExpire(r)
    \/ Merge(r) \/ Insert(r) \/ Del(r)

Next ==
    \/ \E r \in Request :
          \/ Step(r) \/ StartInit(r)
          \/ \E h \in PartHash : Start(r, "part", h)
          \/ \E k \in Kind \ {"part"} : Start(r, k, NoHash)
    \/ Expire \/ Crash

Spec == Init /\ [][Next]_vars

-------------------------------------------------------------------------------
(* Properties *)

InPlace(list) == \A i \in DOMAIN list : list[i] \in PartHash /\ list[i][1] = i

(* WholeOrEmpty: whatever requests race, a file is made of all the parts,  *)
(* each in its place, or of none at all: never of some of them, of a part  *)
(* in another's place or of a part that was not sent (handle_complete).    *)
WholeOrEmpty ==
    \A n \in DOMAIN files : InPlace(files[n]) /\ Len(files[n]) \in {0, ChunkCount}

(* PatientOneFile: clients that wait for the answers to their parts before *)
(* they complete or abort get whole files, though the parts overwrite each *)
(* other's saves, the process may crash and Redis may fail any command of  *)
(* a part, a status or an abort, unless an HGET of the complete itself or  *)
(* an HSET of the init was lost; and one file only, though a complete may  *)
(* be refused, throw and be sent again, unless the process dies between    *)
(* the insert and the delete or that DEL is lost (handle_complete).        *)
PatientOneFile ==
    manner # "any" =>
        /\ {<<"hget", "complete">>, <<"hset", "init">>} \cap failed = {} =>
               \A n \in DOMAIN files : InPlace(files[n]) /\ Len(files[n]) = ChunkCount
        /\ ~died /\ <<"del", "complete">> \notin failed => Len(files) <= 1

(* Part p is in the session, as complete and status look for it.           *)
InSession(p) ==
    /\ key["part_hashes"] # None /\ key["part_hashes"][p] # NoHash
    /\ key["uploaded"] # None /\ key["uploaded"][p]

(* AckedKept: a client that sends one request at a time finds every part   *)
(* that was answered with 200 and whose own HSETs Redis has carried out in *)
(* the session for as long as the session is there, across crashes in      *)
(* later saves and commands of later requests that fail (load_from_redis,  *)
(* save_to_redis).                                                         *)
AckedKept == manner = "serial" => \A a \in acked : a[2] => InSession(a[1])

===============================================================================
