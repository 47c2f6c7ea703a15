----------------------------- MODULE ContentStore -----------------------------
(***************************************************************************)
(* The content-addressed core of SolarDrive: the PostgreSQL rows of        *)
(* content_objects, files and file_shares, the chunk files of the object   *)
(* store, and the threads that change them: the worker threads that run    *)
(* the HTTP handlers (upload, delete, share, revoke, save) and the main    *)
(* loop's hourly timer (revoke_expired, collect_orphans).                  *)
(*                                                                         *)
(* One action is one SQL statement or one file-system call.  The garbage   *)
(* collector's transaction (ContentGc::purge_content) is the only one of   *)
(* several statements that other threads can interleave with: what it has  *)
(* deleted but not committed is in the txShares, txFiles and txContent of  *)
(* its job, invisible to every other thread (READ COMMITTED), and the rows *)
(* it deletes are locked against the statements that need them.            *)
(***************************************************************************)
EXTENDS Naturals, Sequences, FiniteSets

CONSTANTS
    Worker,      \* the IO threads that run handlers
    Timer,       \* the main loop's thread when its hourly task runs, or {}
    Hash,        \* SHA-256 of a whole file, one per distinct content
    Chunk,       \* SHA-256 of a chunk, one per distinct chunk
    ChunksOf,    \* the chunk list put_chunked makes of each content
    FileId, ContentId,  \* UUIDs the database can hand out (bound)
    BatchLimit,  \* the LIMIT of list_orphans
    MaxFaults,   \* how many environment failures a behaviour may have (bound)
    None

ASSUME ContentStoreAssumption ==
    /\ Worker \cap Timer = {}
    /\ ChunksOf \in [Hash -> Seq(Chunk)]
    /\ \A h \in Hash : Len(ChunksOf[h]) > 0
    /\ BatchLimit \in Nat /\ MaxFaults \in Nat
    /\ None \notin Hash \cup ContentId \cup FileId

VARIABLES
    crow,    \* content_objects: a row's life, free -> row -> gone
    chash,   \* content_objects.hash (chunk_hashes is ChunksOf of it)
    frow,    \* files: free -> live -> tomb (deleted_at set) -> gone
    fcid,    \* files.content_id
    share,   \* file_shares of a file: none, active or revoked (is_revoked)
    disk,    \* the chunk file: absent, partial (opened, not yet written) or whole
    cache,   \* the Redis keys file:hash:<hash> that exist
    job,     \* what each thread is doing, its local variables and open transaction
    faults,  \* environment failures so far
    spoilt,  \* history: the chunks a race or a failure has taken from a thread
    regime   \* history: serial until a request starts while another thread is busy

dbVars == <<crow, chash, frow, fcid, share>>
vars == <<dbVars, disk, cache, job, faults, spoilt, regime>>

Proc == Worker \cup Timer

UploadPc == {"find_cached", "find", "put", "open", "write", "ensure", "insert", "fill"}
LinkPc   == {"save_find", "link"}
DeletePc == {"soft_delete", "revoke", "collect"}
PurgePc  == {"count", "del_shares", "del_files", "del_content", "in_use", "unlink", "commit"}
TimerPc  == {"list", "next"}

Job == [pc : {"idle", "share_insert"} \cup UploadPc \cup LinkPc \cup DeletePc \cup PurgePc \cup TimerPc,
        hash : Hash \cup {None}, cid : ContentId \cup {None}, file : FileId \cup {None},
        idx : Nat, linked : BOOLEAN,
        txShares : SUBSET FileId, txFiles : SUBSET FileId, txContent : BOOLEAN,
        queue : SUBSET ContentId,
        seen : SUBSET ContentId]  \* history: the rows chunk_hash_in_use has looked at

IdleJob == [pc |-> "idle", hash |-> None, cid |-> None, file |-> None,
            idx |-> 0, linked |-> FALSE,
            txShares |-> {}, txFiles |-> {}, txContent |-> FALSE, queue |-> {}, seen |-> {}]

(* The tables are empty and nothing is on disk: bootstrap_schema has just  *)
(* created them.                                                           *)
Init ==
    /\ crow  = [k \in ContentId |-> "free"]
    /\ chash = [k \in ContentId |-> None]
    /\ frow  = [f \in FileId |-> "free"]
    /\ fcid  = [f \in FileId |-> None]
    /\ share = [f \in FileId |-> "none"]
    /\ disk  = [c \in Chunk |-> "absent"]
    /\ cache = {}
    /\ job   = [p \in Proc |-> IdleJob]
    /\ faults = 0
    /\ spoilt = {}
    /\ regime = "serial"

-------------------------------------------------------------------------------
(* Queries, as a statement of thread p sees the committed tables.          *)

HasFile(f) == frow[f] \in {"live", "tomb"}
ContentRows == {k \in ContentId : crow[k] = "row"}
RowsOfHash(h) == {k \in ContentRows : chash[k] = h}
LiveFiles(k) == {f \in FileId : frow[f] = "live" /\ fcid[f] = k}

Tombstones(k) == {f \in FileId : frow[f] = "tomb" /\ fcid[f] = k}

ChunkSet(h) == {ChunksOf[h][i] : i \in DOMAIN ChunksOf[h]}
CurrentChunk(j) == ChunksOf[j.hash][j.idx]

(* chunk_hash_in_use(txn, c): the transaction that deleted row k no longer *)
(* sees it; rows that other open transactions deleted are still visible.   *)
MutChunkHashInUse(c, k) == FALSE
ChunkHashInUse(c, k) == \E r \in ContentRows \ {k} : c \in ChunkSet(chash[r])

(* Row locks held by the open purge transactions of other threads.         *)
ContentLocked(k, p) == \E g \in Proc \ {p} : job[g].txContent /\ job[g].cid = k
FileLocked(f, p)    == \E g \in Proc \ {p} : f \in job[g].txFiles
ShareLocked(f, p)   == \E g \in Proc \ {p} : f \in job[g].txShares

(* Bound: a request that may insert rows starts only while the database    *)
(* has a fresh UUID left for it.                                           *)
FreshFile(f)    == frow[f] = "free"
FreshContent(k) == crow[k] = "free"
RoomToInsert ==
    LET inserting == {p \in Proc : job[p].pc \in UploadPc \cup LinkPc}
    IN  /\ Cardinality({f \in FileId : FreshFile(f)}) > Cardinality(inserting)
        /\ Cardinality({k \in ContentId : FreshContent(k)}) > Cardinality(inserting)

-------------------------------------------------------------------------------
(* Control: what a thread does next.                                       *)

Become(p, j) == job' = [job EXCEPT ![p] = j]
Goto(p, l)   == Become(p, [job[p] EXCEPT !.pc = l])
Finish(p)    == Become(p, IdleJob)

(* The purge ends without an exception: the handler answers, or            *)
(* collect_orphans takes the next orphan.  An uncommitted transaction is   *)
(* rolled back by ~pqxx::work.                                             *)
EndPurge(p) ==
    Become(p, IF p \in Timer THEN [IdleJob EXCEPT !.pc = "next", !.queue = job[p].queue]
                             ELSE IdleJob)

(* History: a purge that has begun to unlink and does not commit leaves a  *)
(* row whose chunks may be gone; a writer that is cut off leaves a short   *)
(* chunk.                                                                  *)
Interrupted(p) ==
    IF job[p].txContent THEN {c \in ChunkSet(job[p].hash) : disk[c] # "whole"}
    ELSE IF job[p].pc = "write" THEN {CurrentChunk(job[p])} ELSE {}

(* The process stops: open transactions roll back, memory is lost, the     *)
(* files stay.  It starts again with the same tables.                      *)
Die ==
    /\ job' = [p \in Proc |-> IdleJob]
    /\ spoilt' = spoilt \cup UNION {Interrupted(p) : p \in Proc}

(* The purge throws: a handler catches it and answers 500; nothing catches *)
(* it between the timer callback and main(), so the process terminates.    *)
ThrowPurge(p) ==
    IF p \in Timer THEN Die
    ELSE Finish(p) /\ spoilt' = spoilt \cup Interrupted(p)

(* History: a request of thread p starts. *)
Overlap(p) ==
    regime' = IF \A q \in Proc \ {p} : job[q].pc = "idle" THEN regime ELSE "concurrent"

(* A failure of the environment, of which a behaviour has at most MaxFaults. *)
Fault == faults < MaxFaults /\ faults' = faults + 1

-------------------------------------------------------------------------------
(* handle_single_upload *)

UploadStart(p, h) ==
    /\ p \in Worker /\ job[p].pc = "idle" /\ RoomToInsert
    /\ Become(p, [IdleJob EXCEPT !.hash = h,
                                 !.pc = IF h \in cache THEN "find_cached" ELSE "find"])
    /\ Overlap(p)
    /\ UNCHANGED <<dbVars, disk, cache, faults, spoilt>>

(* The Redis key only says that it is worth asking the database.           *)
FindCached(p) ==
    /\ job[p].pc = "find_cached"
    /\ \/ \E k \in RowsOfHash(job[p].hash) :
             Become(p, [job[p] EXCEPT !.pc = "link", !.cid = k])
       \/ RowsOfHash(job[p].hash) = {} /\ Goto(p, "find")
    /\ UNCHANGED <<dbVars, disk, cache, faults, spoilt, regime>>

FindContent(p) ==
    /\ job[p].pc = "find"
    /\ \/ \E k \in RowsOfHash(job[p].hash) :
             /\ cache' = cache \cup {job[p].hash}
             /\ Become(p, [job[p] EXCEPT !.pc = "link", !.cid = k])
       \/ /\ RowsOfHash(job[p].hash) = {}
          /\ Become(p, [job[p] EXCEPT !.pc = "put", !.idx = 1])
          /\ UNCHANGED cache
    /\ UNCHANGED <<dbVars, disk, faults, spoilt, regime>>

(* ObjectStore::put_chunked, one put per chunk; put is exists, open, write. *)
MutNextPut(p) ==
    Become(p, IF job[p].idx <= Len(ChunksOf[job[p].hash])
              THEN [job[p] EXCEPT !.pc = "put", !.idx = @ + 1, !.linked = FALSE]
              ELSE [job[p] EXCEPT !.pc = "ensure", !.linked = FALSE])
NextPut(p) ==
    Become(p, IF job[p].idx < Len(ChunksOf[job[p].hash])
              THEN [job[p] EXCEPT !.pc = "put", !.idx = @ + 1, !.linked = FALSE]
              ELSE [job[p] EXCEPT !.pc = "ensure", !.linked = FALSE])

PutExists(p) ==
    /\ job[p].pc = "put"
    /\ IF disk[CurrentChunk(job[p])] = "absent" THEN Goto(p, "open") ELSE NextPut(p)
    /\ UNCHANGED <<dbVars, disk, cache, faults, spoilt, regime>>

(* A file that cannot be opened throws, and the handler answers 500.       *)
PutOpen(p) ==
    /\ job[p].pc = "open"
    /\ \/ /\ disk' = [disk EXCEPT ![CurrentChunk(job[p])] = "partial"]
          /\ Become(p, [job[p] EXCEPT !.pc = "write", !.linked = TRUE])
          /\ UNCHANGED faults
       \/ Fault /\ Finish(p) /\ UNCHANGED disk
    /\ UNCHANGED <<dbVars, cache, spoilt, regime>>

(* The stream's state is not looked at after write and close: a short      *)
(* write leaves the file partial and the upload goes on.                   *)
PutWrite(p) ==
    /\ job[p].pc = "write"
    /\ \/ /\ disk' = IF job[p].linked THEN [disk EXCEPT ![CurrentChunk(job[p])] = "whole"]
                                      ELSE disk
          /\ UNCHANGED <<faults, spoilt>>
       \/ /\ Fault /\ UNCHANGED disk
          /\ spoilt' = spoilt \cup {CurrentChunk(job[p])}
    /\ NextPut(p)
    /\ UNCHANGED <<dbVars, cache, regime>>

-------------------------------------------------------------------------------
(* FileDao::insert and FileDao::insert_link *)

NewFile(f, k) ==
    /\ FreshFile(f)
    /\ frow' = [frow EXCEPT ![f] = "live"]
    /\ fcid' = [fcid EXCEPT ![f] = k]

(* INSERT INTO files: the reference check waits for a purge that deleted   *)
(* the content row, and then fails if the row is gone.                     *)
MutReferencesContent(k) == TRUE
ReferencesContent(k) == k \in ContentRows

InsertLink(p) ==
    /\ job[p].pc = "link" /\ ~ContentLocked(job[p].cid, p)
    /\ \/ /\ ReferencesContent(job[p].cid)
          /\ \E f \in FileId : NewFile(f, job[p].cid)
       \/ ~ReferencesContent(job[p].cid) /\ UNCHANGED <<frow, fcid>>
    /\ Finish(p)
    /\ UNCHANGED <<crow, chash, share, disk, cache, faults, spoilt, regime>>

(* ensure_in_txn's first SELECT. *)
EnsureContent(p) ==
    /\ job[p].pc = "ensure"
    /\ \/ \E k \in RowsOfHash(job[p].hash) :
             Become(p, [job[p] EXCEPT !.pc = "insert", !.cid = k])
       \/ RowsOfHash(job[p].hash) = {} /\ Goto(p, "insert")
    /\ UNCHANGED <<dbVars, disk, cache, faults, spoilt, regime>>

(* INSERT ... ON CONFLICT (hash) DO NOTHING meets a row of the same hash   *)
(* that another upload has committed since: the second SELECT finds it.    *)
MutConflictingRows(h) == ContentRows
ConflictingRows(h) == RowsOfHash(h)

EnsureRaced(p) ==
    /\ job[p].pc = "insert" /\ job[p].cid = None
    /\ \E k \in ConflictingRows(job[p].hash) :
          ~ContentLocked(k, p) /\ Become(p, [job[p] EXCEPT !.cid = k])
    /\ UNCHANGED <<dbVars, disk, cache, faults, spoilt, regime>>

(* The INSERT INTO files of the same transaction, and its commit.          *)
InsertFile(p) ==
    /\ job[p].pc = "insert"
    /\ \/ /\ job[p].cid = None /\ ConflictingRows(job[p].hash) = {}
          /\ \E k \in ContentId, f \in FileId :
                /\ FreshContent(k) /\ NewFile(f, k)
                /\ crow'  = [crow EXCEPT ![k] = "row"]
                /\ chash' = [chash EXCEPT ![k] = job[p].hash]
          /\ Goto(p, "fill")
       \/ /\ job[p].cid # None /\ ~ContentLocked(job[p].cid, p)
          /\ ReferencesContent(job[p].cid)
          /\ \E f \in FileId : NewFile(f, job[p].cid)
          /\ Goto(p, "fill")
          /\ UNCHANGED <<crow, chash>>
       \/ /\ job[p].cid # None /\ ~ContentLocked(job[p].cid, p)
          /\ ~ReferencesContent(job[p].cid)
          /\ Finish(p)
          /\ UNCHANGED <<crow, chash, frow, fcid>>
    /\ UNCHANGED <<share, disk, cache, faults, spoilt, regime>>

(* A new content is inserted under the client's own file name, without     *)
(* make_unique_name: a live file of that name makes the INSERT fail, and   *)
(* the transaction with it.  A link has asked for a free name, so only a   *)
(* concurrent request can have taken it since.                             *)
InsertNameTaken(p) ==
    /\ job[p].pc = "insert" \/ (job[p].pc = "link" /\ Cardinality(Worker) > 1)
    /\ \E f \in FileId : frow[f] = "live"
    /\ Finish(p)
    /\ UNCHANGED <<dbVars, disk, cache, faults, spoilt, regime>>

CacheFill(p) ==
    /\ job[p].pc = "fill"
    /\ cache' = IF RowsOfHash(job[p].hash) = {} THEN cache ELSE cache \cup {job[p].hash}
    /\ Finish(p)
    /\ UNCHANGED <<dbVars, disk, faults, spoilt, regime>>

-------------------------------------------------------------------------------
(* FileHandler::handle_delete: three transactions, then the purge.         *)

DeleteStart(p, f) ==
    /\ p \in Worker /\ job[p].pc = "idle" /\ frow[f] = "live"
    /\ Become(p, [IdleJob EXCEPT !.pc = "soft_delete", !.file = f, !.cid = fcid[f]])
    /\ Overlap(p)
    /\ UNCHANGED <<dbVars, disk, cache, faults, spoilt>>

(* UPDATE files SET deleted_at: no condition on the row's current state.   *)
SoftDelete(p) ==
    /\ job[p].pc = "soft_delete" /\ ~FileLocked(job[p].file, p)
    /\ frow' = IF HasFile(job[p].file) THEN [frow EXCEPT ![job[p].file] = "tomb"] ELSE frow
    /\ Goto(p, "revoke")
    /\ UNCHANGED <<crow, chash, fcid, share, disk, cache, faults, spoilt, regime>>

(* UPDATE file_shares SET is_revoked = TRUE on the rows of fs.              *)
Revoked(fs) == [f \in FileId |-> IF f \in fs THEN "revoked" ELSE share[f]]
ActiveShares == {f \in FileId : share[f] = "active"}

RevokeByFile(p) ==
    /\ job[p].pc = "revoke"
    /\ share[job[p].file] = "active" => ~ShareLocked(job[p].file, p)
    /\ share' = Revoked(ActiveShares \cap {job[p].file})
    /\ Goto(p, "collect")
    /\ UNCHANGED <<crow, chash, frow, fcid, disk, cache, faults, spoilt, regime>>

(* try_collect_content reads the row that purge_content is to work on.     *)
TryCollect(p) ==
    /\ job[p].pc = "collect"
    /\ IF job[p].cid \in ContentRows
       THEN Become(p, [job[p] EXCEPT !.pc = "count", !.hash = chash[job[p].cid]])
       ELSE Finish(p)
    /\ UNCHANGED <<dbVars, disk, cache, faults, spoilt, regime>>

-------------------------------------------------------------------------------
(* ContentGc::purge_content *)

ActiveRefcount(p) ==
    /\ job[p].pc = "count"
    /\ IF LiveFiles(job[p].cid) # {} THEN EndPurge(p) ELSE Goto(p, "del_shares")
    /\ UNCHANGED <<dbVars, disk, cache, faults, spoilt, regime>>

(* The files rows the purge deletes itself, so that they do not hold the    *)
(* content row by its foreign key.                                         *)
MutDoomed(k) == {}
Doomed(k) == Tombstones(k)

DelShares(p) ==
    LET doomed == {f \in Doomed(job[p].cid) : share[f] # "none"} IN
    /\ job[p].pc = "del_shares"
    /\ \A f \in doomed : ~ShareLocked(f, p)
    /\ Become(p, [job[p] EXCEPT !.pc = "del_files", !.txShares = doomed])
    /\ UNCHANGED <<dbVars, disk, cache, faults, spoilt, regime>>

(* A share created since on one of the tombstones fails the DELETE.        *)
DelFiles(p) ==
    LET doomed == Doomed(job[p].cid) IN
    /\ job[p].pc = "del_files"
    /\ \A f \in doomed : ~FileLocked(f, p)
    /\ IF \A f \in doomed : share[f] = "none" \/ f \in job[p].txShares
       THEN /\ Become(p, [job[p] EXCEPT !.pc = "del_content", !.txFiles = doomed])
            /\ UNCHANGED spoilt
       ELSE ThrowPurge(p)
    /\ UNCHANGED <<dbVars, disk, cache, faults, regime>>

(* DELETE ... WHERE NOT EXISTS (a live file): it may delete nothing; a     *)
(* reference inserted while it waits, or a file deleted since DelFiles,    *)
(* fails the reference check instead.                                      *)
MutLiveFilesExist(k) == FALSE
LiveFilesExist(k) == LiveFiles(k) # {}

DelContent(p) ==
    /\ job[p].pc = "del_content" /\ ~ContentLocked(job[p].cid, p)
    /\ \/ /\ job[p].cid \notin ContentRows \/ LiveFilesExist(job[p].cid)
          /\ EndPurge(p) /\ UNCHANGED spoilt
       \/ /\ job[p].cid \in ContentRows
          /\ LiveFilesExist(job[p].cid) \/ ~(Tombstones(job[p].cid) \subseteq job[p].txFiles)
          /\ ThrowPurge(p)
       \/ /\ job[p].cid \in ContentRows /\ ~LiveFilesExist(job[p].cid)
          /\ Tombstones(job[p].cid) \subseteq job[p].txFiles
          /\ Become(p, [job[p] EXCEPT !.pc = "in_use", !.txContent = TRUE, !.idx = 1])
          /\ UNCHANGED spoilt
    /\ UNCHANGED <<dbVars, disk, cache, faults, regime>>

(* The loop over chunk_hashes, then txn.commit().                          *)
MutAfterChunk(j) ==
    IF j.idx + 1 < Len(ChunksOf[j.hash])
    THEN [j EXCEPT !.pc = "in_use", !.idx = @ + 1, !.seen = {}]
    ELSE [j EXCEPT !.pc = "commit", !.seen = {}]
AfterChunk(j) ==
    IF j.idx < Len(ChunksOf[j.hash])
    THEN [j EXCEPT !.pc = "in_use", !.idx = @ + 1, !.seen = {}]
    ELSE [j EXCEPT !.pc = "commit", !.seen = {}]

InUse(p) ==
    /\ job[p].pc = "in_use"
    /\ IF ChunkHashInUse(CurrentChunk(job[p]), job[p].cid)
       THEN Become(p, AfterChunk(job[p]))
       ELSE Become(p, [job[p] EXCEPT !.pc = "unlink", !.seen = ContentRows])
    /\ UNCHANGED <<dbVars, disk, cache, faults, spoilt, regime>>

(* History: an upload has found or written the chunk and is to insert its  *)
(* row, or is writing it.                                                  *)
Relies(j, c) ==
    \/ /\ j.pc \in {"put", "open", "write"}
       /\ \E i \in DOMAIN ChunksOf[j.hash] : i < j.idx /\ ChunksOf[j.hash][i] = c
    \/ j.pc = "write" /\ CurrentChunk(j) = c
    \/ (j.pc = "ensure" \/ (j.pc = "insert" /\ j.cid = None)) /\ c \in ChunkSet(j.hash)

(* History: the unlink takes the chunk from a row that was committed since *)
(* chunk_hash_in_use looked, or from an upload whose row it cannot see.    *)
Needed(c, p) ==
    \/ \E r \in ContentRows \ (job[p].seen \cup {job[p].cid}) : c \in ChunkSet(chash[r])
    \/ \E q \in Proc \ {p} : Relies(job[q], c)

(* ObjectStore::remove, before the commit.  A thread that holds the file   *)
(* open goes on writing to a file nobody can open.  Any error but ENOENT   *)
(* throws.                                                                 *)
Unlinked(c, j) == IF j.pc = "write" /\ CurrentChunk(j) = c THEN [j EXCEPT !.linked = FALSE] ELSE j

Unlink(p) ==
    LET c == CurrentChunk(job[p]) IN
    /\ job[p].pc = "unlink"
    /\ \/ /\ disk' = [disk EXCEPT ![c] = "absent"]
          /\ spoilt' = IF Needed(c, p) THEN spoilt \cup {c} ELSE spoilt
          /\ job' = [q \in Proc |-> IF q = p THEN AfterChunk(job[p]) ELSE Unlinked(c, job[q])]
          /\ UNCHANGED faults
       \/ Fault /\ ThrowPurge(p) /\ UNCHANGED disk
    /\ UNCHANGED <<dbVars, cache, regime>>

Commit(p) ==
    /\ job[p].pc = "commit"
    /\ \/ /\ frow'  = [f \in FileId |-> IF f \in job[p].txFiles THEN "gone" ELSE frow[f]]
          /\ share' = [f \in FileId |-> IF f \in job[p].txShares THEN "none" ELSE share[f]]
          /\ crow'  = [crow EXCEPT ![job[p].cid] = "gone"]
          /\ EndPurge(p)
          /\ UNCHANGED <<faults, spoilt>>
       \/ Fault /\ ThrowPurge(p) /\ UNCHANGED <<crow, frow, share>>
    /\ UNCHANGED <<chash, fcid, disk, cache, regime>>

-------------------------------------------------------------------------------
(* The hourly task of main(): revoke_expired, then collect_orphans.        *)

Tick(p) ==
    /\ p \in Timer /\ job[p].pc = "idle"
    /\ \E expired \in SUBSET {f \in ActiveShares : ~ShareLocked(f, p)} : share' = Revoked(expired)
    /\ Goto(p, "list")
    /\ Overlap(p)
    /\ UNCHANGED <<crow, chash, frow, fcid, disk, cache, faults, spoilt>>

Orphans == {k \in ContentRows : LiveFiles(k) = {}}

ListOrphans(p) ==
    /\ job[p].pc = "list"
    /\ \E batch \in SUBSET Orphans :
          /\ Cardinality(batch) = BatchLimit \/ (Cardinality(batch) < BatchLimit /\ batch = Orphans)
          /\ Become(p, [job[p] EXCEPT !.pc = "next", !.queue = batch])
    /\ UNCHANGED <<dbVars, disk, cache, faults, spoilt, regime>>

MutRest(queue, k) == queue
Rest(queue, k) == queue \ {k}

NextOrphan(p) ==
    /\ job[p].pc = "next"
    /\ \/ \E k \in job[p].queue :
             Become(p, [IdleJob EXCEPT !.pc = "count", !.cid = k, !.hash = chash[k],
                                       !.queue = Rest(job[p].queue, k)])
       \/ job[p].queue = {} /\ Finish(p)
    /\ UNCHANGED <<dbVars, disk, cache, faults, spoilt, regime>>

-------------------------------------------------------------------------------
(* ShareHandler: create, revoke and save.  Bound: one share row per file.  *)

ShareStart(p, f) ==
    /\ p \in Worker /\ job[p].pc = "idle" /\ frow[f] = "live" /\ share[f] = "none"
    /\ \A q \in Proc : ~(job[q].pc = "share_insert" /\ job[q].file = f)
    /\ Become(p, [IdleJob EXCEPT !.pc = "share_insert", !.file = f])
    /\ Overlap(p)
    /\ UNCHANGED <<dbVars, disk, cache, faults, spoilt>>

(* INSERT INTO file_shares: the files row must exist, deleted_at or not.   *)
ShareInsert(p) ==
    /\ job[p].pc = "share_insert" /\ ~FileLocked(job[p].file, p)
    /\ share' = IF HasFile(job[p].file) THEN [share EXCEPT ![job[p].file] = "active"] ELSE share
    /\ Finish(p)
    /\ UNCHANGED <<crow, chash, frow, fcid, disk, cache, faults, spoilt, regime>>

(* find_by_token and revoke, in one step: nothing the update needs can     *)
(* change between them except the row's own deletion.                      *)
ShareRevoke(p, f) ==
    /\ p \in Worker /\ job[p].pc = "idle" /\ share[f] = "active" /\ ~ShareLocked(f, p)
    /\ share' = Revoked({f})
    /\ Overlap(p)
    /\ UNCHANGED <<crow, chash, frow, fcid, disk, cache, job, faults, spoilt>>

(* resolve_share lets an active share through; then the file is looked up. *)
SaveStart(p, f) ==
    /\ p \in Worker /\ job[p].pc = "idle" /\ share[f] = "active" /\ RoomToInsert
    /\ Become(p, [IdleJob EXCEPT !.pc = "save_find", !.file = f])
    /\ Overlap(p)
    /\ UNCHANGED <<dbVars, disk, cache, faults, spoilt>>

SaveFind(p) ==
    /\ job[p].pc = "save_find"
    /\ IF frow[job[p].file] = "live"
       THEN Become(p, [job[p] EXCEPT !.pc = "link", !.cid = fcid[job[p].file]])
       ELSE Finish(p)
    /\ UNCHANGED <<dbVars, disk, cache, faults, spoilt, regime>>

-------------------------------------------------------------------------------
(* The process is killed between any two steps. *)
Crash == Fault /\ Die /\ UNCHANGED <<dbVars, disk, cache, regime>>

UploadStep(p) ==
    \/ FindCached(p) \/ FindContent(p) \/ PutExists(p) \/ PutOpen(p) \/ PutWrite(p)
    \/ InsertLink(p) \/ EnsureContent(p) \/ EnsureRaced(p) \/ InsertFile(p)
    \/ InsertNameTaken(p) \/ CacheFill(p)

PurgeStep(p) ==
    \/ ActiveRefcount(p) \/ DelShares(p) \/ DelFiles(p) \/ DelContent(p)
    \/ InUse(p) \/ Unlink(p) \/ Commit(p)

(* A thread goes on with what it has begun. *)
Step(p) ==
    \/ UploadStep(p) \/ PurgeStep(p)
    \/ SoftDelete(p) \/ RevokeByFile(p) \/ TryCollect(p)
    \/ ListOrphans(p) \/ NextOrphan(p)
    \/ ShareInsert(p) \/ SaveFind(p)

Request(p) ==
    \/ \E h \in Hash : UploadStart(p, h)
    \/ \E f \in FileId : DeleteStart(p, f) \/ ShareStart(p, f) \/ ShareRevoke(p, f) \/ SaveStart(p, f)

Next == (\E p \in Proc : Step(p) \/ Request(p) \/ Tick(p)) \/ Crash

Spec == Init /\ [][Next]_vars

(* A thread that is running keeps running, and the hourly timer fires again. *)
Fairness ==
    /\ \A p \in Proc : WF_vars(Step(p))
    /\ \A p \in Timer : WF_vars(Tick(p))

FairSpec == Spec /\ Fairness

-------------------------------------------------------------------------------
(* Properties *)

(* A thread that walks a content's chunks is at one of them. *)
JobOK(j) ==
    /\ j.pc \in UploadPc \cup PurgePc => (j.hash \in Hash)
    /\ j.pc \in {"put", "open", "write", "in_use", "unlink"} =>
           j.idx \in DOMAIN ChunksOf[j.hash]

(* TypeOK: every variable has its type, and the loops of put_chunked and   *)
(* purge_content never step past the chunk list they walk.                 *)
TypeOK ==
    /\ crow \in [ContentId -> {"free", "row", "gone"}]
    /\ chash \in [ContentId -> Hash \cup {None}]
    /\ frow \in [FileId -> {"free", "live", "tomb", "gone"}]
    /\ fcid \in [FileId -> ContentId \cup {None}]
    /\ share \in [FileId -> {"none", "active", "revoked"}]
    /\ disk \in [Chunk -> {"absent", "partial", "whole"}]
    /\ cache \subseteq Hash
    /\ job \in [Proc -> Job] /\ \A p \in Proc : JobOK(job[p])
    /\ faults \in 0..MaxFaults
    /\ spoilt \subseteq Chunk
    /\ regime \in {"serial", "concurrent"}

(* ReferentialIntegrity: whatever purges, links and shares interleave, no  *)
(* files row is left without its content row, and no share without its     *)
(* files row (the REFERENCES clauses of create_v2_tables).                 *)
ReferentialIntegrity ==
    /\ \A f \in FileId : HasFile(f) => fcid[f] \in ContentRows
    /\ \A f \in FileId : share[f] # "none" => HasFile(f)

(* OwnBytes: the file that an upload or an instant upload inserts refers   *)
(* to a content row that exists and has the hash of the bytes the client   *)
(* sent, though the row was found statements earlier, by another SELECT,   *)
(* or was inserted by a racing upload and may have been purged since       *)
(* (ensure_in_txn, insert_link).                                           *)
Uploads(p, f) ==
    /\ job[p].pc \in {"link", "insert"} /\ job[p].hash # None /\ job'[p] # job[p]
    /\ FreshFile(f) /\ frow'[f] = "live"
OwnBytes ==
    [][\A p \in Proc, f \in FileId : Uploads(p, f) =>
           fcid'[f] \in ContentRows' /\ chash'[fcid'[f]] = job[p].hash]_vars

(* PurgeOnlyOrphans: the step that removes a content row removes no live   *)
(* file with it, and leaves no file behind that still refers to it, though *)
(* the reference count was read in an earlier transaction (purge_content). *)
PurgeOnlyOrphans ==
    [][/\ \A k \in ContentId : (crow[k] = "row" /\ crow'[k] # "row") =>
             \A f \in FileId : fcid[f] = k /\ HasFile(f) => frow[f] = "tomb" /\ frow'[f] = "gone"
       /\ \A f \in FileId : frow[f] = "live" => frow'[f] \in {"live", "tomb"}]_vars

(* The chunk can be read back, or a thread is still writing it. *)
Readable(c) ==
    \/ disk[c] = "whole"
    \/ disk[c] = "partial" /\ \E p \in Proc : /\ job[p].pc = "write" /\ job[p].linked
                                              /\ CurrentChunk(job[p]) = c

(* LiveFilesReadable: every chunk of every live file is on disk, whole: no *)
(* purge removes a chunk that another content shares (chunk_hash_in_use),  *)
(* and no upload relies on a chunk that is not there (put_chunked).        *)
LiveFilesReadable ==
    \A f \in FileId : frow[f] = "live" => \A c \in ChunkSet(chash[fcid[f]]) : Readable(c)

(* DamageExplained: a live file lacks a chunk only if it was unlinked from *)
(* under an upload that relied on it, or from a row committed after        *)
(* chunk_hash_in_use had looked, or if a purge that had unlinked it did    *)
(* not commit, or its writer was cut off.  No row that was there when the  *)
(* purge looked ever loses a chunk to it: there is no other way to lose    *)
(* data.                                                                   *)
DamageExplained ==
    \A f \in FileId : frow[f] = "live" =>
        \A c \in ChunkSet(chash[fcid[f]]) : Readable(c) \/ c \in spoilt

(* A step that removes a content row leaves none of its chunks behind,      *)
(* except those that another content row or an upload on its way needs.    *)
ReclaimsChunks ==
    \A k \in ContentId : (crow[k] = "row" /\ crow'[k] # "row") =>
        \A c \in ChunkSet(chash[k]) :
            \/ disk'[c] = "absent"
            \/ \E r \in ContentRows' : c \in ChunkSet(chash'[r])
            \/ \E q \in Proc : job[q].pc \in UploadPc /\ c \in ChunkSet(job[q].hash)

(* SerialFilesReadable: as long as requests and the hourly task do not     *)
(* overlap, every chunk of every live file is on disk, whole, through any  *)
(* sequence of uploads, deletions and collections of contents that share   *)
(* chunks (put_chunked, chunk_hash_in_use).                                *)
SerialFilesReadable == regime = "serial" /\ faults = 0 => LiveFilesReadable

(* SerialPurgeReclaims: as long as they do not overlap, the chunks of a    *)
(* content row that is purged go with it, except those that another        *)
(* content row needs (purge_content).                                      *)
SerialPurgeReclaims == [][regime = "serial" /\ faults = 0 => ReclaimsChunks]_vars

(* RequestsFinish: no handler and no hourly task waits for ever, on a row  *)
(* lock or otherwise.                                                      *)
RequestsFinish == \A p \in Proc : job[p].pc # "idle" ~> job[p].pc = "idle"

(* OrphansCollected: a content without live files is taken up again or is  *)
(* purged in the end, whatever happened to the handler that deleted its    *)
(* last file (collect_orphans).                                            *)
OrphansCollected == \A k \in ContentId : k \in Orphans ~> k \notin Orphans

=============================================================================
