-------------------------- MODULE ContentStoreProofs --------------------------
(***************************************************************************)
(* Proofs about ContentStore, for every number of threads, contents,       *)
(* chunks and files.                                                       *)
(***************************************************************************)
EXTENDS ContentStore, TLAPS

LockPc == {"in_use", "unlink", "commit"}

(* What TypeOK needs to be inductive: a content row has its hash from the  *)
(* moment it is inserted, collect_orphans only queues rows that were, and  *)
(* a purge holds the content row only in the loop over its chunks.         *)
RowsHashed == \A k \in ContentId : crow[k] # "free" => chash[k] \in Hash

GoodJob(j) ==
    /\ j \in Job /\ JobOK(j)
    /\ \A k \in j.queue : crow[k] # "free"
    /\ j.txContent => j.pc \in LockPc
    /\ j.pc \in LockPc => j.cid \in ContentId /\ crow[j.cid] # "free"
    /\ j.pc \in {"soft_delete", "revoke", "save_find", "share_insert"} => j.file \in FileId

TypeInv == TypeOK /\ RowsHashed /\ \A p \in Proc : GoodJob(job[p])

-------------------------------------------------------------------------------
(* A thread between two requests has a good job.                           *)
LEMMA IdleJobOK == GoodJob(IdleJob)
BY DEF GoodJob, IdleJob, Job, JobOK, UploadPc, PurgePc, LockPc

(* The chunk a thread is at is a chunk. *)
LEMMA CurrentChunkType ==
    ASSUME NEW j \in Job, JobOK(j), j.pc \in {"put", "open", "write", "in_use", "unlink"}
    PROVE  j.hash \in Hash /\ CurrentChunk(j) \in Chunk /\ j.idx \in 1..Len(ChunksOf[j.hash])
BY ContentStoreAssumption DEF JobOK, CurrentChunk, UploadPc, PurgePc

(* The chunks of a content are chunks.                                     *)
LEMMA ChunkSetType ==
    ASSUME NEW h \in Hash
    PROVE  ChunkSet(h) \subseteq Chunk
BY ContentStoreAssumption DEF ChunkSet

(* What an interrupted thread spoils is a set of chunks.                   *)
LEMMA InterruptedType ==
    ASSUME NEW p \in Proc, GoodJob(job[p])
    PROVE  Interrupted(p) \subseteq Chunk
BY CurrentChunkType, ChunkSetType DEF GoodJob, Interrupted, JobOK, LockPc, PurgePc, UploadPc

(* The bound on failures of the environment is kept.                       *)
LEMMA FaultType ==
    ASSUME faults \in 0..MaxFaults, Fault
    PROVE  faults' \in 0..MaxFaults
BY ContentStoreAssumption DEF Fault

(* A step that leaves the content rows alone and gives one thread a good   *)
(* job.                                                                    *)
LEMMA BecomeGood ==
    ASSUME TypeInv, NEW p \in Proc, NEW j, GoodJob(j), Become(p, j),
           \A k \in ContentId : crow[k] # "free" => crow'[k] # "free"
    PROVE  job' \in [Proc -> Job] /\ (\A q \in Proc : JobOK(job'[q])) /\ \A q \in Proc : GoodJob(job[q])'
<1>1. job' = [job EXCEPT ![p] = j] /\ job \in [Proc -> Job]
  BY DEF Become, TypeInv, TypeOK
<1>2. \A q \in Proc : job'[q] = IF q = p THEN j ELSE job[q]
  BY <1>1
<1>3. \A q \in Proc : GoodJob(job'[q])
  BY <1>2 DEF TypeInv
<1>4. \A q \in Proc : job'[q].queue \subseteq ContentId
  BY <1>3 DEF GoodJob, Job
<1>5. \A q \in Proc : GoodJob(job[q])'
  BY <1>3, <1>4 DEF GoodJob, JobOK
<1> QED
  BY <1>1, <1>3, <1>5 DEF GoodJob

(* The step of a thread that only changes its own job: the type invariant  *)
(* is kept if the new job is good.                                         *)
LEMMA QuietType ==
    ASSUME TypeInv, NEW p \in Proc, NEW j, GoodJob(j), Become(p, j),
           UNCHANGED <<dbVars, disk, faults, spoilt>>, cache' \subseteq Hash,
           UNCHANGED regime \/ Overlap(p)
    PROVE  TypeInv'
<1>1. \A k \in ContentId : crow[k] # "free" => crow'[k] # "free"
  BY DEF dbVars
<1>2. /\ job' \in [Proc -> Job] /\ \A q \in Proc : JobOK(job'[q])
      /\ \A q \in Proc : GoodJob(job[q])'
  BY <1>1, BecomeGood
<1>3. regime' \in {"serial", "concurrent"}
  BY DEF Overlap, TypeInv, TypeOK
<1> QED
  BY <1>2, <1>3 DEF TypeInv, TypeOK, RowsHashed, dbVars, JobOK

(* Every thread loses its job. *)
LEMMA DieType ==
    ASSUME TypeInv, Die, UNCHANGED <<dbVars, disk, cache, regime>>, faults' \in 0..MaxFaults
    PROVE  TypeInv'
<1>1. spoilt' \subseteq Chunk
  BY InterruptedType DEF TypeInv, TypeOK, Die
<1>2. \A p \in Proc : job'[p] = IdleJob
  BY DEF Die
<1>3. \A p \in Proc : GoodJob(job'[p])
  BY <1>2, IdleJobOK
<1>4. \A p \in Proc : GoodJob(job[p])'
  BY <1>3 DEF GoodJob, dbVars, JobOK
<1>5. job' \in [Proc -> Job] /\ (\A q \in Proc : JobOK(job'[q]))
  BY <1>3 DEF Die, GoodJob
<1> QED
  BY <1>1, <1>4, <1>5 DEF TypeInv, TypeOK, RowsHashed, dbVars, JobOK

-------------------------------------------------------------------------------
(* The steps that hand a thread a new job. *)

(* What a thread becomes when its purge ends is a good job.                *)
LEMMA EndPurgeGood ==
    ASSUME NEW p \in Proc, GoodJob(job[p]), NEW j,
           j = (IF p \in Timer THEN [IdleJob EXCEPT !.pc = "next", !.queue = job[p].queue]
                               ELSE IdleJob)
    PROVE  GoodJob(j)
<1>1. GoodJob([IdleJob EXCEPT !.pc = "next", !.queue = job[p].queue])
  BY ZenonT(30) DEF GoodJob, IdleJob, Job, JobOK, UploadPc, PurgePc, TimerPc, LockPc
<1> QED BY <1>1, IdleJobOK

(* The chunk loop of purge_content stays in range or goes to the commit.   *)
LEMMA AfterChunkGood ==
    ASSUME NEW j, GoodJob(j), j.pc \in {"in_use", "unlink"}
    PROVE  GoodJob(AfterChunk(j))
<1>1. j.hash \in Hash /\ j.idx \in 1..Len(ChunksOf[j.hash]) /\ Len(ChunksOf[j.hash]) \in Nat
  BY CurrentChunkType, ContentStoreAssumption DEF GoodJob
<1>2. DOMAIN ChunksOf[j.hash] = 1..Len(ChunksOf[j.hash])
  BY <1>1, ContentStoreAssumption
<1>3. /\ j \in Job /\ \A k \in j.queue : crow[k] # "free"
      /\ j.cid \in ContentId /\ crow[j.cid] # "free"
  BY DEF GoodJob, LockPc
<1>4. CASE j.idx < Len(ChunksOf[j.hash])
  <2> DEFINE n == [j EXCEPT !.pc = "in_use", !.idx = j.idx + 1, !.seen = {}]
  <2>1. j.idx + 1 \in Nat /\ j.idx + 1 \in 1..Len(ChunksOf[j.hash])
    BY <1>1, <1>4
  <2>2. /\ n \in Job /\ n.pc = "in_use" /\ n.idx = j.idx + 1 /\ n.hash = j.hash
        /\ n.queue = j.queue /\ n.cid = j.cid
    BY <1>3, <2>1 DEF Job, PurgePc
  <2>3. JobOK(n)
    BY <1>1, <1>2, <2>1, <2>2 DEF JobOK
  <2>4. AfterChunk(j) = n
    BY <1>4 DEF AfterChunk
  <2> HIDE DEF n
  <2> QED BY <1>3, <2>2, <2>3, <2>4 DEF GoodJob, LockPc
<1>5. CASE ~(j.idx < Len(ChunksOf[j.hash]))
  BY <1>1, <1>3, <1>5 DEF GoodJob, AfterChunk, Job, JobOK, UploadPc, PurgePc, LockPc
<1> QED
  BY <1>4, <1>5

(* NextPut's job. *)
LEMMA NextPutGood ==
    ASSUME NEW j, GoodJob(j), j.pc \in {"put", "write"}, ~j.txContent,
           NEW n, n = (IF j.idx < Len(ChunksOf[j.hash])
              THEN [j EXCEPT !.pc = "put", !.idx = @ + 1, !.linked = FALSE]
              ELSE [j EXCEPT !.pc = "ensure", !.linked = FALSE])
    PROVE  GoodJob(n)
<1>1. j.hash \in Hash /\ j.idx \in 1..Len(ChunksOf[j.hash]) /\ Len(ChunksOf[j.hash]) \in Nat
  BY CurrentChunkType, ContentStoreAssumption DEF GoodJob
<1>2. DOMAIN ChunksOf[j.hash] = 1..Len(ChunksOf[j.hash])
  BY <1>1, ContentStoreAssumption
<1>3. j \in Job /\ \A k \in j.queue : crow[k] # "free"
  BY DEF GoodJob
<1>4. CASE j.idx < Len(ChunksOf[j.hash])
  <2>1. j.idx + 1 \in Nat /\ j.idx + 1 \in 1..Len(ChunksOf[j.hash])
    BY <1>1, <1>4
  <2>2. /\ n \in Job /\ n.pc = "put" /\ n.idx = j.idx + 1 /\ n.hash = j.hash
        /\ n.queue = j.queue /\ n.txContent = j.txContent
    BY <1>3, <1>4, <2>1 DEF Job, UploadPc
  <2>3. JobOK(n)
    BY <1>1, <1>2, <2>1, <2>2 DEF JobOK
  <2> QED BY <1>3, <2>2, <2>3 DEF GoodJob, LockPc
<1>5. CASE ~(j.idx < Len(ChunksOf[j.hash]))
  BY <1>1, <1>3, <1>5 DEF GoodJob, Job, JobOK, UploadPc, PurgePc, LockPc
<1> QED
  BY <1>4, <1>5

(* Steps of an upload. *)
LEMMA UploadType ==
    ASSUME TypeInv, NEW p \in Proc, UploadStep(p)
    PROVE  TypeInv'
<1> USE DEF TypeInv
<1>0. GoodJob(job[p]) /\ job[p] \in Job /\ GoodJob(IdleJob) /\ cache \subseteq Hash
  BY IdleJobOK DEF GoodJob, TypeOK
<1>1. ASSUME FindCached(p) PROVE TypeInv'
  <2>1. GoodJob([job[p] EXCEPT !.pc = "find"])
    BY <1>0, <1>1 DEF FindCached, GoodJob, Job, JobOK, UploadPc, PurgePc, LockPc
  <2>2. \A k \in ContentId : GoodJob([job[p] EXCEPT !.pc = "link", !.cid = k])
    BY <1>0, <1>1 DEF FindCached, GoodJob, Job, JobOK, UploadPc, LinkPc, PurgePc, LockPc
  <2>3. PICK j : Become(p, j) /\ GoodJob(j)
    BY <1>1, <2>1, <2>2 DEF FindCached, Goto, RowsOfHash, ContentRows
  <2> QED BY <1>0, <1>1, <2>3, QuietType DEF FindCached
<1>2. ASSUME FindContent(p) PROVE TypeInv'
  <2>1. \A k \in ContentId : GoodJob([job[p] EXCEPT !.pc = "link", !.cid = k])
    BY <1>0, <1>2 DEF FindContent, GoodJob, Job, JobOK, UploadPc, LinkPc, PurgePc, LockPc
  <2>2. job[p].hash \in Hash
    BY <1>0, <1>2 DEF FindContent, GoodJob, JobOK, UploadPc
  <2>3. 1 \in DOMAIN ChunksOf[job[p].hash]
    BY <2>2, ContentStoreAssumption
  <2>4. GoodJob([job[p] EXCEPT !.pc = "put", !.idx = 1])
    BY <1>0, <1>2, <2>2, <2>3, ZenonT(30) DEF FindContent, GoodJob, Job, JobOK, UploadPc, LockPc
  <2>5. cache' \subseteq Hash
    BY <1>0, <1>2, <2>2 DEF FindContent
  <2>6. PICK j : Become(p, j) /\ GoodJob(j)
    BY <1>2, <2>1, <2>4 DEF FindContent, RowsOfHash, ContentRows
  <2> QED BY <1>2, <2>5, <2>6, QuietType DEF FindContent
<1>3. ASSUME PutExists(p) PROVE TypeInv'
  <2>1. ~job[p].txContent /\ job[p].pc \in {"put", "write"}
    BY <1>0, <1>3 DEF PutExists, GoodJob, LockPc
  <2>2. GoodJob([job[p] EXCEPT !.pc = "open"])
    BY <1>0, <1>3 DEF PutExists, GoodJob, Job, JobOK, UploadPc, LockPc
  <2>3. PICK j : Become(p, j) /\ GoodJob(j)
    BY <1>0, <1>3, <2>1, <2>2, NextPutGood DEF PutExists, Goto, NextPut
  <2> QED BY <1>0, <1>3, <2>3, QuietType DEF PutExists
<1>4. ASSUME PutOpen(p) PROVE TypeInv'
  <2>1. GoodJob([job[p] EXCEPT !.pc = "write", !.linked = TRUE])
    BY <1>0, <1>4 DEF PutOpen, GoodJob, Job, JobOK, UploadPc, LockPc
  <2>2. /\ job' \in [Proc -> Job] /\ \A q \in Proc : JobOK(job'[q])
        /\ \A q \in Proc : GoodJob(job[q])'
    BY <1>0, <1>4, <2>1, BecomeGood DEF PutOpen, Finish, dbVars
  <2>3. faults' \in 0..MaxFaults
    BY <1>4, FaultType DEF PutOpen, TypeOK
  <2> QED BY <1>4, <2>2, <2>3 DEF PutOpen, TypeOK, RowsHashed, dbVars, JobOK
<1>5. ASSUME PutWrite(p) PROVE TypeInv'
  <2>1. ~job[p].txContent /\ job[p].pc \in {"put", "write"}
    BY <1>0, <1>5 DEF PutWrite, GoodJob, LockPc
  <2>2. PICK j : Become(p, j) /\ GoodJob(j)
    BY <1>0, <1>5, <2>1, NextPutGood DEF PutWrite, NextPut
  <2>3. /\ job' \in [Proc -> Job] /\ \A q \in Proc : JobOK(job'[q])
        /\ \A q \in Proc : GoodJob(job[q])'
    BY <1>5, <2>2, BecomeGood DEF PutWrite, dbVars
  <2>4. CurrentChunk(job[p]) \in Chunk
    BY <1>0, <1>5, CurrentChunkType DEF PutWrite, GoodJob
  <2>5. disk' \in [Chunk -> {"absent", "partial", "whole"}] /\ spoilt' \subseteq Chunk
    BY <1>5, <2>4 DEF PutWrite, TypeOK
  <2>6. faults' \in 0..MaxFaults
    BY <1>5, FaultType DEF PutWrite, TypeOK
  <2> QED BY <1>5, <2>3, <2>5, <2>6 DEF PutWrite, TypeOK, RowsHashed, dbVars, JobOK
<1>6. ASSUME InsertLink(p) PROVE TypeInv'
  <2>1. /\ job' \in [Proc -> Job] /\ \A q \in Proc : JobOK(job'[q])
        /\ \A q \in Proc : GoodJob(job[q])'
    BY <1>0, <1>6, BecomeGood DEF InsertLink, Finish
  <2>2. /\ frow' \in [FileId -> {"free", "live", "tomb", "gone"}]
        /\ fcid' \in [FileId -> ContentId \cup {None}]
    BY <1>6 DEF InsertLink, NewFile, ReferencesContent, ContentRows, TypeOK
  <2> QED BY <1>6, <2>1, <2>2 DEF InsertLink, TypeOK, RowsHashed, JobOK
<1>7. ASSUME EnsureContent(p) PROVE TypeInv'
  <2>1. GoodJob([job[p] EXCEPT !.pc = "insert"])
    BY <1>0, <1>7 DEF EnsureContent, GoodJob, Job, JobOK, UploadPc, PurgePc, LockPc
  <2>2. \A k \in ContentId : GoodJob([job[p] EXCEPT !.pc = "insert", !.cid = k])
    BY <1>0, <1>7 DEF EnsureContent, GoodJob, Job, JobOK, UploadPc, PurgePc, LockPc
  <2>3. PICK j : Become(p, j) /\ GoodJob(j)
    BY <1>7, <2>1, <2>2 DEF EnsureContent, Goto, RowsOfHash, ContentRows
  <2> QED BY <1>0, <1>7, <2>3, QuietType DEF EnsureContent
<1>8. ASSUME EnsureRaced(p) PROVE TypeInv'
  <2>1. PICK k \in ContentId : Become(p, [job[p] EXCEPT !.cid = k])
    BY <1>8 DEF EnsureRaced, ConflictingRows, RowsOfHash, ContentRows
  <2>2. GoodJob([job[p] EXCEPT !.cid = k])
    BY <1>0, <1>8 DEF EnsureRaced, GoodJob, Job, JobOK, UploadPc, PurgePc, LockPc
  <2> QED BY <1>0, <1>8, <2>1, <2>2, QuietType DEF EnsureRaced
<1>9. ASSUME InsertFile(p) PROVE TypeInv'
  <2>1. GoodJob([job[p] EXCEPT !.pc = "fill"]) /\ job[p].hash \in Hash
    BY <1>0, <1>9 DEF InsertFile, GoodJob, Job, JobOK, UploadPc, PurgePc, LockPc
  <2>2. /\ crow' \in [ContentId -> {"free", "row", "gone"}]
        /\ chash' \in [ContentId -> Hash \cup {None}]
        /\ frow' \in [FileId -> {"free", "live", "tomb", "gone"}]
        /\ fcid' \in [FileId -> ContentId \cup {None}]
        /\ RowsHashed'
        /\ \A k \in ContentId : crow[k] # "free" => crow'[k] # "free"
    BY <1>9, <2>1 DEF InsertFile, NewFile, ReferencesContent, ContentRows, TypeOK, RowsHashed
  <2>3. /\ job' \in [Proc -> Job] /\ \A q \in Proc : JobOK(job'[q])
        /\ \A q \in Proc : GoodJob(job[q])'
    BY <1>0, <1>9, <2>1, <2>2, BecomeGood DEF InsertFile, Goto, Finish
  <2> QED BY <1>9, <2>2, <2>3 DEF InsertFile, TypeOK, JobOK
<1>10. ASSUME InsertNameTaken(p) PROVE TypeInv'
  BY <1>0, <1>10, QuietType DEF InsertNameTaken, Finish
<1>11. ASSUME CacheFill(p) PROVE TypeInv'
  <2>1. cache' \subseteq Hash
    BY <1>0, <1>11 DEF CacheFill, GoodJob, JobOK, UploadPc
  <2> QED BY <1>0, <1>11, <2>1, QuietType DEF CacheFill, Finish
<1> QED
  BY <1>1, <1>2, <1>3, <1>4, <1>5, <1>6, <1>7, <1>8, <1>9, <1>10, <1>11 DEF UploadStep

(* What an exception out of purge_content leaves. *)
LEMMA ThrowType ==
    ASSUME TypeInv, NEW p \in Proc, ThrowPurge(p), UNCHANGED <<dbVars, disk, cache, regime>>,
           faults' \in 0..MaxFaults
    PROVE  TypeInv'
<1>1. CASE p \in Timer
  BY <1>1, DieType DEF ThrowPurge
<1>2. CASE p \notin Timer
  <2>1. /\ job' \in [Proc -> Job] /\ \A q \in Proc : JobOK(job'[q])
        /\ \A q \in Proc : GoodJob(job[q])'
    BY <1>2, IdleJobOK, BecomeGood DEF ThrowPurge, Finish, dbVars
  <2>2. spoilt' \subseteq Chunk
    BY <1>2, InterruptedType DEF ThrowPurge, TypeInv, TypeOK
  <2> QED BY <2>1, <2>2 DEF TypeInv, TypeOK, RowsHashed, dbVars, JobOK
<1> QED BY <1>1, <1>2

(* Steps of a purge. *)
LEMMA PurgeType ==
    ASSUME TypeInv, NEW p \in Proc, PurgeStep(p)
    PROVE  TypeInv'
<1> USE DEF TypeInv
<1>0. /\ GoodJob(job[p]) /\ job[p] \in Job /\ GoodJob(IdleJob)
      /\ cache \subseteq Hash /\ faults \in 0..MaxFaults
  BY IdleJobOK DEF GoodJob, TypeOK
<1>1. ASSUME ActiveRefcount(p) PROVE TypeInv'
  <2>1. GoodJob([job[p] EXCEPT !.pc = "del_shares"])
    BY <1>0, <1>1 DEF ActiveRefcount, GoodJob, Job, JobOK, PurgePc, LockPc
  <2>2. PICK j : Become(p, j) /\ GoodJob(j)
    BY <1>0, <1>1, <2>1, EndPurgeGood DEF ActiveRefcount, EndPurge, Goto
  <2> QED BY <1>0, <1>1, <2>2, QuietType DEF ActiveRefcount
<1>2. ASSUME DelShares(p) PROVE TypeInv'
  <2>1. \A fs \in SUBSET FileId :
           GoodJob([job[p] EXCEPT !.pc = "del_files", !.txShares = fs])
    BY <1>0, <1>2 DEF DelShares, GoodJob, Job, JobOK, PurgePc, LockPc
  <2>2. PICK j : Become(p, j) /\ GoodJob(j)
    BY <1>2, <2>1 DEF DelShares, Doomed, Tombstones
  <2> QED BY <1>0, <1>2, <2>2, QuietType DEF DelShares
<1>3. ASSUME DelFiles(p) PROVE TypeInv'
  <2>1. GoodJob([job[p] EXCEPT !.pc = "del_content", !.txFiles = Doomed(job[p].cid)])
    <3>1. Doomed(job[p].cid) \in SUBSET FileId
      BY DEF Doomed, Tombstones
    <3>2. \A fs \in SUBSET FileId :
           GoodJob([job[p] EXCEPT !.pc = "del_content", !.txFiles = fs])
      BY <1>0, <1>3 DEF DelFiles, GoodJob, Job, JobOK, PurgePc, LockPc
    <3> QED BY <3>1, <3>2
  <2>2. CASE Become(p, [job[p] EXCEPT !.pc = "del_content", !.txFiles = Doomed(job[p].cid)])
             /\ UNCHANGED spoilt
    BY <1>0, <1>3, <2>1, <2>2, QuietType DEF DelFiles
  <2>3. CASE ThrowPurge(p)
    BY <1>0, <1>3, <2>3, ThrowType DEF DelFiles
  <2> QED BY <1>3, <2>2, <2>3 DEF DelFiles
<1>4. ASSUME DelContent(p) PROVE TypeInv'
  <2>1. CASE EndPurge(p) /\ UNCHANGED spoilt
    BY <1>0, <1>4, <2>1, EndPurgeGood, QuietType DEF DelContent, EndPurge
  <2>2. CASE ThrowPurge(p)
    BY <1>0, <1>4, <2>2, ThrowType DEF DelContent
  <2>3. CASE /\ job[p].cid \in ContentRows
             /\ Become(p, [job[p] EXCEPT !.pc = "in_use", !.txContent = TRUE, !.idx = 1])
             /\ UNCHANGED spoilt
    <3>1. job[p].hash \in Hash
      BY <1>0, <1>4 DEF DelContent, GoodJob, JobOK, PurgePc
    <3>2. 1 \in DOMAIN ChunksOf[job[p].hash]
      BY <3>1, ContentStoreAssumption
    <3>3. job[p].cid \in ContentId /\ crow[job[p].cid] # "free"
      BY <2>3 DEF ContentRows
    <3>4. GoodJob([job[p] EXCEPT !.pc = "in_use", !.txContent = TRUE, !.idx = 1])
      BY <1>0, <1>4, <3>1, <3>2, <3>3 DEF DelContent, GoodJob, Job, JobOK, PurgePc, LockPc
    <3> QED BY <1>0, <1>4, <2>3, <3>4, QuietType DEF DelContent
  <2> QED BY <1>4, <2>1, <2>2, <2>3 DEF DelContent
<1>5. ASSUME InUse(p) PROVE TypeInv'
  <2>1. GoodJob([job[p] EXCEPT !.pc = "unlink", !.seen = ContentRows])
    BY <1>0, <1>5 DEF InUse, GoodJob, Job, JobOK, PurgePc, LockPc, ContentRows
  <2>2. PICK j : Become(p, j) /\ GoodJob(j)
    BY <1>0, <1>5, <2>1, AfterChunkGood DEF InUse
  <2> QED BY <1>0, <1>5, <2>2, QuietType DEF InUse
<1>6. ASSUME Unlink(p) PROVE TypeInv'
  <2> DEFINE c == CurrentChunk(job[p])
  <2>1. CASE Fault /\ ThrowPurge(p) /\ UNCHANGED disk
    BY <1>0, <1>6, <2>1, FaultType, ThrowType DEF Unlink
  <2>2. CASE /\ disk' = [disk EXCEPT ![c] = "absent"]
             /\ spoilt' = IF Needed(c, p) THEN spoilt \cup {c} ELSE spoilt
             /\ job' = [q \in Proc |-> IF q = p THEN AfterChunk(job[p]) ELSE Unlinked(c, job[q])]
             /\ UNCHANGED faults
    <3>1. c \in Chunk
      BY <1>0, <1>6, CurrentChunkType DEF Unlink, GoodJob
    <3> HIDE DEF c
    <3>2. GoodJob(AfterChunk(job[p]))
      BY <1>0, <1>6, AfterChunkGood DEF Unlink
    <3>3. \A q \in Proc : GoodJob(Unlinked(c, job[q]))
      <4> SUFFICES ASSUME NEW q \in Proc PROVE GoodJob(Unlinked(c, job[q]))
        OBVIOUS
      <4>1. GoodJob(job[q])
        OBVIOUS
      <4>2. GoodJob([job[q] EXCEPT !.linked = FALSE])
        BY <4>1 DEF GoodJob, Job, JobOK
      <4> QED BY <4>1, <4>2 DEF Unlinked
    <3>4. \A q \in Proc : GoodJob(job'[q])
      BY <2>2, <3>2, <3>3
    <3>5. job' \in [Proc -> Job] /\ (\A q \in Proc : JobOK(job'[q])) /\ \A q \in Proc : GoodJob(job[q])'
      BY <1>6, <2>2, <3>4 DEF Unlink, GoodJob, dbVars, JobOK
    <3>6. disk' \in [Chunk -> {"absent", "partial", "whole"}] /\ spoilt' \subseteq Chunk
      BY <2>2, <3>1 DEF TypeOK
    <3> QED BY <1>6, <2>2, <3>5, <3>6 DEF Unlink, TypeOK, RowsHashed, dbVars, JobOK
  <2> QED BY <1>6, <2>1, <2>2 DEF Unlink
<1>7. ASSUME Commit(p) PROVE TypeInv'
  <2>1. CASE Fault /\ ThrowPurge(p) /\ UNCHANGED <<crow, frow, share>>
    BY <1>0, <1>7, <2>1, FaultType, ThrowType DEF Commit, dbVars
  <2>2. CASE /\ frow'  = [f \in FileId |-> IF f \in job[p].txFiles THEN "gone" ELSE frow[f]]
             /\ share' = [f \in FileId |-> IF f \in job[p].txShares THEN "none" ELSE share[f]]
             /\ crow'  = [crow EXCEPT ![job[p].cid] = "gone"]
             /\ EndPurge(p)
             /\ UNCHANGED <<faults, spoilt>>
    <3>1. /\ crow' \in [ContentId -> {"free", "row", "gone"}]
          /\ frow' \in [FileId -> {"free", "live", "tomb", "gone"}]
          /\ share' \in [FileId -> {"none", "active", "revoked"}]
          /\ \A k \in ContentId : crow[k] # "free" => crow'[k] # "free"
      BY <2>2 DEF TypeOK
    <3>2. /\ job' \in [Proc -> Job] /\ \A q \in Proc : JobOK(job'[q])
          /\ \A q \in Proc : GoodJob(job[q])'
      BY <1>0, <2>2, <3>1, EndPurgeGood, BecomeGood DEF EndPurge
    <3>3. job[p].cid \in ContentId /\ crow[job[p].cid] # "free"
      BY <1>0, <1>7 DEF Commit, GoodJob, LockPc
    <3> QED BY <1>7, <2>2, <3>1, <3>2, <3>3 DEF Commit, TypeOK, RowsHashed, JobOK
  <2> QED BY <1>7, <2>1, <2>2 DEF Commit
<1> QED
  BY <1>1, <1>2, <1>3, <1>4, <1>5, <1>6, <1>7 DEF PurgeStep

(* The other steps of a thread that is at work. *)
LEMMA StepType ==
    ASSUME TypeInv, NEW p \in Proc, Step(p)
    PROVE  TypeInv'
<1> USE DEF TypeInv
<1>0. GoodJob(job[p]) /\ job[p] \in Job /\ GoodJob(IdleJob) /\ cache \subseteq Hash
  BY IdleJobOK DEF GoodJob, TypeOK
<1>1. ASSUME SoftDelete(p) PROVE TypeInv'
  <2>1. GoodJob([job[p] EXCEPT !.pc = "revoke"])
    BY <1>0, <1>1 DEF SoftDelete, GoodJob, Job, JobOK, DeletePc, UploadPc, PurgePc, LockPc
  <2>2. /\ job' \in [Proc -> Job] /\ \A q \in Proc : JobOK(job'[q])
        /\ \A q \in Proc : GoodJob(job[q])'
    BY <1>1, <2>1, BecomeGood DEF SoftDelete, Goto
  <2>3. frow' \in [FileId -> {"free", "live", "tomb", "gone"}]
    BY <1>1 DEF SoftDelete, TypeOK
  <2> QED BY <1>1, <2>2, <2>3 DEF SoftDelete, TypeOK, RowsHashed, JobOK
<1>2. ASSUME RevokeByFile(p) PROVE TypeInv'
  <2>1. GoodJob([job[p] EXCEPT !.pc = "collect"])
    BY <1>0, <1>2 DEF RevokeByFile, GoodJob, Job, JobOK, DeletePc, UploadPc, PurgePc, LockPc
  <2>2. /\ job' \in [Proc -> Job] /\ \A q \in Proc : JobOK(job'[q])
        /\ \A q \in Proc : GoodJob(job[q])'
    BY <1>2, <2>1, BecomeGood DEF RevokeByFile, Goto
  <2>3. share' \in [FileId -> {"none", "active", "revoked"}]
    BY <1>2 DEF RevokeByFile, Revoked, TypeOK
  <2> QED BY <1>2, <2>2, <2>3 DEF RevokeByFile, TypeOK, RowsHashed, JobOK
<1>3. ASSUME TryCollect(p) PROVE TypeInv'
  <2>1. job[p].cid \in ContentRows =>
            GoodJob([job[p] EXCEPT !.pc = "count", !.hash = chash[job[p].cid]])
    <3> SUFFICES ASSUME job[p].cid \in ContentRows
                 PROVE  GoodJob([job[p] EXCEPT !.pc = "count", !.hash = chash[job[p].cid]])
      OBVIOUS
    <3>1. chash[job[p].cid] \in Hash
      BY DEF ContentRows, RowsHashed
    <3> QED BY <1>0, <1>3, <3>1 DEF TryCollect, GoodJob, Job, JobOK, PurgePc, LockPc
  <2>2. PICK j : Become(p, j) /\ GoodJob(j)
    BY <1>0, <1>3, <2>1 DEF TryCollect, Finish
  <2> QED BY <1>0, <1>3, <2>2, QuietType DEF TryCollect
<1>4. ASSUME ListOrphans(p) PROVE TypeInv'
  <2>1. \A batch \in SUBSET Orphans :
            GoodJob([job[p] EXCEPT !.pc = "next", !.queue = batch])
    BY <1>0, <1>4, ZenonT(30) DEF ListOrphans, Orphans, ContentRows, GoodJob, Job, JobOK, TimerPc, UploadPc,
                      PurgePc, LockPc
  <2>2. PICK j : Become(p, j) /\ GoodJob(j)
    BY <1>4, <2>1 DEF ListOrphans
  <2> QED BY <1>0, <1>4, <2>2, QuietType DEF ListOrphans
<1>5. ASSUME NextOrphan(p) PROVE TypeInv'
  <2>1. \A k \in job[p].queue : k \in ContentId /\ chash[k] \in Hash
    BY <1>0 DEF GoodJob, Job, RowsHashed
  <2>2. \A k \in job[p].queue :
            GoodJob([IdleJob EXCEPT !.pc = "count", !.cid = k, !.hash = chash[k],
                                    !.queue = Rest(job[p].queue, k)])
    BY <1>0, <2>1, ZenonT(30) DEF IdleJob, Rest, GoodJob, Job, JobOK, UploadPc, PurgePc, LockPc
  <2>3. PICK j : Become(p, j) /\ GoodJob(j)
    BY <1>0, <1>5, <2>2 DEF NextOrphan, Finish
  <2> QED BY <1>0, <1>5, <2>3, QuietType DEF NextOrphan
<1>6. ASSUME ShareInsert(p) PROVE TypeInv'
  <2>1. /\ job' \in [Proc -> Job] /\ \A q \in Proc : JobOK(job'[q])
        /\ \A q \in Proc : GoodJob(job[q])'
    BY <1>0, <1>6, BecomeGood DEF ShareInsert, Finish
  <2>2. share' \in [FileId -> {"none", "active", "revoked"}]
    BY <1>6 DEF ShareInsert, TypeOK
  <2> QED BY <1>6, <2>1, <2>2 DEF ShareInsert, TypeOK, RowsHashed, JobOK
<1>7. ASSUME SaveFind(p) PROVE TypeInv'
  <2>1. job[p].file \in FileId => fcid[job[p].file] \in ContentId \cup {None}
    BY DEF TypeOK
  <2>2. job[p].file \in FileId
    BY <1>0, <1>7 DEF SaveFind, GoodJob
  <2>3. frow[job[p].file] = "live" =>
            GoodJob([job[p] EXCEPT !.pc = "link", !.cid = fcid[job[p].file]])
    BY <1>0, <1>7, <2>1, <2>2 DEF SaveFind, GoodJob, Job, JobOK, UploadPc, LinkPc, PurgePc, LockPc
  <2>4. PICK j : Become(p, j) /\ GoodJob(j)
    BY <1>0, <1>7, <2>3 DEF SaveFind, Finish
  <2> QED BY <1>0, <1>7, <2>4, QuietType DEF SaveFind
<1> QED
  BY <1>1, <1>2, <1>3, <1>4, <1>5, <1>6, <1>7, UploadType, PurgeType DEF Step

(* A thread begins something. *)
LEMMA StartType ==
    ASSUME TypeInv, NEW p \in Proc, Request(p) \/ Tick(p)
    PROVE  TypeInv'
<1> USE DEF TypeInv
<1>0. GoodJob(job[p]) /\ job[p] \in Job /\ cache \subseteq Hash
  BY DEF GoodJob, TypeOK
<1>1. ASSUME NEW h \in Hash, UploadStart(p, h) PROVE TypeInv'
  <2>1. \A l \in {"find_cached", "find"} : GoodJob([IdleJob EXCEPT !.hash = h, !.pc = l])
    BY DEF IdleJob, GoodJob, Job, JobOK, UploadPc, PurgePc, LockPc
  <2>2. PICK j : Become(p, j) /\ GoodJob(j)
    BY <1>1, <2>1 DEF UploadStart
  <2> QED BY <1>0, <1>1, <2>2, QuietType DEF UploadStart
<1>2. ASSUME NEW f \in FileId, DeleteStart(p, f) PROVE TypeInv'
  <2>1. fcid[f] \in ContentId \cup {None}
    BY DEF TypeOK
  <2>2. GoodJob([IdleJob EXCEPT !.pc = "soft_delete", !.file = f, !.cid = fcid[f]])
    BY <2>1 DEF IdleJob, GoodJob, Job, JobOK, DeletePc, UploadPc, PurgePc, LockPc
  <2> QED BY <1>0, <1>2, <2>2, QuietType DEF DeleteStart
<1>3. ASSUME NEW f \in FileId, ShareStart(p, f) PROVE TypeInv'
  <2>1. GoodJob([IdleJob EXCEPT !.pc = "share_insert", !.file = f])
    BY DEF IdleJob, GoodJob, Job, JobOK, UploadPc, PurgePc, LockPc
  <2> QED BY <1>0, <1>3, <2>1, QuietType DEF ShareStart
<1>4. ASSUME NEW f \in FileId, ShareRevoke(p, f) PROVE TypeInv'
  BY <1>4 DEF ShareRevoke, Overlap, Revoked, TypeOK, RowsHashed, GoodJob, JobOK
<1>5. ASSUME NEW f \in FileId, SaveStart(p, f) PROVE TypeInv'
  <2>1. GoodJob([IdleJob EXCEPT !.pc = "save_find", !.file = f])
    BY DEF IdleJob, GoodJob, Job, JobOK, LinkPc, UploadPc, PurgePc, LockPc
  <2> QED BY <1>0, <1>5, <2>1, QuietType DEF SaveStart
<1>6. ASSUME Tick(p) PROVE TypeInv'
  <2>1. GoodJob([job[p] EXCEPT !.pc = "list"])
    BY <1>0, <1>6 DEF Tick, GoodJob, Job, JobOK, TimerPc, UploadPc, PurgePc, LockPc
  <2>2. /\ job' \in [Proc -> Job] /\ \A q \in Proc : JobOK(job'[q])
        /\ \A q \in Proc : GoodJob(job[q])'
    BY <1>6, <2>1, BecomeGood DEF Tick, Goto
  <2>3. share' \in [FileId -> {"none", "active", "revoked"}]
    BY <1>6 DEF Tick, Revoked, TypeOK
  <2> QED BY <1>6, <2>2, <2>3 DEF Tick, Overlap, TypeOK, RowsHashed, JobOK
<1> QED
  BY <1>1, <1>2, <1>3, <1>4, <1>5, <1>6 DEF Request

(* The empty tables satisfy the type invariant.                            *)
LEMMA TypeInit == Init => TypeInv
<1> SUFFICES ASSUME Init PROVE TypeInv
  OBVIOUS
<1>1. \A p \in Proc : GoodJob(job[p])
  BY IdleJobOK DEF Init
<1>2. RowsHashed
  BY DEF Init, RowsHashed
<1>3. TypeOK
  BY <1>1, ContentStoreAssumption DEF Init, TypeOK, GoodJob
<1> QED BY <1>1, <1>2, <1>3 DEF TypeInv

(* Every step keeps the type invariant.                                    *)
LEMMA TypeNext ==
    ASSUME TypeInv, [Next]_vars
    PROVE  TypeInv'
<1>1. CASE UNCHANGED vars
  BY <1>1 DEF vars, dbVars, TypeInv, TypeOK, RowsHashed, GoodJob, JobOK
<1>2. CASE Crash
  BY <1>2, FaultType, DieType DEF Crash, TypeInv, TypeOK
<1>3. CASE \E p \in Proc : Step(p) \/ Request(p) \/ Tick(p)
  BY <1>3, StepType, StartType
<1> QED
  BY <1>1, <1>2, <1>3 DEF Next

(* Type correctness, for every instance: every variable keeps its type, and *)
(* neither put_chunked nor purge_content steps past its chunk list.        *)
THEOREM TypeCorrect == Spec => []TypeOK
<1>1. Init => TypeInv
  BY TypeInit
<1>2. TypeInv /\ [Next]_vars => TypeInv'
  BY TypeNext
<1>3. TypeInv => TypeOK
  BY DEF TypeInv
<1> QED
  BY <1>1, <1>2, <1>3, PTL DEF Spec

-------------------------------------------------------------------------------
(* Referential integrity.  What makes it inductive is what an open purge    *)
(* has locked: its txFiles are tombstones of its content that no other     *)
(* purge holds and whose shares it has deleted too, and once it has        *)
(* deleted the content row, those are all the files the content has.       *)

LatePc == {"del_content"} \cup LockPc

JobLocks(p) ==
    /\ job[p].pc \notin LatePc => job[p].txFiles = {}
    /\ job[p].pc \in LockPc <=> job[p].txContent
    /\ \A f \in job[p].txFiles :
          /\ frow[f] = "tomb" /\ fcid[f] = job[p].cid
          /\ share[f] = "none" \/ f \in job[p].txShares
    /\ job[p].txContent =>
          /\ job[p].cid \in ContentRows
          /\ \A f \in FileId : HasFile(f) /\ fcid[f] = job[p].cid => f \in job[p].txFiles

Exclusive ==
    \A p, q \in Proc : p # q =>
        /\ job[p].txFiles \cap job[q].txFiles = {}
        /\ job[p].txContent /\ job[q].txContent => job[p].cid # job[q].cid

LockInv == ReferentialIntegrity /\ Exclusive /\ \A p \in Proc : JobLocks(p)

(* A thread without locks moves on without any, and the tables stay.       *)
NoLocks(j) == j.txFiles = {} /\ ~j.txContent /\ j.pc \notin LatePc

(* A thread that moves on without locks, with the tables unchanged, keeps LockInv. *)
LEMMA QuietLocks ==
    ASSUME TypeInv, LockInv, UNCHANGED dbVars,
           NEW p \in Proc, NEW j, NoLocks(j), Become(p, j)
    PROVE  LockInv'
<1>1. \A q \in Proc : job'[q] = IF q = p THEN j ELSE job[q]
  BY DEF Become, TypeInv, TypeOK
<1>2. ReferentialIntegrity'
  BY DEF LockInv, ReferentialIntegrity, dbVars, HasFile, ContentRows
<1>3. Exclusive'
  BY <1>1 DEF LockInv, Exclusive, NoLocks
<1>4. \A q \in Proc : JobLocks(q)'
  BY <1>1 DEF LockInv, JobLocks, NoLocks, dbVars, HasFile, ContentRows, LatePc
<1> QED BY <1>2, <1>3, <1>4 DEF LockInv

(* A crash rolls every open transaction back.                              *)
LEMMA DieLocks ==
    ASSUME LockInv, UNCHANGED dbVars, Die
    PROVE  LockInv'
<1>1. \A q \in Proc : job'[q] = IdleJob
  BY DEF Die
<1>2. ReferentialIntegrity'
  BY DEF LockInv, ReferentialIntegrity, dbVars, HasFile, ContentRows
<1>3. Exclusive' /\ \A q \in Proc : JobLocks(q)'
  BY <1>1 DEF Exclusive, JobLocks, IdleJob, LatePc, LockPc
<1> QED BY <1>2, <1>3 DEF LockInv

(* A thread between two requests has no lock.                              *)
LEMMA IdleNoLocks == NoLocks(IdleJob)
BY DEF NoLocks, IdleJob, LatePc, LockPc

(* collect_orphans has no lock between two orphans.                        *)
LEMMA NextNoLocks ==
    ASSUME NEW ks
    PROVE  NoLocks([IdleJob EXCEPT !.pc = "next", !.queue = ks])
BY DEF NoLocks, IdleJob, LatePc, LockPc

(* A purge that ends without a commit gives its locks up.                  *)
LEMMA EndPurgeLocks ==
    ASSUME TypeInv, LockInv, UNCHANGED dbVars, NEW p \in Proc, EndPurge(p)
    PROVE  LockInv'
BY IdleNoLocks, NextNoLocks, QuietLocks DEF EndPurge

(* A purge that throws gives its locks up, or the process dies.            *)
LEMMA ThrowLocks ==
    ASSUME TypeInv, LockInv, UNCHANGED dbVars, NEW p \in Proc, ThrowPurge(p)
    PROVE  LockInv'
BY DieLocks, IdleNoLocks, QuietLocks DEF ThrowPurge, Finish

(* A file or a content row is inserted by a thread that holds no locks,    *)
(* under a content that no purge has deleted.                              *)
LEMMA InsertLocks ==
    ASSUME TypeInv, LockInv, NEW p \in Proc, NEW j, NoLocks(j), Become(p, j), NoLocks(job[p]),
           NEW f \in FileId, NEW k \in ContentId, NewFile(f, k), share' = share,
           \A r \in ContentRows : r \in ContentRows', k \in ContentRows',
           ~ContentLocked(k, p)
    PROVE  LockInv'
<1>1. \A q \in Proc : job'[q] = IF q = p THEN j ELSE job[q]
  BY DEF Become, TypeInv, TypeOK
<1>2. /\ \A g \in FileId : frow'[g] = IF g = f THEN "live" ELSE frow[g]
      /\ \A g \in FileId : fcid'[g] = IF g = f THEN k ELSE fcid[g]
      /\ frow[f] = "free"
  BY DEF NewFile, FreshFile, TypeInv, TypeOK
<1>3. ReferentialIntegrity'
  BY <1>2 DEF LockInv, ReferentialIntegrity, HasFile
<1>4. Exclusive'
  BY <1>1 DEF LockInv, Exclusive, NoLocks
<1>5. ASSUME NEW q \in Proc PROVE JobLocks(q)'
  <2>1. CASE q = p
    BY <1>1, <2>1 DEF JobLocks, NoLocks, LatePc
  <2>2. CASE q # p
    <3>1. job'[q] = job[q] /\ JobLocks(q) /\ job[q] \in Job
      BY <1>1, <2>2 DEF LockInv, TypeInv, TypeOK
    <3>2. job[q].txContent => job[q].cid # k
      BY <2>2 DEF ContentLocked
    <3>3. job[q].txFiles \subseteq FileId /\ f \notin job[q].txFiles
      BY <1>2, <3>1 DEF JobLocks, Job
    <3> QED BY <1>2, <3>1, <3>2, <3>3 DEF JobLocks, HasFile
  <2> QED BY <2>1, <2>2
<1> QED BY <1>3, <1>4, <1>5 DEF LockInv

(* Outside the late part of a purge a thread holds no row locks. *)
LEMMA EarlyNoLocks ==
    ASSUME LockInv, NEW p \in Proc, job[p].pc \notin LatePc
    PROVE  NoLocks(job[p])
BY DEF LockInv, JobLocks, NoLocks, LatePc

(* The steps of an upload or a link keep LockInv: no reference to a locked row. *)
LEMMA UploadLocks ==
    ASSUME TypeInv, LockInv, NEW p \in Proc, UploadStep(p)
    PROVE  LockInv'
<1>0. job[p] \in Job /\ job \in [Proc -> Job]
  BY DEF TypeInv, TypeOK
<1>a. job[p].pc \notin LatePc
  BY DEF UploadStep, FindCached, FindContent, PutExists, PutOpen, PutWrite, InsertLink,
     EnsureContent, EnsureRaced, InsertFile, InsertNameTaken, CacheFill, LatePc, LockPc
<1>b. NoLocks(job[p]) /\ NoLocks(IdleJob)
  BY <1>a, EarlyNoLocks, IdleNoLocks
<1>c. \A l \in {"find", "open", "insert", "fill"} : NoLocks([job[p] EXCEPT !.pc = l])
  BY <1>0, <1>b DEF NoLocks, LatePc, LockPc, Job
<1>d. \A l \in {"link", "insert"}, k \in ContentId : NoLocks([job[p] EXCEPT !.pc = l, !.cid = k])
  BY <1>0, <1>b DEF NoLocks, LatePc, LockPc, Job
<1>1. ASSUME FindCached(p) PROVE LockInv'
  BY <1>1, <1>c, <1>d, QuietLocks DEF FindCached, Goto, RowsOfHash, ContentRows
<1>2. ASSUME FindContent(p) PROVE LockInv'
  <2>1. NoLocks([job[p] EXCEPT !.pc = "put", !.idx = 1])
    BY <1>0, <1>b DEF NoLocks, LatePc, LockPc, Job
  <2> QED BY <1>2, <1>d, <2>1, QuietLocks DEF FindContent, RowsOfHash, ContentRows
<1>3. ASSUME NextPut(p), UNCHANGED dbVars PROVE LockInv'
  <2>a. NoLocks([job[p] EXCEPT !.pc = "put", !.idx = @ + 1, !.linked = FALSE])
    BY <1>0, <1>b DEF NoLocks, LatePc, LockPc, Job
  <2>b. NoLocks([job[p] EXCEPT !.pc = "ensure", !.linked = FALSE])
    BY <1>0, <1>b DEF NoLocks, LatePc, LockPc, Job
  <2>1. PICK j : Become(p, j) /\ NoLocks(j)
    BY <1>3, <2>a, <2>b DEF NextPut
  <2> QED BY <1>3, <2>1, QuietLocks
<1>4. ASSUME PutExists(p) PROVE LockInv'
  BY <1>3, <1>4, <1>c, QuietLocks DEF PutExists, Goto
<1>5. ASSUME PutOpen(p) PROVE LockInv'
  <2>1. NoLocks([job[p] EXCEPT !.pc = "write", !.linked = TRUE])
    BY <1>0, <1>b DEF NoLocks, LatePc, LockPc, Job
  <2> QED BY <1>5, <1>b, <2>1, QuietLocks DEF PutOpen, Finish
<1>6. ASSUME PutWrite(p) PROVE LockInv'
  BY <1>3, <1>6 DEF PutWrite
<1>7. ASSUME InsertLink(p) PROVE LockInv'
  <2>1. CASE UNCHANGED <<frow, fcid>>
    BY <1>7, <1>b, <2>1, QuietLocks DEF InsertLink, Finish, dbVars
  <2>2. CASE /\ ReferencesContent(job[p].cid)
             /\ \E f \in FileId : NewFile(f, job[p].cid)
    BY <1>7, <1>b, <2>2, InsertLocks DEF InsertLink, Finish, ReferencesContent, ContentRows
  <2> QED BY <1>7, <2>1, <2>2 DEF InsertLink
<1>8. ASSUME EnsureContent(p) PROVE LockInv'
  BY <1>8, <1>c, <1>d, QuietLocks DEF EnsureContent, Goto, RowsOfHash, ContentRows
<1>9. ASSUME EnsureRaced(p) PROVE LockInv'
  <2>1. \A k \in ContentId : NoLocks([job[p] EXCEPT !.cid = k])
    BY <1>0, <1>b DEF NoLocks, Job
  <2> QED BY <1>9, <2>1, QuietLocks DEF EnsureRaced, ConflictingRows, RowsOfHash, ContentRows
<1>10. ASSUME InsertFile(p) PROVE LockInv'
  <2>1. CASE /\ job[p].cid = None
             /\ \E k \in ContentId, f \in FileId :
                   /\ FreshContent(k) /\ NewFile(f, k)
                   /\ crow'  = [crow EXCEPT ![k] = "row"]
             /\ Goto(p, "fill")
    <3>1. PICK k \in ContentId, f \in FileId :
                   /\ FreshContent(k) /\ NewFile(f, k)
                   /\ crow'  = [crow EXCEPT ![k] = "row"]
      BY <2>1
    <3>2. crow' \in [ContentId -> {"free", "row", "gone"}] /\ k \in ContentRows'
          /\ \A r \in ContentRows : r \in ContentRows'
      BY <3>1 DEF TypeInv, TypeOK, ContentRows
    <3>3. ~ContentLocked(k, p)
      BY <3>1 DEF ContentLocked, LockInv, JobLocks, ContentRows, FreshContent
    <3> QED BY <1>10, <1>b, <1>c, <2>1, <3>1, <3>2, <3>3, InsertLocks DEF InsertFile, Goto
  <2>2. CASE /\ ~ContentLocked(job[p].cid, p)
             /\ ReferencesContent(job[p].cid)
             /\ \E f \in FileId : NewFile(f, job[p].cid)
             /\ Goto(p, "fill")
             /\ UNCHANGED <<crow, chash>>
    BY <1>10, <1>b, <1>c, <2>2, InsertLocks DEF InsertFile, Goto, ReferencesContent, ContentRows
  <2>3. CASE Finish(p) /\ UNCHANGED <<crow, chash, frow, fcid>>
    BY <1>10, <1>b, <2>3, QuietLocks DEF InsertFile, Finish, dbVars
  <2> QED BY <1>10, <2>1, <2>2, <2>3 DEF InsertFile
<1>11. ASSUME InsertNameTaken(p) \/ CacheFill(p) PROVE LockInv'
  BY <1>11, <1>b, QuietLocks DEF InsertNameTaken, CacheFill, Finish
<1> QED
  BY <1>1, <1>2, <1>4, <1>5, <1>6, <1>7, <1>8, <1>9, <1>10, <1>11 DEF UploadStep

(* The purge itself: it takes its locks, and gives them up by deleting. *)
LEMMA PurgeLocks ==
    ASSUME TypeInv, LockInv, NEW p \in Proc, PurgeStep(p)
    PROVE  LockInv'
<1>0. job[p] \in Job /\ job \in [Proc -> Job] /\ JobLocks(p)
  BY DEF TypeInv, TypeOK, LockInv
<1>1. ASSUME ActiveRefcount(p) PROVE LockInv'
  <2>1. NoLocks([job[p] EXCEPT !.pc = "del_shares"])
    BY <1>0, <1>1, EarlyNoLocks DEF ActiveRefcount, NoLocks, LatePc, LockPc, Job
  <2> QED BY <1>1, <2>1, EndPurgeLocks, QuietLocks DEF ActiveRefcount, Goto
<1>2. ASSUME DelShares(p) PROVE LockInv'
  <2>1. \A fs : NoLocks([job[p] EXCEPT !.pc = "del_files", !.txShares = fs])
    BY <1>0, <1>2, EarlyNoLocks DEF DelShares, NoLocks, LatePc, LockPc, Job
  <2> QED BY <1>2, <2>1, QuietLocks DEF DelShares
<1>3. ASSUME DelFiles(p) PROVE LockInv'
  <2> DEFINE T == Doomed(job[p].cid)
             j == [job[p] EXCEPT !.pc = "del_content", !.txFiles = T]
  <2>1. CASE ThrowPurge(p)
    BY <1>3, <2>1, ThrowLocks DEF DelFiles
  <2>2. CASE Become(p, j) /\ \A f \in T : share[f] = "none" \/ f \in job[p].txShares
    <3>1. /\ j.pc = "del_content" /\ j.txFiles = T /\ j.txContent = job[p].txContent
          /\ j.cid = job[p].cid /\ j.txShares = job[p].txShares
      BY <1>0 DEF Job
    <3>2. ~job[p].txContent
      BY <1>0, <1>3 DEF DelFiles, JobLocks, LockPc
    <3>3. \A f \in T : f \in FileId /\ frow[f] = "tomb" /\ fcid[f] = job[p].cid
      BY DEF Doomed, Tombstones
    <3>4. \A q \in Proc \ {p} : T \cap job[q].txFiles = {}
      BY <1>3 DEF DelFiles, FileLocked
    <3>5. \A q \in Proc : job'[q] = IF q = p THEN j ELSE job[q]
      BY <1>0, <2>2 DEF Become
    <3> HIDE DEF T, j
    <3>6. ReferentialIntegrity'
      BY <1>3 DEF DelFiles, LockInv, ReferentialIntegrity, dbVars, HasFile, ContentRows
    <3>7. Exclusive'
      BY <3>1, <3>2, <3>4, <3>5 DEF LockInv, Exclusive
    <3>8. ASSUME NEW q \in Proc PROVE JobLocks(q)'
      <4>1. CASE q = p
        BY <1>3, <2>2, <3>1, <3>2, <3>3, <3>5, <4>1 DEF DelFiles, JobLocks, LatePc, LockPc, dbVars
      <4>2. CASE q # p
        BY <1>3, <3>5, <4>2 DEF DelFiles, LockInv, JobLocks, dbVars, HasFile, ContentRows
      <4> QED BY <4>1, <4>2
    <3> QED BY <3>6, <3>7, <3>8 DEF LockInv
  <2> QED BY <1>3, <2>1, <2>2 DEF DelFiles
<1>4. ASSUME DelContent(p) PROVE LockInv'
  <2> DEFINE j == [job[p] EXCEPT !.pc = "in_use", !.txContent = TRUE, !.idx = 1]
  <2>1. CASE EndPurge(p)
    BY <1>4, <2>1, EndPurgeLocks DEF DelContent
  <2>2. CASE ThrowPurge(p)
    BY <1>4, <2>2, ThrowLocks DEF DelContent
  <2>3. CASE /\ job[p].cid \in ContentRows /\ ~LiveFilesExist(job[p].cid)
             /\ Tombstones(job[p].cid) \subseteq job[p].txFiles
             /\ Become(p, j)
    <3>1. /\ j.pc = "in_use" /\ j.txFiles = job[p].txFiles /\ j.txContent
          /\ j.cid = job[p].cid /\ j.txShares = job[p].txShares
      BY <1>0 DEF Job
    <3>2. \A q \in Proc : job'[q] = IF q = p THEN j ELSE job[q]
      BY <1>0, <2>3 DEF Become
    <3> HIDE DEF j
    <3>3. \A f \in FileId : HasFile(f) /\ fcid[f] = job[p].cid => f \in job[p].txFiles
      BY <2>3 DEF LiveFilesExist, LiveFiles, Tombstones, HasFile
    <3>4. \A q \in Proc \ {p} : job[q].txContent => job[q].cid # job[p].cid
      BY <1>4 DEF DelContent, ContentLocked
    <3>5. ReferentialIntegrity'
      BY <1>4 DEF DelContent, LockInv, ReferentialIntegrity, dbVars, HasFile, ContentRows
    <3>6. Exclusive'
      BY <3>1, <3>2, <3>4 DEF LockInv, Exclusive
    <3>7. ASSUME NEW q \in Proc PROVE JobLocks(q)'
      <4>1. CASE q = p
        BY <1>0, <1>4, <2>3, <3>1, <3>2, <3>3, <4>1
        DEF DelContent, JobLocks, LatePc, LockPc, dbVars, HasFile, ContentRows
      <4>2. CASE q # p
        BY <1>4, <3>2, <4>2 DEF DelContent, LockInv, JobLocks, dbVars, HasFile, ContentRows
      <4> QED BY <4>1, <4>2
    <3> QED BY <3>5, <3>6, <3>7 DEF LockInv
  <2> QED BY <1>4, <2>1, <2>2, <2>3 DEF DelContent
<1>5. ASSUME UNCHANGED dbVars,
             \A q \in Proc : /\ job'[q].txFiles = job[q].txFiles
                             /\ job'[q].txShares = job[q].txShares
                             /\ job'[q].txContent = job[q].txContent
                             /\ job'[q].cid = job[q].cid
                             /\ job[q].pc \in LockPc <=> job'[q].pc \in LockPc
                             /\ job'[q].pc \in LatePc <=> job[q].pc \in LatePc
      PROVE  LockInv'
  <2>1. ReferentialIntegrity'
    BY <1>5 DEF LockInv, ReferentialIntegrity, dbVars, HasFile, ContentRows
  <2>2. Exclusive'
    BY <1>5 DEF LockInv, Exclusive
  <2>3. \A q \in Proc : JobLocks(q)'
    BY <1>5 DEF LockInv, JobLocks, dbVars, HasFile, ContentRows
  <2> QED BY <2>1, <2>2, <2>3 DEF LockInv
<1>6. ASSUME job[p].pc \in {"in_use", "unlink"}, NEW j,
             j = AfterChunk(job[p]) \/ j = [job[p] EXCEPT !.pc = "unlink", !.seen = ContentRows]
      PROVE  /\ j.txFiles = job[p].txFiles /\ j.txShares = job[p].txShares
             /\ j.txContent = job[p].txContent /\ j.cid = job[p].cid
             /\ job[p].pc \in LockPc /\ j.pc \in LockPc
             /\ job[p].pc \in LatePc /\ j.pc \in LatePc
  BY <1>0, <1>6 DEF AfterChunk, LockPc, LatePc, Job
<1>7. ASSUME InUse(p) PROVE LockInv'
  <2>1. PICK j : /\ Become(p, j)
                 /\ j = AfterChunk(job[p]) \/ j = [job[p] EXCEPT !.pc = "unlink", !.seen = ContentRows]
    BY <1>7 DEF InUse
  <2>2. \A q \in Proc : job'[q] = IF q = p THEN j ELSE job[q]
    BY <1>0, <2>1 DEF Become
  <2> QED BY <1>5, <1>6, <1>7, <2>1, <2>2 DEF InUse
<1>8. ASSUME Unlink(p) PROVE LockInv'
  <2> DEFINE c == CurrentChunk(job[p])
  <2>1. CASE ThrowPurge(p)
    BY <1>8, <2>1, ThrowLocks DEF Unlink
  <2>2. CASE job' = [q \in Proc |-> IF q = p THEN AfterChunk(job[p]) ELSE Unlinked(c, job[q])]
    <3> HIDE DEF c
    <3>1. \A q \in Proc : q # p =>
             /\ job'[q].txFiles = job[q].txFiles /\ job'[q].txShares = job[q].txShares
             /\ job'[q].txContent = job[q].txContent /\ job'[q].cid = job[q].cid
             /\ job'[q].pc = job[q].pc
      BY <1>0, <2>2 DEF Unlinked, Job
    <3>2. job'[p] = AfterChunk(job[p])
      BY <2>2
    <3> QED BY <1>5, <1>6, <1>8, <3>1, <3>2 DEF Unlink
  <2> QED BY <1>8, <2>1, <2>2 DEF Unlink
<1>9. ASSUME Commit(p) PROVE LockInv'
  <2>1. CASE ThrowPurge(p) /\ UNCHANGED <<crow, frow, share>>
    BY <1>9, <2>1, ThrowLocks DEF Commit, dbVars
  <2>2. CASE /\ frow'  = [f \in FileId |-> IF f \in job[p].txFiles THEN "gone" ELSE frow[f]]
             /\ share' = [f \in FileId |-> IF f \in job[p].txShares THEN "none" ELSE share[f]]
             /\ crow'  = [crow EXCEPT ![job[p].cid] = "gone"]
             /\ EndPurge(p)
    <3>1. /\ job[p].txContent
          /\ \A f \in FileId : HasFile(f) /\ fcid[f] = job[p].cid => f \in job[p].txFiles
          /\ \A f \in job[p].txFiles : share[f] = "none" \/ f \in job[p].txShares
      BY <1>0, <1>9 DEF Commit, JobLocks, LockPc
    <3>2. /\ \A f \in FileId : frow'[f] = IF f \in job[p].txFiles THEN "gone" ELSE frow[f]
          /\ \A f \in FileId : share'[f] = IF f \in job[p].txShares THEN "none" ELSE share[f]
          /\ \A k \in ContentId : crow'[k] = IF k = job[p].cid THEN "gone" ELSE crow[k]
          /\ fcid' = fcid
      BY <1>9, <2>2 DEF Commit, TypeInv, TypeOK
    <3>3. PICK j : Become(p, j) /\ NoLocks(j)
      BY <2>2, IdleNoLocks, NextNoLocks DEF EndPurge
    <3>4. \A q \in Proc : job'[q] = IF q = p THEN j ELSE job[q]
      BY <1>0, <3>3 DEF Become
    <3>5. ReferentialIntegrity'
      BY <3>1, <3>2 DEF LockInv, ReferentialIntegrity, HasFile, ContentRows
    <3>6. Exclusive'
      BY <3>3, <3>4 DEF LockInv, Exclusive, NoLocks
    <3>7. ASSUME NEW q \in Proc PROVE JobLocks(q)'
      <4>1. CASE q = p
        BY <3>3, <3>4, <4>1 DEF JobLocks, NoLocks, LatePc
      <4>2. CASE q # p
        <5>1. job'[q] = job[q] /\ JobLocks(q) /\ job[q].txFiles \subseteq FileId
          BY <3>4, <4>2 DEF LockInv, TypeInv, TypeOK, Job
        <5>2. job[q].txFiles \cap job[p].txFiles = {}
              /\ (job[q].txContent => job[q].cid # job[p].cid)
          BY <3>1, <4>2 DEF LockInv, Exclusive
        <5> QED BY <3>2, <5>1, <5>2 DEF JobLocks, HasFile, ContentRows
      <4> QED BY <4>1, <4>2
    <3> QED BY <3>5, <3>6, <3>7 DEF LockInv
  <2> QED BY <1>9, <2>1, <2>2 DEF Commit
<1> QED
  BY <1>1, <1>2, <1>3, <1>4, <1>7, <1>8, <1>9 DEF PurgeStep

(* A share is inserted, revoked or expires under a thread without locks,   *)
(* on a files row that no purge has deleted.                               *)
LEMMA ShareLocks ==
    ASSUME TypeInv, LockInv, UNCHANGED <<crow, frow, fcid>>,
           NEW p \in Proc, NEW j, NoLocks(j), Become(p, j),
           \A f \in FileId : \/ share'[f] = share[f]
                             \/ share[f] # "none"
                             \/ HasFile(f) /\ \A q \in Proc : q # p => f \notin job[q].txFiles
    PROVE  LockInv'
<1>1. \A q \in Proc : job'[q] = IF q = p THEN j ELSE job[q]
  BY DEF Become, TypeInv, TypeOK
<1>2. ReferentialIntegrity'
  BY DEF LockInv, ReferentialIntegrity, HasFile, ContentRows
<1>3. Exclusive'
  BY <1>1 DEF LockInv, Exclusive, NoLocks
<1>4. ASSUME NEW q \in Proc PROVE JobLocks(q)'
  <2>1. CASE q = p
    BY <1>1, <2>1 DEF JobLocks, NoLocks, LatePc
  <2>2. CASE q # p
    <3>1. job'[q] = job[q] /\ JobLocks(q) /\ job[q].txFiles \subseteq FileId
      BY <1>1, <2>2 DEF LockInv, TypeInv, TypeOK, Job
    <3> QED BY <2>2, <3>1 DEF JobLocks, HasFile, ContentRows
  <2> QED BY <2>1, <2>2
<1> QED BY <1>2, <1>3, <1>4 DEF LockInv

(* Every step of a running request keeps LockInv.                          *)
LEMMA StepLocks ==
    ASSUME TypeInv, LockInv, NEW p \in Proc, Step(p)
    PROVE  LockInv'
<1>0. job[p] \in Job /\ job \in [Proc -> Job] /\ GoodJob(job[p])
  BY DEF TypeInv, TypeOK
<1>1. ASSUME SoftDelete(p) PROVE LockInv'
  <2> DEFINE j == [job[p] EXCEPT !.pc = "revoke"]
  <2>1. NoLocks(j)
    BY <1>0, <1>1, EarlyNoLocks DEF SoftDelete, NoLocks, LatePc, LockPc, Job
  <2>2. \A q \in Proc : job'[q] = IF q = p THEN j ELSE job[q]
    BY <1>0, <1>1 DEF SoftDelete, Goto, Become
  <2> HIDE DEF j
  <2>3. \A f \in FileId : \/ frow'[f] = frow[f]
                          \/ HasFile(f) /\ frow'[f] = "tomb"
    BY <1>1 DEF SoftDelete, TypeInv, TypeOK
  <2>4. ReferentialIntegrity'
    BY <1>1, <2>3 DEF SoftDelete, LockInv, ReferentialIntegrity, HasFile, ContentRows
  <2>5. Exclusive'
    BY <2>1, <2>2 DEF LockInv, Exclusive, NoLocks
  <2>6. ASSUME NEW q \in Proc PROVE JobLocks(q)'
    <3>1. CASE q = p
      BY <2>1, <2>2, <3>1 DEF JobLocks, NoLocks, LatePc
    <3>2. CASE q # p
      <4>1. job'[q] = job[q] /\ JobLocks(q) /\ job[q].txFiles \subseteq FileId
        BY <2>2, <3>2 DEF LockInv, TypeInv, TypeOK, Job
      <4> QED BY <1>1, <2>3, <4>1 DEF SoftDelete, JobLocks, HasFile, ContentRows
    <3> QED BY <3>1, <3>2
  <2> QED BY <2>4, <2>5, <2>6 DEF LockInv
<1>2. ASSUME RevokeByFile(p) PROVE LockInv'
  <2>1. NoLocks([job[p] EXCEPT !.pc = "collect"])
    BY <1>0, <1>2, EarlyNoLocks DEF RevokeByFile, NoLocks, LatePc, LockPc, Job
  <2>2. \A f \in FileId : share'[f] = share[f] \/ share[f] # "none"
    BY <1>2 DEF RevokeByFile, Revoked, ActiveShares
  <2> QED BY <1>2, <2>1, <2>2, ShareLocks DEF RevokeByFile, Goto
<1>3. ASSUME TryCollect(p) PROVE LockInv'
  <2>1. NoLocks([job[p] EXCEPT !.pc = "count", !.hash = chash[job[p].cid]])
    BY <1>0, <1>3, EarlyNoLocks DEF TryCollect, NoLocks, LatePc, LockPc, Job
  <2> QED BY <1>3, <2>1, IdleNoLocks, QuietLocks DEF TryCollect, Finish
<1>4. ASSUME ListOrphans(p) PROVE LockInv'
  <2>1. \A ks : NoLocks([job[p] EXCEPT !.pc = "next", !.queue = ks])
    BY <1>0, <1>4, EarlyNoLocks DEF ListOrphans, NoLocks, LatePc, LockPc, Job
  <2> QED BY <1>4, <2>1, QuietLocks DEF ListOrphans
<1>5. ASSUME NextOrphan(p) PROVE LockInv'
  <2>1. \A k, h, ks : NoLocks([IdleJob EXCEPT !.pc = "count", !.cid = k, !.hash = h, !.queue = ks])
    BY DEF NoLocks, IdleJob, LatePc, LockPc
  <2> QED BY <1>5, <2>1, IdleNoLocks, QuietLocks DEF NextOrphan, Finish
<1>6. ASSUME ShareInsert(p) PROVE LockInv'
  <2>1. \A f \in FileId : \/ share'[f] = share[f]
                          \/ HasFile(f) /\ \A q \in Proc : q # p => f \notin job[q].txFiles
    BY <1>6 DEF ShareInsert, FileLocked, TypeInv, TypeOK
  <2> QED BY <1>6, <2>1, IdleNoLocks, ShareLocks DEF ShareInsert, Finish
<1>7. ASSUME SaveFind(p) PROVE LockInv'
  <2>1. \A k : NoLocks([job[p] EXCEPT !.pc = "link", !.cid = k])
    BY <1>0, <1>7, EarlyNoLocks DEF SaveFind, NoLocks, LatePc, LockPc, Job
  <2> QED BY <1>7, <2>1, IdleNoLocks, QuietLocks DEF SaveFind, Finish
<1> QED
  BY <1>1, <1>2, <1>3, <1>4, <1>5, <1>6, <1>7, UploadLocks, PurgeLocks DEF Step

(* A new request and the hourly task keep LockInv.                         *)
LEMMA StartLocks ==
    ASSUME TypeInv, LockInv, NEW p \in Proc, Request(p) \/ Tick(p)
    PROVE  LockInv'
<1>0. job[p] \in Job /\ job \in [Proc -> Job]
  BY DEF TypeInv, TypeOK
<1>1. ASSUME NEW h \in Hash, UploadStart(p, h) PROVE LockInv'
  <2>1. \A l \in {"find_cached", "find"} : NoLocks([IdleJob EXCEPT !.hash = h, !.pc = l])
    BY DEF IdleJob, NoLocks, LatePc, LockPc
  <2> QED BY <1>1, <2>1, QuietLocks DEF UploadStart
<1>2. ASSUME NEW f \in FileId, DeleteStart(p, f) \/ ShareStart(p, f) \/ SaveStart(p, f) PROVE LockInv'
  <2>1. /\ NoLocks([IdleJob EXCEPT !.pc = "soft_delete", !.file = f, !.cid = fcid[f]])
        /\ NoLocks([IdleJob EXCEPT !.pc = "share_insert", !.file = f])
        /\ NoLocks([IdleJob EXCEPT !.pc = "save_find", !.file = f])
    BY DEF IdleJob, NoLocks, LatePc, LockPc
  <2> QED BY <1>2, <2>1, QuietLocks DEF DeleteStart, ShareStart, SaveStart
<1>3. ASSUME NEW f \in FileId, ShareRevoke(p, f) PROVE LockInv'
  <2>1. NoLocks(job[p]) /\ Become(p, job[p])
    BY <1>0, <1>3, EarlyNoLocks DEF ShareRevoke, LatePc, LockPc, Become
  <2>2. \A g \in FileId : share'[g] = share[g] \/ share[g] # "none"
    BY <1>3 DEF ShareRevoke, Revoked
  <2> QED BY <1>3, <2>1, <2>2, ShareLocks DEF ShareRevoke
<1>4. ASSUME Tick(p) PROVE LockInv'
  <2>1. NoLocks([job[p] EXCEPT !.pc = "list"])
    BY <1>0, <1>4, EarlyNoLocks DEF Tick, NoLocks, LatePc, LockPc, Job
  <2>2. \A g \in FileId : share'[g] = share[g] \/ share[g] # "none"
    BY <1>4 DEF Tick, Revoked, ActiveShares
  <2> QED BY <1>4, <2>1, <2>2, ShareLocks DEF Tick, Goto
<1> QED
  BY <1>1, <1>2, <1>3, <1>4 DEF Request

(* The empty tables satisfy LockInv.                                       *)
LEMMA LocksInit == Init => LockInv
BY DEF Init, IdleJob, LockInv, ReferentialIntegrity, Exclusive, JobLocks, HasFile, LatePc, LockPc

(* Every step keeps LockInv.                                               *)
LEMMA LocksNext ==
    ASSUME TypeInv, LockInv, [Next]_vars
    PROVE  LockInv'
<1>1. CASE UNCHANGED vars
  BY <1>1 DEF vars, dbVars, LockInv, ReferentialIntegrity, Exclusive, JobLocks, HasFile, ContentRows
<1>2. CASE Crash
  BY <1>2, DieLocks DEF Crash
<1>3. CASE \E p \in Proc : Step(p) \/ Request(p) \/ Tick(p)
  BY <1>3, StepLocks, StartLocks
<1> QED
  BY <1>1, <1>2, <1>3 DEF Next

(* No interleaving of uploads, links, deletions, shares, purges, crashes   *)
(* and failed commits leaves a files row without its content row or a      *)
(* share without its files row.                                            *)
THEOREM IntegrityHolds == Spec => []ReferentialIntegrity
<1>1. Init => TypeInv /\ LockInv
  BY TypeInit, LocksInit
<1>2. TypeInv /\ LockInv /\ [Next]_vars => TypeInv' /\ LockInv'
  BY TypeNext, LocksNext
<1>3. LockInv => ReferentialIntegrity
  BY DEF LockInv
<1> QED
  BY <1>1, <1>2, <1>3, PTL DEF Spec

-------------------------------------------------------------------------------
(* The life of the content rows. *)

(* A content row is inserted by InsertFile and removed by Commit, and by   *)
(* nothing else.                                                           *)
RowInserted(p) ==
    /\ job[p].pc = "insert" /\ job[p].cid = None /\ RowsOfHash(job[p].hash) = {}
    /\ \E k \in ContentId : /\ crow[k] = "free"
                            /\ crow' = [crow EXCEPT ![k] = "row"]
                            /\ chash' = [chash EXCEPT ![k] = job[p].hash]
    /\ Goto(p, "fill") /\ UNCHANGED <<disk, spoilt, faults, regime>>

RowRemoved(p) ==
    /\ job[p].pc = "commit" /\ crow' = [crow EXCEPT ![job[p].cid] = "gone"]
    /\ frow' = [f \in FileId |-> IF f \in job[p].txFiles THEN "gone" ELSE frow[f]]
    /\ EndPurge(p) /\ UNCHANGED <<chash, fcid, disk, spoilt, faults, regime>>

(* Every step leaves the content rows alone, or is one of these two.       *)
LEMMA RowsStep ==
    ASSUME [Next]_vars
    PROVE  UNCHANGED <<crow, chash>> \/ \E p \in Proc : RowInserted(p) \/ RowRemoved(p)
<1>1. ASSUME NEW p \in Proc, InsertFile(p) PROVE UNCHANGED <<crow, chash>> \/ RowInserted(p)
  BY <1>1 DEF InsertFile, RowInserted, ConflictingRows, FreshContent
<1>2. ASSUME NEW p \in Proc, Commit(p) PROVE UNCHANGED <<crow, chash>> \/ RowRemoved(p)
  BY <1>2 DEF Commit, RowRemoved
<1>3. ASSUME NEW p \in Proc, UploadStep(p), ~InsertFile(p) PROVE UNCHANGED <<crow, chash>>
  BY <1>3 DEF UploadStep, FindCached, FindContent, PutExists, PutOpen, PutWrite, InsertLink,
              EnsureContent, EnsureRaced, InsertNameTaken, CacheFill, dbVars
<1>4. ASSUME NEW p \in Proc, PurgeStep(p), ~Commit(p) PROVE UNCHANGED <<crow, chash>>
  BY <1>4 DEF PurgeStep, ActiveRefcount, DelShares, DelFiles, DelContent, InUse, Unlink, dbVars
<1>5. ASSUME NEW p \in Proc, Step(p), ~UploadStep(p), ~PurgeStep(p) PROVE UNCHANGED <<crow, chash>>
  BY <1>5 DEF Step, SoftDelete, RevokeByFile, TryCollect, ListOrphans, NextOrphan, ShareInsert,
              SaveFind, dbVars
<1>6. ASSUME NEW p \in Proc, Request(p) \/ Tick(p) PROVE UNCHANGED <<crow, chash>>
  BY <1>6 DEF Request, UploadStart, DeleteStart, ShareStart, ShareRevoke, SaveStart, Tick, dbVars
<1>7. CASE Crash \/ UNCHANGED vars
  BY <1>7 DEF Crash, vars, dbVars
<1> QED
  BY <1>1, <1>2, <1>3, <1>4, <1>5, <1>6, <1>7 DEF Next

(* A live file is deleted only by becoming a tombstone first.              *)
LEMMA LiveStep ==
    ASSUME TypeInv, LockInv, [Next]_vars, NEW f \in FileId, frow[f] = "live"
    PROVE  frow'[f] \in {"live", "tomb"}
<1>1. ASSUME NEW g \in FileId, NEW k, NewFile(g, k) PROVE frow'[f] = "live"
  BY <1>1 DEF NewFile, FreshFile, TypeInv, TypeOK
<1>2. ASSUME NEW p \in Proc, UploadStep(p) PROVE frow'[f] = "live"
  <2>1. \/ UNCHANGED frow
        \/ \E g \in FileId : \E k \in ContentId \cup {job[p].cid} : NewFile(g, k)
    BY <1>2 DEF UploadStep, FindCached, FindContent, PutExists, PutOpen, PutWrite, InsertLink,
              EnsureContent, EnsureRaced, InsertFile, InsertNameTaken, CacheFill, dbVars
  <2> QED
    BY <1>1, <2>1
<1>3. ASSUME NEW p \in Proc, PurgeStep(p) PROVE frow'[f] = "live"
  <2>1. CASE Commit(p)
    <3>1. f \notin job[p].txFiles
      BY DEF LockInv, JobLocks
    <3> QED
      BY <2>1, <3>1 DEF Commit
  <2>2. CASE ~Commit(p)
    BY <1>3, <2>2 DEF PurgeStep, ActiveRefcount, DelShares, DelFiles, DelContent, InUse, Unlink, dbVars
  <2> QED
    BY <2>1, <2>2
<1>4. ASSUME NEW p \in Proc, SoftDelete(p) PROVE frow'[f] \in {"live", "tomb"}
  BY <1>4 DEF SoftDelete, TypeInv, TypeOK
<1>5. ASSUME NEW p \in Proc, Step(p), ~UploadStep(p), ~PurgeStep(p), ~SoftDelete(p) PROVE frow'[f] = "live"
  BY <1>5 DEF Step, RevokeByFile, TryCollect, ListOrphans, NextOrphan, ShareInsert,
              SaveFind, dbVars
<1>6. ASSUME NEW p \in Proc, Request(p) \/ Tick(p) PROVE frow'[f] = "live"
  BY <1>6 DEF Request, UploadStart, DeleteStart, ShareStart, ShareRevoke, SaveStart, Tick, dbVars
<1>7. CASE Crash \/ UNCHANGED vars
  BY <1>7 DEF Crash, vars, dbVars
<1> QED
  BY <1>2, <1>3, <1>4, <1>5, <1>6, <1>7 DEF Next

(* OnlyOrphansPurged: the commit of a purge removes a content row with all *)
(* its files, and all of them are tombstones.                              *)
THEOREM OnlyOrphansPurged == Spec => PurgeOnlyOrphans
<1>1. Init => TypeInv /\ LockInv
  BY TypeInit, LocksInit
<1>2. TypeInv /\ LockInv /\ [Next]_vars => TypeInv' /\ LockInv'
  BY TypeNext, LocksNext
<1>3. TypeInv /\ LockInv /\ [Next]_vars =>
      [/\ \A k \in ContentId : (crow[k] = "row" /\ crow'[k] # "row") =>
             \A f \in FileId : fcid[f] = k /\ HasFile(f) => frow[f] = "tomb" /\ frow'[f] = "gone"
       /\ \A f \in FileId : frow[f] = "live" => frow'[f] \in {"live", "tomb"}]_vars
  <2> SUFFICES ASSUME TypeInv, LockInv, [Next]_vars
               PROVE  /\ \A k \in ContentId : (crow[k] = "row" /\ crow'[k] # "row") =>
                            \A f \in FileId : fcid[f] = k /\ HasFile(f) => frow[f] = "tomb" /\ frow'[f] = "gone"
                      /\ \A f \in FileId : frow[f] = "live" => frow'[f] \in {"live", "tomb"}
    OBVIOUS
  <2>1. ASSUME NEW k \in ContentId, crow[k] = "row", crow'[k] # "row", NEW f \in FileId, fcid[f] = k, HasFile(f)
        PROVE  frow[f] = "tomb" /\ frow'[f] = "gone"
    <3>1. PICK p \in Proc : RowRemoved(p)
      BY <2>1, RowsStep DEF RowInserted, TypeInv, TypeOK
    <3>2. job[p].cid = k
      BY <2>1, <3>1 DEF RowRemoved, TypeInv, TypeOK
    <3>3. job[p].txContent
      BY <3>1 DEF LockInv, JobLocks, LockPc, RowRemoved
    <3>4. f \in job[p].txFiles
      BY <2>1, <3>2, <3>3 DEF LockInv, JobLocks
    <3> QED
      BY <3>1, <3>4 DEF LockInv, JobLocks, RowRemoved
  <2> QED
    BY <2>1, LiveStep
<1> QED
  BY <1>1, <1>2, <1>3, PTL DEF Spec, PurgeOnlyOrphans

-------------------------------------------------------------------------------
(* The chunks on disk.  A chunk is present if its file exists or if it has *)
(* been written off in spoilt; a file that exists is whole, is being       *)
(* written or has been written off.                                        *)

Present(d, s, c) == d[c] # "absent" \/ c \in s
LaidDown(h, d, s) == \A c \in ChunkSet(h) : Present(d, s, c)

WritesTo(j, c) == j.pc = "write" /\ j.linked /\ CurrentChunk(j) = c
PartialWritten == \A c \in Chunk : disk[c] = "partial" => c \in spoilt \/ \E q \in Proc : WritesTo(job[q], c)

(* What put_chunked has laid down so far of the content it uploads.        *)
LaidSoFar(j, d, s) == \A i \in DOMAIN ChunksOf[j.hash] : i < j.idx => Present(d, s, ChunksOf[j.hash][i])

JobDisk(j, d, s) ==
    /\ j.pc \in {"put", "open", "write"} => LaidSoFar(j, d, s)
    /\ j.pc = "write" => IF j.linked THEN d[CurrentChunk(j)] # "absent" ELSE CurrentChunk(j) \in s
    /\ j.pc = "ensure" \/ (j.pc = "insert" /\ j.cid = None) => LaidDown(j.hash, d, s)

(* A purge works with the chunk list of the row it purges, and unlinks     *)
(* only what no row needs that chunk_hash_in_use has looked at.            *)
PurgeOf(j) ==
    /\ j.pc \in PurgePc => j.cid \in ContentId /\ crow[j.cid] # "free" /\ j.hash = chash[j.cid]
    /\ j.pc = "unlink" => \A r \in j.seen \ {j.cid} :
           r \in ContentId /\ crow[r] # "free" /\ ChunksOf[j.hash][j.idx] \notin ChunkSet(chash[r])

(* A content row has all its chunks, unless a purge has deleted it and not *)
(* committed yet.                                                          *)
BeingPurged(k) == \E p \in Proc : job[p].txContent /\ job[p].cid = k
RowsLaid == \A k \in ContentRows : BeingPurged(k) \/ LaidDown(chash[k], disk, spoilt)

DiskInv ==
    /\ PartialWritten
    /\ \A p \in Proc : JobDisk(job[p], disk, spoilt) /\ PurgeOf(job[p])
    /\ RowsLaid

(* A chunk list is a sequence, and its chunks are those of ChunkSet.       *)
LEMMA ChunkAt ==
    ASSUME NEW h \in Hash
    PROVE  /\ DOMAIN ChunksOf[h] = 1..Len(ChunksOf[h]) /\ Len(ChunksOf[h]) \in Nat
           /\ \A i \in DOMAIN ChunksOf[h] : ChunksOf[h][i] \in ChunkSet(h) /\ ChunksOf[h][i] \in Chunk
           /\ \A c \in ChunkSet(h) : \E i \in DOMAIN ChunksOf[h] : c = ChunksOf[h][i]
BY ContentStoreAssumption DEF ChunkSet

(* A job whose chunks stay present on disk stays good.                     *)
LEMMA JobDiskGrows ==
    ASSUME NEW j, GoodJob(j), NEW d, NEW s, NEW e, NEW t, JobDisk(j, d, s),
           \A c \in Chunk : d[c] # "absent" => e[c] # "absent", s \subseteq t
    PROVE  JobDisk(j, e, t)
<1>1. j.pc \in {"put", "open", "write", "ensure", "insert"} => j.hash \in Hash
  BY DEF GoodJob, JobOK, UploadPc
<1>2. \A c \in Chunk : Present(d, s, c) => Present(e, t, c)
  BY DEF Present
<1>3. j.pc \in {"put", "open", "write"} => LaidSoFar(j, e, t)
  BY <1>1, <1>2, ChunkAt DEF JobDisk, LaidSoFar
<1>4. j.pc = "write" => CurrentChunk(j) \in Chunk
  BY CurrentChunkType DEF GoodJob
<1>5. j.pc \in {"ensure", "insert"} /\ LaidDown(j.hash, d, s) => LaidDown(j.hash, e, t)
  BY <1>1, <1>2, ChunkSetType DEF LaidDown
<1>6. j.pc = "write" => IF j.linked THEN e[CurrentChunk(j)] # "absent" ELSE CurrentChunk(j) \in t
  BY <1>4 DEF JobDisk
<1> QED
  BY <1>3, <1>5, <1>6 DEF JobDisk

(* One thread moves on and no chunk file disappears.                       *)
LEMMA KeepDisk ==
    ASSUME TypeInv, LockInv, DiskInv, NEW p \in Proc, NEW j, Become(p, j), UNCHANGED <<crow, chash>>,
           spoilt \subseteq spoilt',
           \A c \in Chunk : disk[c] # "absent" => disk'[c] # "absent",
           \A c \in Chunk : disk'[c] = "partial" =>
               c \in spoilt' \/ WritesTo(j, c) \/ (disk[c] = "partial" /\ ~WritesTo(job[p], c)),
           JobDisk(j, disk', spoilt'), PurgeOf(j),
           job[p].txContent => \/ j.txContent /\ j.cid = job[p].cid
                               \/ LaidDown(chash[job[p].cid], disk', spoilt')
    PROVE  DiskInv'
<1>1. \A q \in Proc : job'[q] = IF q = p THEN j ELSE job[q]
  BY DEF Become, TypeInv, TypeOK
<1>2. PartialWritten'
  <2> SUFFICES ASSUME NEW c \in Chunk, disk'[c] = "partial", c \notin spoilt'
               PROVE  \E q \in Proc : WritesTo(job'[q], c)
    BY DEF PartialWritten, WritesTo, CurrentChunk
  <2>1. CASE WritesTo(j, c)
    BY <1>1, <2>1
  <2>2. CASE disk[c] = "partial" /\ ~WritesTo(job[p], c)
    <3>1. PICK q \in Proc : WritesTo(job[q], c)
      BY <2>2 DEF DiskInv, PartialWritten
    <3> QED BY <1>1, <2>2, <3>1
  <2> QED BY <2>1, <2>2
<1>3. ASSUME NEW q \in Proc PROVE (JobDisk(job[q], disk, spoilt) /\ PurgeOf(job[q]))'
  <2>1. CASE q = p
    BY <1>1, <2>1 DEF PurgeOf
  <2>2. CASE q # p
    <3>1. GoodJob(job[q]) /\ JobDisk(job[q], disk, spoilt) /\ PurgeOf(job[q]) /\ job'[q] = job[q]
      BY <1>1, <2>2 DEF TypeInv, DiskInv
    <3>2. JobDisk(job[q], disk', spoilt')
      BY <3>1, JobDiskGrows
    <3> QED BY <3>1, <3>2 DEF PurgeOf
  <2> QED BY <2>1, <2>2
<1>4. RowsLaid'
  <2> SUFFICES ASSUME NEW k \in ContentRows, ~BeingPurged(k)' PROVE LaidDown(chash[k], disk', spoilt')
    BY DEF RowsLaid, ContentRows, LaidDown, ChunkSet, Present
  <2>1. k \in ContentId /\ chash[k] \in Hash
    BY DEF ContentRows, TypeInv, RowsHashed
  <2>2. CASE LaidDown(chash[k], disk, spoilt)
    BY <2>1, <2>2, ChunkSetType DEF LaidDown, Present
  <2>3. CASE BeingPurged(k)
    <3>1. PICK q \in Proc : job[q].txContent /\ job[q].cid = k
      BY <2>3 DEF BeingPurged
    <3>2. ~(job'[q].txContent /\ job'[q].cid = k)
      BY DEF BeingPurged
    <3> QED BY <1>1, <3>1, <3>2
  <2> QED BY <2>2, <2>3 DEF DiskInv, RowsLaid
<1> QED
  BY <1>2, <1>3, <1>4 DEF DiskInv, JobDisk, LaidSoFar, LaidDown, Present, CurrentChunk, ChunkSet, PurgeOf

(* The same when the disk does not change and the thread neither writes    *)
(* nor holds a content row.                                                *)
LEMMA QuietDisk ==
    ASSUME TypeInv, LockInv, DiskInv, NEW p \in Proc, NEW j, Become(p, j),
           UNCHANGED <<crow, chash, disk, spoilt>>, job[p].pc \notin LockPc \cup {"write"},
           JobDisk(j, disk, spoilt), PurgeOf(j)
    PROVE  DiskInv'
<1>1. ~job[p].txContent /\ \A c : ~WritesTo(job[p], c)
  BY DEF LockInv, JobLocks, LockPc, WritesTo
<1>2. JobDisk(j, disk', spoilt')
  OBVIOUS
<1> QED
  BY <1>1, <1>2, KeepDisk

(* A thread that is neither uploading chunks nor purging relies on nothing *)
(* on disk.                                                                *)
LEMMA RestDisk ==
    ASSUME NEW j, j.pc \notin {"put", "open", "write", "ensure", "insert"} \cup PurgePc
    PROVE  PurgeOf(j) /\ \A d, s : JobDisk(j, d, s)
BY DEF PurgeOf, JobDisk, PurgePc

(* Between two requests, or two orphans, in particular.                    *)
LEMMA IdleDisk ==
    ASSUME NEW p, NEW j, j = IdleJob \/ j = [IdleJob EXCEPT !.pc = "next", !.queue = job[p].queue]
    PROVE  PurgeOf(j) /\ \A d, s : JobDisk(j, d, s)
<1>1. CASE j = IdleJob
  BY <1>1, RestDisk DEF IdleJob, PurgePc
<1>2. CASE j = [IdleJob EXCEPT !.pc = "next", !.queue = job[p].queue]
  BY <1>2, RestDisk DEF IdleJob, PurgePc
<1> QED BY <1>1, <1>2

(* put_chunked goes on to the next chunk once the current one is there.    *)
LEMMA NextPutDisk ==
    ASSUME NEW j, GoodJob(j), j.pc \in {"put", "write"}, NEW d, NEW s,
           LaidSoFar(j, d, s), Present(d, s, CurrentChunk(j)),
           NEW n, n = (IF j.idx < Len(ChunksOf[j.hash])
                       THEN [j EXCEPT !.pc = "put", !.idx = @ + 1, !.linked = FALSE]
                       ELSE [j EXCEPT !.pc = "ensure", !.linked = FALSE])
    PROVE  JobDisk(n, d, s) /\ PurgeOf(n)
<1>1. j.hash \in Hash /\ j.idx \in 1..Len(ChunksOf[j.hash]) /\ j \in Job
  BY CurrentChunkType DEF GoodJob
<1>2. DOMAIN ChunksOf[j.hash] = 1..Len(ChunksOf[j.hash]) /\ Len(ChunksOf[j.hash]) \in Nat
  BY <1>1, ChunkAt
<1>3. \A i \in DOMAIN ChunksOf[j.hash] : i <= j.idx => Present(d, s, ChunksOf[j.hash][i])
  <2> SUFFICES ASSUME NEW i \in DOMAIN ChunksOf[j.hash], i <= j.idx PROVE Present(d, s, ChunksOf[j.hash][i])
    OBVIOUS
  <2>1. i < j.idx \/ i = j.idx
    BY <1>1, <1>2
  <2> QED BY <2>1 DEF LaidSoFar, CurrentChunk
<1>4. CASE j.idx < Len(ChunksOf[j.hash])
  <2>1. n.pc = "put" /\ n.hash = j.hash /\ n.idx = j.idx + 1
    BY <1>1, <1>4 DEF Job
  <2>2. \A i \in DOMAIN ChunksOf[j.hash] : i < j.idx + 1 => i <= j.idx
    BY <1>1, <1>2
  <2>3. LaidSoFar(n, d, s)
    BY <1>3, <2>1, <2>2 DEF LaidSoFar
  <2> QED BY <2>1, <2>3 DEF JobDisk, PurgeOf, PurgePc
<1>5. CASE ~(j.idx < Len(ChunksOf[j.hash]))
  <2>1. n.pc = "ensure" /\ n.hash = j.hash
    BY <1>1, <1>5 DEF Job
  <2>2. \A i \in DOMAIN ChunksOf[j.hash] : i <= j.idx
    BY <1>1, <1>2, <1>5
  <2>3. LaidDown(j.hash, d, s)
    BY <1>1, <1>3, <2>2, ChunkAt DEF LaidDown
  <2> QED BY <2>1, <2>3 DEF JobDisk, PurgeOf, PurgePc
<1> QED
  BY <1>4, <1>5

(* A purge that does not commit, and a writer that is cut off, write their *)
(* chunks off.                                                             *)
LEMMA InterruptedDisk ==
    ASSUME LockInv, DiskInv, NEW p \in Proc
    PROVE  /\ \A c : WritesTo(job[p], c) => c \in Interrupted(p)
           /\ job[p].txContent => \A c \in ChunkSet(chash[job[p].cid]) : disk[c] = "whole" \/ c \in Interrupted(p)
<1>1. job[p].txContent => job[p].pc \in LockPc /\ job[p].hash = chash[job[p].cid]
  BY DEF LockInv, JobLocks, LockPc, DiskInv, PurgeOf, PurgePc
<1> QED
  BY <1>1 DEF Interrupted, WritesTo, LockPc

(* The process dies. *)
LEMMA DieDisk ==
    ASSUME TypeInv, LockInv, DiskInv, Die, UNCHANGED <<crow, chash, disk>>
    PROVE  DiskInv'
<1>1. \A q \in Proc : job'[q] = IdleJob
  BY DEF Die
<1>2. spoilt \subseteq spoilt' /\ \A q \in Proc : Interrupted(q) \subseteq spoilt'
  BY DEF Die
<1>3. PartialWritten'
  <2> SUFFICES ASSUME NEW c \in Chunk, disk[c] = "partial" PROVE c \in spoilt'
    BY DEF PartialWritten
  <2> QED BY <1>2, InterruptedDisk DEF DiskInv, PartialWritten
<1>4. \A q \in Proc : (JobDisk(job[q], disk, spoilt) /\ PurgeOf(job[q]))'
  <2> TAKE q \in Proc
  <2>1. job'[q].pc = "idle"
    BY <1>1 DEF IdleJob
  <2> QED BY <2>1 DEF JobDisk, PurgeOf, PurgePc
<1>5. RowsLaid'
  <2> SUFFICES ASSUME NEW k \in ContentRows PROVE LaidDown(chash[k], disk, spoilt')
    BY DEF RowsLaid, ContentRows, LaidDown, ChunkSet, Present
  <2>1. CASE LaidDown(chash[k], disk, spoilt)
    BY <1>2, <2>1 DEF LaidDown, Present
  <2>2. CASE BeingPurged(k)
    <3>1. \A c \in ChunkSet(chash[k]) : disk[c] = "whole" \/ c \in spoilt'
      BY <1>2, <2>2, InterruptedDisk DEF BeingPurged
    <3> QED BY <3>1 DEF LaidDown, Present
  <2> QED BY <2>1, <2>2 DEF DiskInv, RowsLaid
<1> QED
  BY <1>3, <1>4, <1>5 DEF DiskInv

(* A purge throws. *)
LEMMA ThrowDisk ==
    ASSUME TypeInv, LockInv, DiskInv, NEW p \in Proc, ThrowPurge(p), UNCHANGED <<crow, chash, disk>>
    PROVE  DiskInv'
<1>1. CASE p \in Timer
  BY <1>1, DieDisk DEF ThrowPurge
<1>2. CASE p \notin Timer
  <2>1. spoilt' = spoilt \cup Interrupted(p) /\ Become(p, IdleJob)
    BY <1>2 DEF ThrowPurge, Finish
  <2>2. \A c \in Chunk : disk'[c] = "partial" => c \in spoilt' \/ (disk[c] = "partial" /\ ~WritesTo(job[p], c))
    BY <2>1, InterruptedDisk
  <2>3. job[p].txContent => LaidDown(chash[job[p].cid], disk', spoilt')
    BY <2>1, InterruptedDisk DEF LaidDown, Present
  <2>4. PurgeOf(IdleJob) /\ JobDisk(IdleJob, disk', spoilt')
    BY IdleDisk
  <2> QED BY <2>1, <2>2, <2>3, <2>4, KeepDisk
<1> QED BY <1>1, <1>2

(* A content row is inserted when all its chunks are there.                *)
LEMMA InsertedDisk ==
    ASSUME TypeInv, LockInv, DiskInv, NEW p \in Proc, RowInserted(p)
    PROVE  DiskInv'
<1>1. PICK k \in ContentId : /\ crow[k] = "free"
                             /\ crow' = [crow EXCEPT ![k] = "row"]
                             /\ chash' = [chash EXCEPT ![k] = job[p].hash]
  BY DEF RowInserted
<1>2. /\ \A r \in ContentId : crow'[r] = IF r = k THEN "row" ELSE crow[r]
      /\ \A r \in ContentId : chash'[r] = IF r = k THEN job[p].hash ELSE chash[r]
  BY <1>1 DEF TypeInv, TypeOK
<1>3. PICK j : j = [job[p] EXCEPT !.pc = "fill"]
  OBVIOUS
<1>4. /\ \A q \in Proc : job'[q] = IF q = p THEN j ELSE job[q]
      /\ j.pc = "fill" /\ j.txContent = job[p].txContent /\ j.cid = job[p].cid
  <2>1. job[p] \in Job
    BY DEF TypeInv, TypeOK
  <2> QED BY <1>3, <2>1 DEF RowInserted, Goto, Become, TypeInv, TypeOK, Job
<1>5. job[p].pc = "insert" /\ job[p].cid = None /\ UNCHANGED <<disk, spoilt>>
  BY DEF RowInserted
<1>6. PartialWritten'
  <2> SUFFICES ASSUME NEW c \in Chunk, disk[c] = "partial", c \notin spoilt
               PROVE  \E q \in Proc : WritesTo(job'[q], c)
    BY <1>5 DEF PartialWritten, WritesTo, CurrentChunk
  <2>1. PICK q \in Proc : WritesTo(job[q], c)
    BY DEF DiskInv, PartialWritten
  <2>2. q # p
    BY <1>5, <2>1 DEF WritesTo
  <2> QED BY <1>4, <2>1, <2>2
<1>7. ASSUME NEW q \in Proc PROVE (JobDisk(job[q], disk, spoilt) /\ PurgeOf(job[q]))'
  <2>1. CASE q = p
    BY <1>4, <2>1 DEF JobDisk, PurgeOf, PurgePc
  <2>2. CASE q # p
    <3>1. JobDisk(job[q], disk, spoilt) /\ PurgeOf(job[q]) /\ job'[q] = job[q]
      BY <1>4, <2>2 DEF DiskInv
    <3>2. JobDisk(job[q], disk, spoilt)'
      BY <1>5, <3>1
    <3>3. PurgeOf(job[q])'
      BY <1>1, <1>2, <3>1 DEF PurgeOf
    <3> QED BY <3>2, <3>3
  <2> QED BY <2>1, <2>2
<1>8. RowsLaid'
  <2> SUFFICES ASSUME NEW r \in ContentId, crow'[r] = "row", ~BeingPurged(r)'
               PROVE  LaidDown(chash'[r], disk, spoilt)
    BY <1>5 DEF RowsLaid, ContentRows, LaidDown, ChunkSet, Present
  <2>1. CASE r = k
    BY <1>2, <1>5, <2>1 DEF DiskInv, JobDisk
  <2>2. CASE r # k
    <3>1. ~BeingPurged(r)
      BY <1>4 DEF BeingPurged
    <3>2. r \in ContentRows /\ chash'[r] = chash[r]
      BY <1>2, <2>2 DEF ContentRows
    <3> QED BY <3>1, <3>2 DEF DiskInv, RowsLaid
  <2> QED BY <2>1, <2>2
<1> QED
  BY <1>6, <1>7, <1>8 DEF DiskInv

(* A purge commits. *)
LEMMA RemovedDisk ==
    ASSUME TypeInv, LockInv, DiskInv, NEW p \in Proc, RowRemoved(p)
    PROVE  DiskInv'
<1>1. \A r \in ContentId : crow'[r] = IF r = job[p].cid THEN "gone" ELSE crow[r]
  BY DEF RowRemoved, TypeInv, TypeOK
<1>2. PICK j : Become(p, j) /\ PurgeOf(j) /\ (\A d, s : JobDisk(j, d, s)) /\ j.pc \notin PurgePc
  <2>1. \A ks : [IdleJob EXCEPT !.pc = "next", !.queue = ks].pc \notin PurgePc
    BY DEF IdleJob, PurgePc
  <2>2. IdleJob.pc \notin PurgePc
    BY DEF IdleJob, PurgePc
  <2> QED BY <2>1, <2>2, IdleDisk DEF RowRemoved, EndPurge
<1>3. \A q \in Proc : job'[q] = IF q = p THEN j ELSE job[q]
  BY <1>2 DEF Become, TypeInv, TypeOK
<1>4. job[p].pc = "commit" /\ UNCHANGED <<chash, disk, spoilt>>
  BY DEF RowRemoved
<1>5. PartialWritten'
  <2> SUFFICES ASSUME NEW c \in Chunk, disk[c] = "partial", c \notin spoilt
               PROVE  \E q \in Proc : WritesTo(job'[q], c)
    BY <1>4 DEF PartialWritten, WritesTo, CurrentChunk
  <2>1. PICK q \in Proc : WritesTo(job[q], c)
    BY DEF DiskInv, PartialWritten
  <2>2. q # p
    BY <1>4, <2>1 DEF WritesTo
  <2> QED BY <1>3, <2>1, <2>2
<1>6. ASSUME NEW q \in Proc PROVE (JobDisk(job[q], disk, spoilt) /\ PurgeOf(job[q]))'
  <2>1. CASE q = p
    <3>1. job'[q] = j
      BY <1>3, <2>1
    <3>2. j.pc # "unlink"
      BY <1>2 DEF PurgePc
    <3> QED BY <1>2, <1>4, <3>1, <3>2 DEF PurgeOf
  <2>2. CASE q # p
    <3>1. JobDisk(job[q], disk, spoilt) /\ PurgeOf(job[q]) /\ job'[q] = job[q]
      BY <1>3, <2>2 DEF DiskInv
    <3>2. JobDisk(job[q], disk, spoilt)'
      BY <1>4, <3>1
    <3>3. PurgeOf(job[q])'
      BY <1>1, <1>4, <3>1 DEF PurgeOf
    <3> QED BY <3>2, <3>3
  <2> QED BY <2>1, <2>2
<1>7. RowsLaid'
  <2> SUFFICES ASSUME NEW r \in ContentId, crow'[r] = "row", ~BeingPurged(r)'
               PROVE  LaidDown(chash[r], disk, spoilt)
    BY <1>4 DEF RowsLaid, ContentRows, LaidDown, ChunkSet, Present
  <2>1. r # job[p].cid /\ r \in ContentRows
    BY <1>1 DEF ContentRows
  <2>2. ~BeingPurged(r)
    BY <1>3, <2>1 DEF BeingPurged
  <2> QED BY <2>1, <2>2 DEF DiskInv, RowsLaid
<1> QED
  BY <1>5, <1>6, <1>7 DEF DiskInv

(* The chunk loop of a purge keeps to its row.                             *)
LEMMA AfterChunkKeeps ==
    ASSUME NEW j \in Job
    PROVE  /\ AfterChunk(j).pc \in {"in_use", "commit"} /\ AfterChunk(j).hash = j.hash
           /\ AfterChunk(j).cid = j.cid /\ AfterChunk(j).txContent = j.txContent
<1>1. CASE j.idx < Len(ChunksOf[j.hash])
  <2>1. AfterChunk(j) = [j EXCEPT !.pc = "in_use", !.idx = j.idx + 1, !.seen = {}]
    BY <1>1 DEF AfterChunk
  <2> QED BY <2>1 DEF Job
<1>2. CASE ~(j.idx < Len(ChunksOf[j.hash]))
  <2>1. AfterChunk(j) = [j EXCEPT !.pc = "commit", !.seen = {}]
    BY <1>2 DEF AfterChunk
  <2> QED BY <2>1 DEF Job
<1> QED BY <1>1, <1>2

(* A thread whose open file is unlinked only loses the link.               *)
LEMMA UnlinkedKeeps ==
    ASSUME NEW j \in Job, NEW c
    PROVE  /\ Unlinked(c, j).pc = j.pc /\ Unlinked(c, j).hash = j.hash /\ Unlinked(c, j).idx = j.idx
           /\ Unlinked(c, j).cid = j.cid /\ Unlinked(c, j).txContent = j.txContent
           /\ j.pc = "write" /\ CurrentChunk(j) = c => Unlinked(c, j).linked = FALSE
           /\ ~(j.pc = "write" /\ CurrentChunk(j) = c) => Unlinked(c, j) = j
<1>1. CASE j.pc = "write" /\ CurrentChunk(j) = c
  <2>1. Unlinked(c, j) = [j EXCEPT !.linked = FALSE]
    BY <1>1 DEF Unlinked
  <2> QED BY <1>1, <2>1 DEF Job
<1>2. CASE ~(j.pc = "write" /\ CurrentChunk(j) = c)
  BY <1>2 DEF Unlinked
<1> QED BY <1>1, <1>2

(* A purge unlinks a chunk: whoever needs it finds it written off.         *)
LEMMA UnlinkDisk ==
    ASSUME TypeInv, LockInv, DiskInv, NEW p \in Proc, job[p].pc = "unlink", NEW c, c = CurrentChunk(job[p]),
           disk' = [disk EXCEPT ![c] = "absent"],
           spoilt' = IF Needed(c, p) THEN spoilt \cup {c} ELSE spoilt,
           job' = [q \in Proc |-> IF q = p THEN AfterChunk(job[p]) ELSE Unlinked(c, job[q])],
           UNCHANGED <<crow, chash>>
    PROVE  DiskInv'
<1>0. \A q \in Proc : job[q] \in Job /\ GoodJob(job[q])
  BY DEF TypeInv, TypeOK
<1>1. c \in Chunk
  BY <1>0, CurrentChunkType DEF GoodJob
<1>2. \A x \in Chunk : disk'[x] = IF x = c THEN "absent" ELSE disk[x]
  BY <1>1 DEF TypeInv, TypeOK
<1>3. spoilt \subseteq spoilt' /\ (Needed(c, p) => c \in spoilt')
  OBVIOUS
<1>4. /\ job'[p] = AfterChunk(job[p])
      /\ \A q \in Proc : q # p => job'[q] = Unlinked(c, job[q])
  OBVIOUS
<1>5. \A q \in Proc : job'[q].cid = job[q].cid /\ job'[q].txContent = job[q].txContent
  <2> TAKE q \in Proc
  <2>1. CASE q = p
    BY <1>0, <1>4, <2>1, AfterChunkKeeps
  <2>2. CASE q # p
    <3>1. Unlinked(c, job[q]).cid = job[q].cid /\ Unlinked(c, job[q]).txContent = job[q].txContent
      BY <1>0, UnlinkedKeeps
    <3> QED BY <1>4, <2>2, <3>1
  <2> QED BY <2>1, <2>2
<1>6. PartialWritten'
  <2> SUFFICES ASSUME NEW x \in Chunk, disk'[x] = "partial", x \notin spoilt'
               PROVE  \E q \in Proc : WritesTo(job'[q], x)
    BY DEF PartialWritten, WritesTo, CurrentChunk
  <2>1. x # c /\ disk[x] = "partial" /\ x \notin spoilt
    BY <1>2, <1>3
  <2>2. PICK q \in Proc : WritesTo(job[q], x)
    BY <2>1 DEF DiskInv, PartialWritten
  <2>3. q # p /\ CurrentChunk(job[q]) # c
    BY <2>1, <2>2 DEF WritesTo
  <2>4. Unlinked(c, job[q]) = job[q]
    BY <1>0, <2>3, UnlinkedKeeps
  <2> QED BY <1>4, <2>2, <2>3, <2>4
<1>7. ASSUME NEW q \in Proc PROVE (JobDisk(job[q], disk, spoilt) /\ PurgeOf(job[q]))'
  <2>1. CASE q = p
    <3>1. /\ job'[p].pc \in {"in_use", "commit"} /\ job'[p].hash = job[p].hash
          /\ job'[p].cid = job[p].cid
      BY <1>0, <1>4, AfterChunkKeeps
    <3>2. PurgeOf(job[p])
      BY DEF DiskInv
    <3> QED BY <2>1, <3>1, <3>2 DEF JobDisk, PurgeOf, PurgePc
  <2>2. CASE q # p
    <3>1. PICK j : j = job'[q]
      OBVIOUS
    <3>2. j = Unlinked(c, job[q]) /\ job[q] \in Job /\ GoodJob(job[q])
      BY <1>0, <1>4, <2>2, <3>1
    <3>3. /\ j.pc = job[q].pc /\ j.hash = job[q].hash /\ j.idx = job[q].idx /\ j.cid = job[q].cid
          /\ job[q].pc = "write" /\ CurrentChunk(job[q]) = c => j.linked = FALSE
          /\ ~(job[q].pc = "write" /\ CurrentChunk(job[q]) = c) => j = job[q]
      BY <3>2, UnlinkedKeeps, ZenonT(30)
    <3>4. CASE job[q].pc \in {"put", "open", "write", "ensure", "insert"}
      <4>1. job[q].hash \in Hash
        BY <3>2, <3>4 DEF GoodJob, JobOK, UploadPc
      <4>2. Relies(job[q], c) => c \in spoilt'
        BY <1>3, <2>2 DEF Needed
      <4>3. \A x \in Chunk : Present(disk, spoilt, x) /\ (x = c => c \in spoilt') => Present(disk', spoilt', x)
        BY <1>2, <1>3 DEF Present
      <4>4. JobDisk(job[q], disk, spoilt)
        BY DEF DiskInv
      <4>5. j.pc \in {"put", "open", "write"} => LaidSoFar(j, disk', spoilt')
        <5> SUFFICES ASSUME j.pc \in {"put", "open", "write"}, NEW i \in DOMAIN ChunksOf[j.hash], i < j.idx
                     PROVE  Present(disk', spoilt', ChunksOf[j.hash][i])
          BY DEF LaidSoFar
        <5>1. Present(disk, spoilt, ChunksOf[j.hash][i]) /\ ChunksOf[j.hash][i] \in Chunk
          BY <3>3, <4>1, <4>4, ChunkAt DEF JobDisk, LaidSoFar
        <5>2. ChunksOf[j.hash][i] = c => c \in spoilt'
          BY <3>3, <4>2 DEF Relies
        <5> QED BY <4>3, <5>1, <5>2
      <4>6. j.pc = "ensure" \/ (j.pc = "insert" /\ j.cid = None) => LaidDown(j.hash, disk', spoilt')
        BY <3>3, <4>1, <4>2, <4>3, <4>4, ChunkSetType DEF JobDisk, LaidDown, Relies
      <4>7. ASSUME j.pc = "write"
            PROVE  IF j.linked THEN disk'[CurrentChunk(j)] # "absent" ELSE CurrentChunk(j) \in spoilt'
        <5>1. CurrentChunk(j) = CurrentChunk(job[q]) /\ CurrentChunk(j) \in Chunk
          BY <3>2, <3>3, <4>7, CurrentChunkType DEF CurrentChunk, GoodJob
        <5>3. CASE CurrentChunk(j) = c
          BY <3>3, <4>2, <4>7, <5>1, <5>3 DEF Relies
        <5>4. CASE CurrentChunk(j) # c
          <6>1. j = job[q]
            BY <3>3, <5>1, <5>4
          <6>2. IF j.linked THEN disk[CurrentChunk(j)] # "absent" ELSE CurrentChunk(j) \in spoilt
            BY <4>4, <4>7, <6>1 DEF JobDisk
          <6> QED BY <1>2, <1>3, <5>1, <5>4, <6>2
        <5> QED BY <5>3, <5>4
      <4>8. JobDisk(j, disk', spoilt')
        BY <4>5, <4>6, <4>7 DEF JobDisk
      <4> QED BY <3>1, <3>3, <3>4, <4>8 DEF PurgeOf, PurgePc
    <3>5. CASE job[q].pc \notin {"put", "open", "write", "ensure", "insert"}
      <4>1. job'[q] = job[q] /\ PurgeOf(job[q])
        BY <3>1, <3>3, <3>5 DEF DiskInv
      <4> QED BY <3>5, <4>1 DEF JobDisk, PurgeOf
    <3> QED BY <3>4, <3>5
  <2> QED BY <2>1, <2>2
<1>8. RowsLaid'
  <2> SUFFICES ASSUME NEW k \in ContentRows, ~BeingPurged(k)' PROVE LaidDown(chash[k], disk', spoilt')
    BY DEF RowsLaid, ContentRows, LaidDown, ChunkSet, Present
  <2>1. ~BeingPurged(k)
    BY <1>5 DEF BeingPurged
  <2>2. LaidDown(chash[k], disk, spoilt)
    BY <2>1 DEF DiskInv, RowsLaid
  <2>3. k # job[p].cid
    BY <2>1 DEF BeingPurged, LockInv, JobLocks, LockPc
  <2>4. c \in ChunkSet(chash[k]) => c \in spoilt'
    <3>1. k \in job[p].seen => c \notin ChunkSet(chash[k])
      BY <2>3 DEF DiskInv, PurgeOf, CurrentChunk
    <3> QED BY <1>3, <2>3, <3>1 DEF Needed
  <2>5. ChunkSet(chash[k]) \subseteq Chunk
    BY ChunkSetType DEF ContentRows, TypeInv, RowsHashed
  <2> QED BY <1>2, <1>3, <2>2, <2>4, <2>5 DEF LaidDown, Present
<1> QED
  BY <1>6, <1>7, <1>8 DEF DiskInv

(* Steps of an upload. *)
LEMMA UploadDisk ==
    ASSUME TypeInv, LockInv, DiskInv, NEW p \in Proc, UploadStep(p)
    PROVE  DiskInv'
<1>0. /\ job[p] \in Job /\ GoodJob(job[p]) /\ JobDisk(job[p], disk, spoilt)
      /\ disk \in [Chunk -> {"absent", "partial", "whole"}]
  BY DEF TypeInv, TypeOK, DiskInv
<1>1. \A k : /\ PurgeOf([job[p] EXCEPT !.pc = "link", !.cid = k])
             /\ JobDisk([job[p] EXCEPT !.pc = "link", !.cid = k], disk, spoilt)
  <2> TAKE k
  <2>1. [job[p] EXCEPT !.pc = "link", !.cid = k].pc = "link"
    BY <1>0 DEF Job
  <2> QED BY <2>1, RestDisk DEF PurgePc
<1>2. ASSUME FindCached(p) PROVE DiskInv'
  <2>1. [job[p] EXCEPT !.pc = "find"].pc = "find"
    BY <1>0 DEF Job
  <2>2. PICK j : Become(p, j) /\ PurgeOf(j) /\ JobDisk(j, disk, spoilt)
    BY <1>1, <1>2, <2>1, RestDisk DEF FindCached, Goto, PurgePc
  <2> QED BY <1>2, <2>2, QuietDisk DEF FindCached, dbVars, LockPc
<1>3. ASSUME FindContent(p) PROVE DiskInv'
  <2> DEFINE n == [job[p] EXCEPT !.pc = "put", !.idx = 1]
  <2>1. n.pc = "put" /\ n.idx = 1 /\ n.hash = job[p].hash /\ job[p].hash \in Hash
    BY <1>0, <1>3 DEF FindContent, Job, GoodJob, JobOK, UploadPc
  <2>2. DOMAIN ChunksOf[n.hash] = 1..Len(ChunksOf[n.hash]) /\ Len(ChunksOf[n.hash]) \in Nat
    BY <2>1, ChunkAt
  <2>3. \A i \in DOMAIN ChunksOf[n.hash] : ~(i < n.idx)
    BY <2>1, <2>2
  <2>4. PurgeOf(n) /\ JobDisk(n, disk, spoilt)
    BY <2>1, <2>3 DEF PurgeOf, PurgePc, JobDisk, LaidSoFar
  <2> HIDE DEF n
  <2>5. PICK j : Become(p, j) /\ PurgeOf(j) /\ JobDisk(j, disk, spoilt)
    BY <1>1, <1>3, <2>4 DEF FindContent, n
  <2> QED BY <1>3, <2>5, QuietDisk DEF FindContent, dbVars, LockPc
<1>4. ASSUME PutExists(p) PROVE DiskInv'
  <2>1. job[p].pc = "put" /\ LaidSoFar(job[p], disk, spoilt) /\ UNCHANGED <<crow, chash, disk, spoilt>>
    BY <1>0, <1>4 DEF PutExists, JobDisk, dbVars
  <2>2. CASE disk[CurrentChunk(job[p])] = "absent"
    <3> DEFINE n == [job[p] EXCEPT !.pc = "open"]
    <3>1. n.pc = "open" /\ n.idx = job[p].idx /\ n.hash = job[p].hash
      BY <1>0 DEF Job
    <3>2. PurgeOf(n) /\ JobDisk(n, disk, spoilt)
      BY <2>1, <3>1 DEF PurgeOf, PurgePc, JobDisk, LaidSoFar
    <3>3. Become(p, n)
      BY <1>4, <2>2 DEF PutExists, Goto
    <3> HIDE DEF n
    <3> QED BY <2>1, <3>2, <3>3, QuietDisk DEF LockPc
  <2>3. CASE disk[CurrentChunk(job[p])] # "absent"
    <3>1. Present(disk, spoilt, CurrentChunk(job[p]))
      BY <2>3 DEF Present
    <3> DEFINE n == IF job[p].idx < Len(ChunksOf[job[p].hash])
                    THEN [job[p] EXCEPT !.pc = "put", !.idx = @ + 1, !.linked = FALSE]
                    ELSE [job[p] EXCEPT !.pc = "ensure", !.linked = FALSE]
    <3>2. NextPut(p)
      BY <1>4, <2>3 DEF PutExists
    <3>3. Become(p, n)
      BY <3>2 DEF NextPut
    <3>4. JobDisk(n, disk, spoilt) /\ PurgeOf(n)
      BY <1>0, <2>1, <3>1, NextPutDisk
    <3> HIDE DEF n
    <3> QED BY <2>1, <3>3, <3>4, QuietDisk DEF LockPc
  <2> QED BY <2>2, <2>3
<1>5. ASSUME PutOpen(p) PROVE DiskInv'
  <2>0. CASE Finish(p) /\ UNCHANGED disk
    <3>1. Become(p, IdleJob) /\ UNCHANGED <<crow, chash, disk, spoilt>> /\ job[p].pc \notin LockPc \cup {"write"}
      BY <1>5, <2>0 DEF PutOpen, Finish, dbVars, LockPc
    <3>2. PurgeOf(IdleJob) /\ JobDisk(IdleJob, disk, spoilt)
      BY IdleDisk
    <3> QED BY <3>1, <3>2, QuietDisk
  <2>z. SUFFICES ASSUME ~(Finish(p) /\ UNCHANGED disk) PROVE DiskInv'
    BY <2>0
  <2>1. /\ job[p].pc = "open" /\ LaidSoFar(job[p], disk, spoilt) /\ UNCHANGED <<crow, chash, spoilt>>
        /\ CurrentChunk(job[p]) \in Chunk /\ job[p].hash \in Hash /\ ~job[p].txContent
    BY <1>0, <1>5, CurrentChunkType DEF PutOpen, JobDisk, dbVars, GoodJob, LockPc
  <2>2. \A c \in Chunk : disk'[c] = IF c = CurrentChunk(job[p]) THEN "partial" ELSE disk[c]
    BY <1>0, <1>5, <2>z DEF PutOpen
  <2> DEFINE n == [job[p] EXCEPT !.pc = "write", !.linked = TRUE]
  <2>3. n.pc = "write" /\ n.idx = job[p].idx /\ n.hash = job[p].hash /\ n.linked = TRUE /\ Become(p, n)
    BY <1>0, <1>5, <2>z DEF Job, PutOpen
  <2> HIDE DEF n
  <2>4. CurrentChunk(n) = CurrentChunk(job[p])
    BY <2>3 DEF CurrentChunk
  <2>5. LaidSoFar(n, disk', spoilt')
    BY <2>1, <2>2, <2>3, ChunkAt DEF LaidSoFar, Present
  <2>6. PurgeOf(n) /\ JobDisk(n, disk', spoilt')
    BY <2>1, <2>2, <2>3, <2>4, <2>5 DEF PurgeOf, PurgePc, JobDisk
  <2>7. \A c \in Chunk : disk'[c] = "partial" => WritesTo(n, c) \/ (disk[c] = "partial" /\ ~WritesTo(job[p], c))
    BY <2>1, <2>2, <2>3, <2>4 DEF WritesTo
  <2>8. \A c \in Chunk : disk[c] # "absent" => disk'[c] # "absent"
    BY <2>2
  <2> QED BY <2>1, <2>3, <2>6, <2>7, <2>8, KeepDisk
<1>6. ASSUME PutWrite(p) PROVE DiskInv'
  <2>1. /\ job[p].pc = "write" /\ LaidSoFar(job[p], disk, spoilt) /\ UNCHANGED <<crow, chash>>
        /\ CurrentChunk(job[p]) \in Chunk /\ job[p].hash \in Hash /\ ~job[p].txContent
        /\ IF job[p].linked THEN disk[CurrentChunk(job[p])] # "absent" ELSE CurrentChunk(job[p]) \in spoilt
    BY <1>0, <1>6, CurrentChunkType DEF PutWrite, JobDisk, dbVars, GoodJob, LockPc
  <2>2. spoilt \subseteq spoilt'
    BY <1>6 DEF PutWrite
  <2>3. /\ \A c \in Chunk : disk[c] # "absent" => disk'[c] # "absent"
        /\ Present(disk', spoilt', CurrentChunk(job[p]))
        /\ \A c \in Chunk : disk'[c] = "partial" => c \in spoilt' \/ (disk[c] = "partial" /\ ~WritesTo(job[p], c))
    <3>1. CASE spoilt' = spoilt \cup {CurrentChunk(job[p])} /\ UNCHANGED disk
      BY <3>1 DEF Present, WritesTo
    <3>2. CASE job[p].linked /\ spoilt' = spoilt /\ disk' = [disk EXCEPT ![CurrentChunk(job[p])] = "whole"]
      <4>1. \A c \in Chunk : disk'[c] = IF c = CurrentChunk(job[p]) THEN "whole" ELSE disk[c]
        BY <1>0, <3>2
      <4> QED BY <2>1, <4>1 DEF Present, WritesTo
    <3>3. CASE ~job[p].linked /\ spoilt' = spoilt /\ disk' = disk
      BY <2>1, <3>3 DEF Present, WritesTo
    <3> QED BY <1>6, <3>1, <3>2, <3>3 DEF PutWrite
  <2>4. LaidSoFar(job[p], disk', spoilt')
    BY <2>1, <2>2, <2>3, ChunkAt DEF LaidSoFar, Present
  <2> DEFINE n == IF job[p].idx < Len(ChunksOf[job[p].hash])
                  THEN [job[p] EXCEPT !.pc = "put", !.idx = @ + 1, !.linked = FALSE]
                  ELSE [job[p] EXCEPT !.pc = "ensure", !.linked = FALSE]
  <2>5. Become(p, n)
    BY <1>6 DEF PutWrite, NextPut
  <2>6. JobDisk(n, disk', spoilt') /\ PurgeOf(n)
    BY <1>0, <2>1, <2>3, <2>4, NextPutDisk
  <2> HIDE DEF n
  <2> QED BY <2>1, <2>2, <2>3, <2>5, <2>6, KeepDisk
<1>7. ASSUME InsertLink(p) \/ InsertNameTaken(p) \/ CacheFill(p) PROVE DiskInv'
  <2>1. Become(p, IdleJob) /\ UNCHANGED <<crow, chash, disk, spoilt>> /\ job[p].pc \notin LockPc \cup {"write"}
    BY <1>7 DEF InsertLink, InsertNameTaken, CacheFill, Finish, dbVars, LockPc
  <2>2. PurgeOf(IdleJob) /\ JobDisk(IdleJob, disk, spoilt)
    BY IdleDisk
  <2> QED BY <2>1, <2>2, QuietDisk
<1>8. \A k \in ContentId : /\ PurgeOf([job[p] EXCEPT !.pc = "insert", !.cid = k])
                            /\ JobDisk([job[p] EXCEPT !.pc = "insert", !.cid = k], disk, spoilt)
  <2> TAKE k \in ContentId
  <2>1. PICK j : j = [job[p] EXCEPT !.pc = "insert", !.cid = k]
    OBVIOUS
  <2>2. j.pc = "insert" /\ j.cid = k /\ k # None
    BY <1>0, <2>1, ContentStoreAssumption DEF Job
  <2>3. PurgeOf(j) /\ JobDisk(j, disk, spoilt)
    BY <2>2 DEF PurgeOf, JobDisk, PurgePc
  <2> QED BY <2>1, <2>3
<1>9. ASSUME EnsureContent(p) PROVE DiskInv'
  <2> DEFINE n == [job[p] EXCEPT !.pc = "insert"]
  <2>1. n.pc = "insert" /\ n.hash = job[p].hash
    BY <1>0 DEF Job
  <2>2. PurgeOf(n) /\ JobDisk(n, disk, spoilt)
    BY <1>0, <1>9, <2>1 DEF EnsureContent, PurgeOf, JobDisk, PurgePc
  <2> HIDE DEF n
  <2>3. PICK j : Become(p, j) /\ PurgeOf(j) /\ JobDisk(j, disk, spoilt)
    BY <1>8, <1>9, <2>2 DEF EnsureContent, Goto, n, RowsOfHash, ContentRows
  <2> QED BY <1>9, <2>3, QuietDisk DEF EnsureContent, dbVars, LockPc
<1>10. ASSUME EnsureRaced(p) PROVE DiskInv'
  <2>1. PICK k \in ContentId : Become(p, [job[p] EXCEPT !.cid = k])
    BY <1>10 DEF EnsureRaced, ConflictingRows, RowsOfHash, ContentRows
  <2>2. [job[p] EXCEPT !.cid = k] = [job[p] EXCEPT !.pc = "insert", !.cid = k]
    BY <1>0, <1>10 DEF EnsureRaced, Job
  <2> QED BY <1>8, <1>10, <2>1, <2>2, QuietDisk DEF EnsureRaced, dbVars, LockPc
<1>11. ASSUME InsertFile(p) PROVE DiskInv'
  <2>1. [job[p] EXCEPT !.pc = "fill"].pc = "fill"
    BY <1>0 DEF Job
  <2>2. PurgeOf([job[p] EXCEPT !.pc = "fill"]) /\ JobDisk([job[p] EXCEPT !.pc = "fill"], disk, spoilt)
    BY <2>1, RestDisk DEF PurgePc
  <2>3. PurgeOf(IdleJob) /\ JobDisk(IdleJob, disk, spoilt)
    BY IdleDisk
  <2>4. \/ RowInserted(p)
        \/ UNCHANGED <<crow, chash, disk, spoilt>> /\ (Goto(p, "fill") \/ Finish(p))
    BY <1>11 DEF InsertFile, RowInserted, ConflictingRows, FreshContent
  <2>5. CASE UNCHANGED <<crow, chash, disk, spoilt>> /\ (Goto(p, "fill") \/ Finish(p))
    BY <1>11, <2>2, <2>3, <2>5, QuietDisk DEF InsertFile, Goto, Finish, LockPc
  <2> QED BY <2>4, <2>5, InsertedDisk
<1> QED
  BY <1>2, <1>3, <1>4, <1>5, <1>6, <1>7, <1>9, <1>10, <1>11 DEF UploadStep

(* Steps of a purge. *)
LEMMA PurgeDisk ==
    ASSUME TypeInv, LockInv, DiskInv, NEW p \in Proc, PurgeStep(p)
    PROVE  DiskInv'
<1>0. job[p] \in Job /\ GoodJob(job[p]) /\ PurgeOf(job[p])
  BY DEF TypeInv, TypeOK, DiskInv
<1>1. ASSUME NEW j, j.pc \in PurgePc \ {"unlink"}, j.cid = job[p].cid, j.hash = job[p].hash, job[p].pc \in PurgePc
      PROVE  PurgeOf(j) /\ \A d, s : JobDisk(j, d, s)
  BY <1>0, <1>1 DEF PurgeOf, PurgePc, JobDisk
<1>2. ASSUME EndPurge(p), UNCHANGED <<crow, chash, disk, spoilt>>, job[p].pc \notin LockPc \cup {"write"}
      PROVE  DiskInv'
  <2>1. PICK j : Become(p, j) /\ PurgeOf(j) /\ JobDisk(j, disk, spoilt)
    BY <1>2, IdleDisk DEF EndPurge
  <2> QED BY <1>2, <2>1, QuietDisk
<1>3. ASSUME ActiveRefcount(p) PROVE DiskInv'
  <2> DEFINE n == [job[p] EXCEPT !.pc = "del_shares"]
  <2>1. n.pc = "del_shares" /\ n.cid = job[p].cid /\ n.hash = job[p].hash
    BY <1>0 DEF Job
  <2> HIDE DEF n
  <2>2. PurgeOf(n) /\ JobDisk(n, disk, spoilt)
    BY <1>1, <1>3, <2>1 DEF ActiveRefcount, PurgePc
  <2>3. EndPurge(p) \/ Become(p, n)
    BY <1>3 DEF ActiveRefcount, Goto, n
  <2>4. UNCHANGED <<crow, chash, disk, spoilt>> /\ job[p].pc \notin LockPc \cup {"write"}
    BY <1>3 DEF ActiveRefcount, dbVars, LockPc
  <2> QED BY <1>2, <2>2, <2>3, <2>4, QuietDisk
<1>4. ASSUME DelShares(p) PROVE DiskInv'
  <2>1. PICK fs : Become(p, [job[p] EXCEPT !.pc = "del_files", !.txShares = fs])
    BY <1>4 DEF DelShares
  <2> DEFINE n == [job[p] EXCEPT !.pc = "del_files", !.txShares = fs]
  <2>2. n.pc = "del_files" /\ n.cid = job[p].cid /\ n.hash = job[p].hash
    BY <1>0 DEF Job
  <2>3. Become(p, n)
    BY <2>1
  <2> HIDE DEF n
  <2>4. PurgeOf(n) /\ JobDisk(n, disk, spoilt)
    BY <1>1, <1>4, <2>2 DEF DelShares, PurgePc
  <2> QED BY <1>4, <2>3, <2>4, QuietDisk DEF DelShares, dbVars, LockPc
<1>5. ASSUME DelFiles(p) PROVE DiskInv'
  <2> DEFINE n == [job[p] EXCEPT !.pc = "del_content", !.txFiles = Doomed(job[p].cid)]
  <2>1. n.pc = "del_content" /\ n.cid = job[p].cid /\ n.hash = job[p].hash
    BY <1>0 DEF Job
  <2>2. ThrowPurge(p) \/ (Become(p, n) /\ UNCHANGED spoilt)
    BY <1>5 DEF DelFiles
  <2> HIDE DEF n
  <2>3. PurgeOf(n) /\ JobDisk(n, disk, spoilt)
    BY <1>1, <1>5, <2>1 DEF DelFiles, PurgePc
  <2>4. UNCHANGED <<crow, chash, disk>> /\ job[p].pc \notin LockPc \cup {"write"}
    BY <1>5 DEF DelFiles, dbVars, LockPc
  <2> QED BY <2>2, <2>3, <2>4, QuietDisk, ThrowDisk
<1>6. ASSUME DelContent(p) PROVE DiskInv'
  <2> DEFINE n == [job[p] EXCEPT !.pc = "in_use", !.txContent = TRUE, !.idx = 1]
  <2>1. n.pc = "in_use" /\ n.cid = job[p].cid /\ n.hash = job[p].hash
    BY <1>0 DEF Job
  <2>2. ThrowPurge(p) \/ (Become(p, n) /\ UNCHANGED spoilt) \/ (EndPurge(p) /\ UNCHANGED spoilt)
    BY <1>6 DEF DelContent
  <2> HIDE DEF n
  <2>3. PurgeOf(n) /\ JobDisk(n, disk, spoilt)
    BY <1>1, <1>6, <2>1 DEF DelContent, PurgePc
  <2>4. UNCHANGED <<crow, chash, disk>> /\ job[p].pc \notin LockPc \cup {"write"}
    BY <1>6 DEF DelContent, dbVars, LockPc
  <2> QED BY <1>2, <2>2, <2>3, <2>4, QuietDisk, ThrowDisk
<1>7. ASSUME InUse(p) PROVE DiskInv'
  <2>1. job[p].pc = "in_use" /\ UNCHANGED <<crow, chash, disk, spoilt>>
    BY <1>7 DEF InUse, dbVars
  <2>2. PurgeOf(job[p])
    BY DEF DiskInv
  <2>3. PICK j : /\ Become(p, j) /\ j.pc \in PurgePc /\ j.cid = job[p].cid /\ j.hash = job[p].hash
                 /\ j.txContent = job[p].txContent /\ PurgeOf(j)
    <3>1. CASE ChunkHashInUse(CurrentChunk(job[p]), job[p].cid)
      <4>1. Become(p, AfterChunk(job[p]))
        BY <1>7, <3>1 DEF InUse
      <4> QED BY <1>0, <2>1, <2>2, <4>1, AfterChunkKeeps DEF PurgeOf, PurgePc
    <3>2. CASE ~ChunkHashInUse(CurrentChunk(job[p]), job[p].cid)
      <4> DEFINE n == [job[p] EXCEPT !.pc = "unlink", !.seen = ContentRows]
      <4>1. Become(p, n)
        BY <1>7, <3>2 DEF InUse
      <4>2. /\ n.pc = "unlink" /\ n.cid = job[p].cid /\ n.hash = job[p].hash /\ n.idx = job[p].idx
            /\ n.txContent = job[p].txContent /\ n.seen = ContentRows
        BY <1>0 DEF Job
      <4> HIDE DEF n
      <4>3. \A r \in ContentRows \ {job[p].cid} :
               r \in ContentId /\ crow[r] # "free" /\ ChunksOf[job[p].hash][job[p].idx] \notin ChunkSet(chash[r])
        BY <3>2 DEF ChunkHashInUse, CurrentChunk, ContentRows
      <4>4. PurgeOf(n)
        BY <2>1, <2>2, <4>2, <4>3 DEF PurgeOf, PurgePc
      <4> QED BY <4>1, <4>2, <4>4 DEF PurgePc
    <3> QED BY <3>1, <3>2
  <2>4. JobDisk(j, disk', spoilt')
    BY <2>3 DEF JobDisk, PurgePc
  <2>5. \A c : ~WritesTo(job[p], c)
    BY <2>1 DEF WritesTo
  <2> QED BY <2>1, <2>3, <2>4, <2>5, KeepDisk
<1>8. ASSUME Unlink(p) PROVE DiskInv'
  <2>1. job[p].pc = "unlink" /\ UNCHANGED <<crow, chash>>
    BY <1>8 DEF Unlink, dbVars
  <2>2. CASE ThrowPurge(p) /\ UNCHANGED disk
    BY <2>1, <2>2, ThrowDisk
  <2>3. CASE ~(ThrowPurge(p) /\ UNCHANGED disk)
    <3>1. PICK c : c = CurrentChunk(job[p])
      OBVIOUS
    <3>2. /\ disk' = [disk EXCEPT ![c] = "absent"]
          /\ spoilt' = IF Needed(c, p) THEN spoilt \cup {c} ELSE spoilt
          /\ job' = [q \in Proc |-> IF q = p THEN AfterChunk(job[p]) ELSE Unlinked(c, job[q])]
      BY <1>8, <2>3, <3>1 DEF Unlink
    <3> QED BY <2>1, <3>1, <3>2, UnlinkDisk
  <2> QED BY <2>2, <2>3
<1>9. ASSUME Commit(p) PROVE DiskInv'
  <2>1. RowRemoved(p) \/ (ThrowPurge(p) /\ UNCHANGED <<crow, chash, disk>>)
    BY <1>9 DEF Commit, RowRemoved
  <2> QED BY <2>1, RemovedDisk, ThrowDisk
<1> QED
  BY <1>3, <1>4, <1>5, <1>6, <1>7, <1>8, <1>9 DEF PurgeStep

(* Every step of a running request keeps DiskInv.                          *)
LEMMA StepDisk ==
    ASSUME TypeInv, LockInv, DiskInv, NEW p \in Proc, Step(p)
    PROVE  DiskInv'
<1>0. job[p] \in Job /\ GoodJob(job[p]) /\ PurgeOf(IdleJob) /\ JobDisk(IdleJob, disk, spoilt)
  BY IdleDisk DEF TypeInv, TypeOK
<1>1. ASSUME NEW j, Become(p, j), j.pc \notin {"put", "open", "write", "ensure", "insert"} \cup PurgePc,
             UNCHANGED <<crow, chash, disk, spoilt>>, job[p].pc \notin LockPc \cup {"write"}
      PROVE  DiskInv'
  BY <1>1, RestDisk, QuietDisk
<1>2. ASSUME SoftDelete(p) \/ RevokeByFile(p) PROVE DiskInv'
  <2>1. /\ [job[p] EXCEPT !.pc = "revoke"].pc = "revoke"
        /\ [job[p] EXCEPT !.pc = "collect"].pc = "collect"
    BY <1>0 DEF Job
  <2> QED BY <1>1, <1>2, <2>1 DEF SoftDelete, RevokeByFile, Goto, LockPc, PurgePc
<1>3. ASSUME TryCollect(p) PROVE DiskInv'
  <2>1. UNCHANGED <<crow, chash, disk, spoilt>> /\ job[p].pc \notin LockPc \cup {"write"}
    BY <1>3 DEF TryCollect, dbVars, LockPc
  <2>2. CASE job[p].cid \in ContentRows
    <3> DEFINE n == [job[p] EXCEPT !.pc = "count", !.hash = chash[job[p].cid]]
    <3>1. n.pc = "count" /\ n.cid = job[p].cid /\ n.hash = chash[job[p].cid] /\ Become(p, n)
      BY <1>0, <1>3, <2>2 DEF TryCollect, Job
    <3> HIDE DEF n
    <3>2. PurgeOf(n) /\ JobDisk(n, disk, spoilt)
      BY <2>2, <3>1 DEF PurgeOf, JobDisk, ContentRows
    <3> QED BY <2>1, <3>1, <3>2, QuietDisk
  <2>3. CASE job[p].cid \notin ContentRows
    BY <1>0, <1>3, <2>1, <2>3, QuietDisk DEF TryCollect, Finish
  <2> QED BY <2>2, <2>3
<1>4. ASSUME ListOrphans(p) PROVE DiskInv'
  <2>1. PICK ks : Become(p, [job[p] EXCEPT !.pc = "next", !.queue = ks])
    BY <1>4 DEF ListOrphans
  <2>2. [job[p] EXCEPT !.pc = "next", !.queue = ks].pc = "next"
    BY <1>0 DEF Job
  <2> QED BY <1>1, <1>4, <2>1, <2>2 DEF ListOrphans, dbVars, LockPc, PurgePc
<1>5. ASSUME NextOrphan(p) PROVE DiskInv'
  <2>1. UNCHANGED <<crow, chash, disk, spoilt>> /\ job[p].pc \notin LockPc \cup {"write"}
    BY <1>5 DEF NextOrphan, dbVars, LockPc
  <2>2. ASSUME NEW k \in job[p].queue,
               Become(p, [IdleJob EXCEPT !.pc = "count", !.cid = k, !.hash = chash[k],
                                         !.queue = Rest(job[p].queue, k)])
        PROVE  DiskInv'
    <3> DEFINE n == [IdleJob EXCEPT !.pc = "count", !.cid = k, !.hash = chash[k],
                                    !.queue = Rest(job[p].queue, k)]
    <3>1. n.pc = "count" /\ n.cid = k /\ n.hash = chash[k] /\ Become(p, n)
      BY <2>2 DEF IdleJob
    <3> HIDE DEF n
    <3>2. k \in ContentId /\ crow[k] # "free"
      BY <1>0, <2>2 DEF GoodJob, Job
    <3>3. PurgeOf(n) /\ JobDisk(n, disk, spoilt)
      BY <3>1, <3>2 DEF PurgeOf, JobDisk
    <3> QED BY <2>1, <3>1, <3>3, QuietDisk
  <2>3. CASE Finish(p)
    BY <1>0, <2>1, <2>3, QuietDisk DEF Finish
  <2> QED BY <1>5, <2>2, <2>3 DEF NextOrphan
<1>6. ASSUME ShareInsert(p) PROVE DiskInv'
  BY <1>0, <1>6, QuietDisk DEF ShareInsert, Finish, LockPc
<1>7. ASSUME SaveFind(p) PROVE DiskInv'
  <2>1. [job[p] EXCEPT !.pc = "link", !.cid = fcid[job[p].file]].pc = "link"
    BY <1>0 DEF Job
  <2>2. UNCHANGED <<crow, chash, disk, spoilt>> /\ job[p].pc \notin LockPc \cup {"write"}
    BY <1>7 DEF SaveFind, dbVars, LockPc
  <2>3. CASE Finish(p)
    BY <1>0, <2>2, <2>3, QuietDisk DEF Finish
  <2>4. CASE Become(p, [job[p] EXCEPT !.pc = "link", !.cid = fcid[job[p].file]])
    BY <1>1, <2>1, <2>2, <2>4 DEF PurgePc
  <2> QED BY <1>7, <2>3, <2>4 DEF SaveFind
<1> QED
  BY <1>2, <1>3, <1>4, <1>5, <1>6, <1>7, UploadDisk, PurgeDisk DEF Step

(* A new request and the hourly task keep DiskInv.                         *)
LEMMA StartDisk ==
    ASSUME TypeInv, LockInv, DiskInv, NEW p \in Proc, Request(p) \/ Tick(p)
    PROVE  DiskInv'
<1>0. job[p] \in Job /\ job \in [Proc -> Job]
  BY DEF TypeInv, TypeOK
<1>1. UNCHANGED <<crow, chash, disk, spoilt>> /\ job[p].pc \notin LockPc \cup {"write"}
  BY DEF Request, UploadStart, DeleteStart, ShareStart, ShareRevoke, SaveStart, Tick, dbVars, LockPc
<1>2. PICK j : Become(p, j) /\ j.pc \in {"find_cached", "find", "soft_delete", "share_insert", "save_find", "list", "idle"}
  <2>1. ASSUME NEW h, UploadStart(p, h) PROVE \E l \in {"find_cached", "find"} : Become(p, [IdleJob EXCEPT !.hash = h, !.pc = l])
    BY <2>1 DEF UploadStart
  <2>2. \A h, l : [IdleJob EXCEPT !.hash = h, !.pc = l].pc = l
    BY DEF IdleJob
  <2>3. ASSUME NEW f, DeleteStart(p, f) PROVE \E k : Become(p, [IdleJob EXCEPT !.pc = "soft_delete", !.file = f, !.cid = k])
    BY <2>3 DEF DeleteStart
  <2>4. \A f, k : [IdleJob EXCEPT !.pc = "soft_delete", !.file = f, !.cid = k].pc = "soft_delete"
    BY DEF IdleJob
  <2>5. \A f : /\ [IdleJob EXCEPT !.pc = "share_insert", !.file = f].pc = "share_insert"
               /\ [IdleJob EXCEPT !.pc = "save_find", !.file = f].pc = "save_find"
    BY DEF IdleJob
  <2>6. [job[p] EXCEPT !.pc = "list"].pc = "list"
    BY <1>0 DEF Job
  <2>7. ASSUME NEW f, ShareRevoke(p, f) PROVE Become(p, job[p]) /\ job[p].pc = "idle"
    BY <1>0, <2>7 DEF ShareRevoke, Become
  <2>8. ASSUME NEW f, ShareStart(p, f) \/ SaveStart(p, f)
        PROVE  \/ Become(p, [IdleJob EXCEPT !.pc = "share_insert", !.file = f])
               \/ Become(p, [IdleJob EXCEPT !.pc = "save_find", !.file = f])
    BY <2>8 DEF ShareStart, SaveStart
  <2>9. CASE Tick(p)
    BY <2>6, <2>9 DEF Tick, Goto
  <2>10. CASE \E h \in Hash : UploadStart(p, h)
    <3>1. PICK h \in Hash : UploadStart(p, h)
      BY <2>10
    <3>2. PICK l \in {"find_cached", "find"} : Become(p, [IdleJob EXCEPT !.hash = h, !.pc = l])
      BY <2>1, <3>1
    <3>3. [IdleJob EXCEPT !.hash = h, !.pc = l].pc = l
      BY <2>2
    <3> QED BY <3>2, <3>3
  <2>11. ASSUME NEW f \in FileId, DeleteStart(p, f) PROVE \E j : Become(p, j) /\ j.pc = "soft_delete"
    BY <2>3, <2>4, <2>11
  <2>12. ASSUME NEW f \in FileId, ShareStart(p, f) \/ SaveStart(p, f)
         PROVE  \E j : Become(p, j) /\ j.pc \in {"share_insert", "save_find"}
    BY <2>5, <2>8, <2>12
  <2> QED BY <2>7, <2>9, <2>10, <2>11, <2>12 DEF Request
<1>3. PurgeOf(j) /\ JobDisk(j, disk, spoilt)
  BY <1>2, RestDisk DEF PurgePc
<1> QED
  BY <1>1, <1>2, <1>3, QuietDisk

(* The empty disk satisfies DiskInv.                                       *)
LEMMA DiskInit == Init => DiskInv
<1> SUFFICES ASSUME Init PROVE DiskInv
  OBVIOUS
<1>1. \A p \in Proc : job[p].pc = "idle"
  BY DEF Init, IdleJob
<1>2. \A p \in Proc : JobDisk(job[p], disk, spoilt) /\ PurgeOf(job[p])
  BY <1>1, RestDisk DEF PurgePc
<1>3. PartialWritten /\ RowsLaid
  BY DEF Init, PartialWritten, RowsLaid, ContentRows
<1> QED
  BY <1>2, <1>3 DEF DiskInv

(* Every step keeps DiskInv.                                               *)
LEMMA DiskNext ==
    ASSUME TypeInv, LockInv, DiskInv, [Next]_vars
    PROVE  DiskInv'
<1>1. CASE UNCHANGED vars
  <2>1. PartialWritten'
    BY <1>1 DEF DiskInv, PartialWritten, WritesTo, CurrentChunk, vars
  <2>2. \A p \in Proc : (JobDisk(job[p], disk, spoilt) /\ PurgeOf(job[p]))'
    BY <1>1 DEF DiskInv, PurgeOf, vars, dbVars
  <2>3. RowsLaid'
    BY <1>1 DEF DiskInv, RowsLaid, ContentRows, BeingPurged, LaidDown, Present, ChunkSet, vars, dbVars
  <2> QED BY <2>1, <2>2, <2>3 DEF DiskInv
<1>2. CASE Crash
  BY <1>2, DieDisk DEF Crash, dbVars
<1>3. CASE \E p \in Proc : Step(p) \/ Request(p) \/ Tick(p)
  BY <1>3, StepDisk, StartDisk
<1> QED
  BY <1>1, <1>2, <1>3 DEF Next

(* What the invariants say of the chunks of a live file: none of its rows  *)
(* is being purged, so they are present, and a present chunk is readable   *)
(* or written off.                                                         *)
LEMMA LiveChunks ==
    ASSUME LockInv, DiskInv, TypeInv
    PROVE  DamageExplained
<1> SUFFICES ASSUME NEW f \in FileId, frow[f] = "live", NEW c \in ChunkSet(chash[fcid[f]]), c \notin spoilt
             PROVE  Readable(c)
  BY DEF DamageExplained
<1>1. fcid[f] \in ContentRows
  BY DEF LockInv, ReferentialIntegrity, HasFile
<1>2. ~BeingPurged(fcid[f])
  <2> SUFFICES ASSUME NEW p \in Proc, job[p].txContent, job[p].cid = fcid[f] PROVE FALSE
    BY DEF BeingPurged
  <2>1. f \in job[p].txFiles
    BY DEF LockInv, JobLocks, HasFile
  <2> QED BY <2>1 DEF LockInv, JobLocks
<1>3. Present(disk, spoilt, c)
  BY <1>1, <1>2 DEF DiskInv, RowsLaid, LaidDown
<1>4. c \in Chunk
  BY <1>1, ChunkSetType DEF ContentRows, TypeInv, RowsHashed
<1>5. CASE disk[c] = "partial"
  BY <1>4, <1>5 DEF DiskInv, PartialWritten, WritesTo, Readable
<1>6. CASE disk[c] # "partial"
  BY <1>3, <1>4, <1>6 DEF Present, Readable, TypeInv, TypeOK
<1> QED
  BY <1>5, <1>6

(* LossExplained: whatever uploads, purges, crashes and failures           *)
(* interleave, a live file lacks a chunk only if that chunk was unlinked   *)
(* while an upload or a row committed since needed it, or if its purge or  *)
(* its writer was cut off (purge_content, put).                            *)
THEOREM LossExplained == Spec => []DamageExplained
<1>1. Init => TypeInv /\ LockInv /\ DiskInv
  BY TypeInit, LocksInit, DiskInit
<1>2. TypeInv /\ LockInv /\ DiskInv /\ [Next]_vars => TypeInv' /\ LockInv' /\ DiskInv'
  BY TypeNext, LocksNext, DiskNext
<1>3. TypeInv /\ LockInv /\ DiskInv => DamageExplained
  BY LiveChunks
<1> QED
  BY <1>1, <1>2, <1>3, PTL DEF Spec

-------------------------------------------------------------------------------
(* One request at a time.  No chunk is written off, nothing that a purge   *)
(* has found can change before it unlinks, and the chunks it has passed    *)
(* are gone or needed.                                                     *)

OneBusy == regime = "serial" => \A p, q \in Proc : job[p].pc # "idle" /\ job[q].pc # "idle" => p = q

Passed(j, d, c) == d[c] = "absent" \/ ChunkHashInUse(c, j.cid)
PassedSoFar(j, d) == \A i \in DOMAIN ChunksOf[j.hash] : i < j.idx => Passed(j, d, ChunksOf[j.hash][i])

SerialPurge(j, d) ==
    /\ j.pc = "unlink" => ~ChunkHashInUse(CurrentChunk(j), j.cid)
    /\ j.pc \in {"in_use", "unlink"} => PassedSoFar(j, d)
    /\ j.pc = "commit" => \A c \in ChunkSet(j.hash) : Passed(j, d, c)

Serial == regime = "serial" /\ faults = 0
SerialInv == OneBusy /\ (Serial => spoilt = {} /\ \A p \in Proc : SerialPurge(job[p], disk))

(* purge_content goes on to the next chunk once it has passed the current  *)
(* one.                                                                    *)
LEMMA AfterPassed ==
    ASSUME NEW j, GoodJob(j), j.pc \in {"in_use", "unlink"}, NEW d, PassedSoFar(j, d), Passed(j, d, CurrentChunk(j)),
           NEW n, n = AfterChunk(j)
    PROVE  SerialPurge(n, d)
<1>1. j.hash \in Hash /\ j.idx \in 1..Len(ChunksOf[j.hash]) /\ j \in Job
  BY CurrentChunkType DEF GoodJob
<1>2. DOMAIN ChunksOf[j.hash] = 1..Len(ChunksOf[j.hash]) /\ Len(ChunksOf[j.hash]) \in Nat
  BY <1>1, ChunkAt
<1>3. \A i \in DOMAIN ChunksOf[j.hash] : i <= j.idx => Passed(j, d, ChunksOf[j.hash][i])
  <2> SUFFICES ASSUME NEW i \in DOMAIN ChunksOf[j.hash], i <= j.idx PROVE Passed(j, d, ChunksOf[j.hash][i])
    OBVIOUS
  <2>1. i < j.idx \/ i = j.idx
    BY <1>1, <1>2
  <2> QED BY <2>1 DEF PassedSoFar, CurrentChunk
<1>4. n.hash = j.hash /\ n.cid = j.cid
  BY <1>1, AfterChunkKeeps
<1>5. CASE j.idx < Len(ChunksOf[j.hash])
  <2>0. n = [j EXCEPT !.pc = "in_use", !.idx = j.idx + 1, !.seen = {}]
    BY <1>5 DEF AfterChunk
  <2>1. n.pc = "in_use" /\ n.idx = j.idx + 1
    BY <1>1, <2>0 DEF Job
  <2>2. \A i \in DOMAIN ChunksOf[j.hash] : i < j.idx + 1 => i <= j.idx
    BY <1>1, <1>2
  <2>3. PassedSoFar(n, d)
    BY <1>3, <1>4, <2>1, <2>2 DEF PassedSoFar, Passed
  <2> QED BY <2>1, <2>3 DEF SerialPurge
<1>6. CASE ~(j.idx < Len(ChunksOf[j.hash]))
  <2>0. n = [j EXCEPT !.pc = "commit", !.seen = {}]
    BY <1>6 DEF AfterChunk
  <2>1. n.pc = "commit"
    BY <1>1, <2>0 DEF Job
  <2>2. \A i \in DOMAIN ChunksOf[j.hash] : i <= j.idx
    BY <1>1, <1>2, <1>6
  <2>3. \A c \in ChunkSet(j.hash) : Passed(j, d, c)
    BY <1>1, <1>3, <2>2, ChunkAt
  <2> QED BY <1>4, <2>1, <2>3 DEF SerialPurge, Passed
<1> QED
  BY <1>5, <1>6

(* A step of a running thread: its effect on the other threads, and on the *)
(* history variables.                                                      *)
LEMMA StepShape ==
    ASSUME TypeInv, NEW p \in Proc, Step(p)
    PROVE  /\ job[p].pc # "idle" /\ regime' = regime /\ (faults' = faults \/ Fault)
           /\ \A q \in Proc : q # p => job'[q].pc \in {job[q].pc, "idle"}
<1>1. job[p].pc # "idle" /\ regime' = regime /\ (faults' = faults \/ Fault)
  <2>1. CASE UploadStep(p)
    BY <2>1 DEF UploadStep, FindCached, FindContent, PutExists, PutOpen, PutWrite, InsertLink,
              EnsureContent, EnsureRaced, InsertFile, InsertNameTaken, CacheFill
  <2>2. CASE PurgeStep(p)
    BY <2>2 DEF PurgeStep, ActiveRefcount, DelShares, DelFiles, DelContent, InUse, Unlink, Commit
  <2>3. CASE ~UploadStep(p) /\ ~PurgeStep(p)
    BY <2>3 DEF Step, SoftDelete, RevokeByFile, TryCollect, ListOrphans, NextOrphan, ShareInsert, SaveFind
  <2> QED BY <2>1, <2>2, <2>3
<1>2. \/ \E j : Become(p, j)
      \/ Die
      \/ \E c : job' = [q \in Proc |-> IF q = p THEN AfterChunk(job[p]) ELSE Unlinked(c, job[q])]
  <2>1. CASE UploadStep(p)
    BY <2>1 DEF UploadStep, FindCached, FindContent, PutExists, PutOpen, PutWrite, InsertLink, NextPut, Finish, Goto,
              EnsureContent, EnsureRaced, InsertFile, InsertNameTaken, CacheFill
  <2>2. CASE PurgeStep(p)
    BY <2>2 DEF PurgeStep, ActiveRefcount, DelShares, DelFiles, DelContent, InUse, Unlink, Commit,
                EndPurge, ThrowPurge, Finish, Goto
  <2>3. CASE ~UploadStep(p) /\ ~PurgeStep(p)
    BY <2>3 DEF Step, SoftDelete, RevokeByFile, TryCollect, ListOrphans, NextOrphan, ShareInsert, SaveFind, Finish, Goto
  <2> QED BY <2>1, <2>2, <2>3
<1>3. ASSUME NEW q \in Proc, q # p PROVE job'[q].pc \in {job[q].pc, "idle"}
  <2>0. job[q] \in Job
    BY DEF TypeInv, TypeOK
  <2>1. CASE \E j : Become(p, j)
    BY <1>3, <2>1 DEF Become, TypeInv, TypeOK
  <2>2. CASE Die
    BY <2>2 DEF Die, IdleJob
  <2>3. CASE \E c : job' = [r \in Proc |-> IF r = p THEN AfterChunk(job[p]) ELSE Unlinked(c, job[r])]
    <3>1. PICK c : job' = [r \in Proc |-> IF r = p THEN AfterChunk(job[p]) ELSE Unlinked(c, job[r])]
      BY <2>3
    <3>2. job'[q] = Unlinked(c, job[q])
      BY <1>3, <3>1
    <3>3. Unlinked(c, job[q]).pc = job[q].pc
      BY <2>0, UnlinkedKeeps
    <3> QED BY <3>2, <3>3
  <2> QED BY <1>2, <2>1, <2>2, <2>3
<1> QED
  BY <1>1, <1>3

(* Only three steps leave a thread in the loop over the chunks of a purge  *)
(* or at its commit.                                                       *)
Outside(j) == j.pc \notin LockPc

(* The jobs that a running thread takes up elsewhere.                      *)
LEMMA OutsideJobs ==
    ASSUME NEW j \in Job
    PROVE  /\ \A l \in UploadPc \cup LinkPc \cup DeletePc \cup {"del_shares"} : Outside([j EXCEPT !.pc = l])
           /\ \A k : Outside([j EXCEPT !.pc = "link", !.cid = k])
           /\ \A k : Outside([j EXCEPT !.pc = "insert", !.cid = k])
           /\ \A k : j.pc = "insert" => Outside([j EXCEPT !.cid = k])
           /\ Outside([j EXCEPT !.pc = "put", !.idx = 1])
           /\ Outside([j EXCEPT !.pc = "write", !.linked = TRUE])
           /\ \A h : Outside([j EXCEPT !.pc = "count", !.hash = h])
           /\ \A ks : Outside([j EXCEPT !.pc = "next", !.queue = ks])
           /\ \A fs : Outside([j EXCEPT !.pc = "del_files", !.txShares = fs])
           /\ \A fs : Outside([j EXCEPT !.pc = "del_content", !.txFiles = fs])
           /\ Outside([j EXCEPT !.pc = "put", !.idx = j.idx + 1, !.linked = FALSE])
           /\ Outside([j EXCEPT !.pc = "ensure", !.linked = FALSE])
           /\ Outside(IdleJob)
           /\ \A ks : Outside([IdleJob EXCEPT !.pc = "next", !.queue = ks])
BY DEF Outside, Job, IdleJob, LockPc, UploadPc, LinkPc, DeletePc

(* The loop over the chunks is entered and kept by three steps only.       *)
LEMMA LoopStep ==
    ASSUME TypeInv, NEW p \in Proc, Step(p), job'[p].pc \in LockPc
    PROVE  DelContent(p) \/ InUse(p) \/ Unlink(p)
<1> SUFFICES ASSUME ~DelContent(p), ~InUse(p), ~Unlink(p) PROVE FALSE
  OBVIOUS
<1>0. job[p] \in Job /\ job \in [Proc -> Job]
  BY DEF TypeInv, TypeOK
<1>1. ASSUME NEW j, Become(p, j), Outside(j) PROVE FALSE
  BY <1>0, <1>1 DEF Become, Outside
<1>2. CASE Finish(p) \/ EndPurge(p)
  BY <1>0, <1>1, <1>2, OutsideJobs DEF Finish, EndPurge
<1>3. CASE ThrowPurge(p)
  <2>1. CASE Die
    BY <1>0, <2>1, OutsideJobs DEF Die, Outside
  <2> QED BY <1>2, <1>3, <2>1 DEF ThrowPurge
<1>4. CASE NextPut(p)
  BY <1>0, <1>1, <1>4, OutsideJobs DEF NextPut
<1>5. ASSUME NEW l \in UploadPc \cup LinkPc \cup DeletePc \cup {"del_shares"}, Goto(p, l) PROVE FALSE
  BY <1>0, <1>1, <1>5, OutsideJobs DEF Goto
<1>6. CASE UploadStep(p)
  <2>1. CASE FindCached(p) \/ FindContent(p)
    BY <1>0, <1>1, <1>5, <2>1, OutsideJobs DEF FindCached, FindContent, UploadPc
  <2>2. CASE PutExists(p) \/ PutWrite(p)
    BY <1>4, <1>5, <2>2 DEF PutExists, PutWrite, UploadPc
  <2>3. CASE PutOpen(p)
    BY <1>0, <1>1, <1>2, <2>3, OutsideJobs DEF PutOpen
  <2>4. CASE InsertLink(p) \/ InsertNameTaken(p) \/ CacheFill(p)
    BY <1>2, <2>4 DEF InsertLink, InsertNameTaken, CacheFill
  <2>5. CASE EnsureContent(p)
    BY <1>0, <1>1, <1>5, <2>5, OutsideJobs DEF EnsureContent, UploadPc
  <2>6. CASE EnsureRaced(p)
    BY <1>0, <1>1, <2>6, OutsideJobs DEF EnsureRaced
  <2>7. CASE InsertFile(p)
    BY <1>2, <1>5, <2>7 DEF InsertFile, UploadPc
  <2> QED BY <1>6, <2>1, <2>2, <2>3, <2>4, <2>5, <2>6, <2>7 DEF UploadStep
<1>7. CASE ActiveRefcount(p)
  BY <1>2, <1>5, <1>7 DEF ActiveRefcount
<1>8. CASE DelShares(p)
  BY <1>0, <1>1, <1>8, OutsideJobs DEF DelShares
<1>9. CASE DelFiles(p)
  BY <1>0, <1>1, <1>3, <1>9, OutsideJobs DEF DelFiles
<1>10. CASE Commit(p)
  BY <1>2, <1>3, <1>10 DEF Commit
<1>11. CASE SoftDelete(p) \/ RevokeByFile(p) \/ ShareInsert(p)
  BY <1>2, <1>5, <1>11 DEF SoftDelete, RevokeByFile, ShareInsert, DeletePc
<1>12. CASE TryCollect(p) \/ SaveFind(p)
  BY <1>0, <1>1, <1>2, <1>12, OutsideJobs, ZenonT(30) DEF TryCollect, SaveFind
<1>13. CASE ListOrphans(p)
  BY <1>0, <1>1, <1>13, OutsideJobs DEF ListOrphans
<1>14. CASE NextOrphan(p)
  <2>1. ASSUME NEW k, NEW h, NEW ks,
               Become(p, [IdleJob EXCEPT !.pc = "count", !.cid = k, !.hash = h, !.queue = ks])
        PROVE  FALSE
    <3>1. Outside([IdleJob EXCEPT !.pc = "count", !.cid = k, !.hash = h, !.queue = ks])
      BY DEF Outside, IdleJob, LockPc
    <3> QED BY <1>1, <2>1, <3>1
  <2> QED BY <1>2, <1>14, <2>1 DEF NextOrphan
<1> QED
  BY <1>6, <1>7, <1>8, <1>9, <1>10, <1>11, <1>12, <1>13, <1>14 DEF Step, PurgeStep

(* Where the history of a step without failures comes from.                *)
LEMMA SpoiltStep ==
    ASSUME NEW p \in Proc, Step(p), ~Fault
    PROVE  \/ UNCHANGED spoilt
           \/ job[p].pc \in {"del_files", "del_content"} /\ ThrowPurge(p)
           \/ /\ job[p].pc = "unlink"
              /\ spoilt' = IF Needed(CurrentChunk(job[p]), p) THEN spoilt \cup {CurrentChunk(job[p])} ELSE spoilt
<1>1. CASE UploadStep(p)
  BY <1>1 DEF UploadStep, FindCached, FindContent, PutExists, PutOpen, PutWrite, InsertLink,
              EnsureContent, EnsureRaced, InsertFile, InsertNameTaken, CacheFill
<1>2. CASE PurgeStep(p)
  BY <1>2 DEF PurgeStep, ActiveRefcount, DelShares, DelFiles, DelContent, InUse, Unlink, Commit
<1>3. CASE ~UploadStep(p) /\ ~PurgeStep(p)
  BY <1>3 DEF Step, SoftDelete, RevokeByFile, TryCollect, ListOrphans, NextOrphan, ShareInsert, SaveFind
<1> QED BY <1>1, <1>2, <1>3

(* A step of a running thread keeps SerialInv.                             *)
LEMMA StepSerial ==
    ASSUME TypeInv, LockInv, SerialInv, NEW p \in Proc, Step(p)
    PROVE  SerialInv'
<1>0. job[p] \in Job /\ GoodJob(job[p]) /\ job \in [Proc -> Job] /\ faults \in Nat
  BY ContentStoreAssumption DEF TypeInv, TypeOK
<1>1. /\ job[p].pc # "idle" /\ regime' = regime /\ (faults' = faults \/ Fault)
      /\ \A q \in Proc : q # p => job'[q].pc \in {job[q].pc, "idle"}
  BY StepShape
<1>2. regime = "serial" => \A q \in Proc : q # p => job[q].pc = "idle" /\ job'[q].pc = "idle"
  BY <1>1 DEF SerialInv, OneBusy
<1>3. OneBusy'
  BY <1>1, <1>2 DEF OneBusy
<1>4. ASSUME regime = "serial", faults' = 0
      PROVE  spoilt' = {} /\ \A q \in Proc : SerialPurge(job[q], disk)'
  <2>1. faults = 0 /\ ~Fault /\ Serial
    BY <1>0, <1>1, <1>4 DEF Fault, Serial
  <2>2. spoilt = {} /\ SerialPurge(job[p], disk)
    BY <2>1 DEF SerialInv
  <2>3. \A q \in Proc : q # p => Interrupted(q) = {}
    BY <1>2, <1>4 DEF Interrupted, LockInv, JobLocks, LockPc
  <2>4. spoilt' = {}
    <3>1. CASE job[p].pc \in {"del_files", "del_content"} /\ ThrowPurge(p)
      <4>1. \A q \in Proc : Interrupted(q) = {}
        BY <2>3, <3>1 DEF Interrupted, LockInv, JobLocks, LockPc
      <4>2. UNION {Interrupted(q) : q \in Proc} = {}
        BY <4>1
      <4> QED BY <2>2, <3>1, <4>1, <4>2 DEF ThrowPurge, Die
    <3>2. CASE /\ job[p].pc = "unlink"
               /\ spoilt' = IF Needed(CurrentChunk(job[p]), p) THEN spoilt \cup {CurrentChunk(job[p])} ELSE spoilt
      <4>1. \A q \in Proc \ {p} : ~Relies(job[q], CurrentChunk(job[p]))
        BY <1>2, <1>4 DEF Relies
      <4>2. ~ChunkHashInUse(CurrentChunk(job[p]), job[p].cid)
        BY <2>2, <3>2 DEF SerialPurge
      <4>3. ~Needed(CurrentChunk(job[p]), p)
        BY <4>1, <4>2 DEF Needed, ChunkHashInUse
      <4> QED BY <2>2, <3>2, <4>3
    <3> QED BY <2>1, <2>2, <3>1, <3>2, SpoiltStep
  <2>5. ASSUME NEW q \in Proc, q # p PROVE SerialPurge(job[q], disk)'
    <3>1. job'[q].pc = "idle"
      BY <1>2, <1>4, <2>5
    <3> QED BY <3>1 DEF SerialPurge
  <2>6. SerialPurge(job[p], disk)'
    <3>1. CASE job'[p].pc \notin LockPc
      BY <3>1 DEF SerialPurge, LockPc
    <3>2. ASSUME NEW j, job'[p] = j, UNCHANGED <<crow, chash>>, SerialPurge(j, disk') PROVE SerialPurge(job[p], disk)'
      BY <3>2 DEF SerialPurge, PassedSoFar, Passed, ChunkHashInUse, ContentRows, CurrentChunk, ChunkSet
    <3>3. CASE DelContent(p)
      <4>1. CASE Become(p, [job[p] EXCEPT !.pc = "in_use", !.txContent = TRUE, !.idx = 1])
        <5>1. PICK j : j = [job[p] EXCEPT !.pc = "in_use", !.txContent = TRUE, !.idx = 1]
          OBVIOUS
        <5>2. j.pc = "in_use" /\ j.idx = 1 /\ j.hash = job[p].hash /\ job[p].hash \in Hash
          BY <1>0, <3>3, <5>1 DEF Job, DelContent, GoodJob, JobOK, PurgePc
        <5>3. job'[p] = j
          BY <1>0, <4>1, <5>1 DEF Become
        <5>4. DOMAIN ChunksOf[j.hash] = 1..Len(ChunksOf[j.hash]) /\ Len(ChunksOf[j.hash]) \in Nat
          BY <5>2, ChunkAt
        <5>5. PassedSoFar(j, disk')
          BY <5>2, <5>4 DEF PassedSoFar
        <5>6. SerialPurge(j, disk')
          BY <5>2, <5>5 DEF SerialPurge
        <5> QED BY <3>2, <3>3, <5>3, <5>6 DEF DelContent, dbVars
      <4>2. CASE EndPurge(p) \/ ThrowPurge(p)
        <5>1. job'[p].pc \in {"idle", "next"}
          <6>1. \A ks : [IdleJob EXCEPT !.pc = "next", !.queue = ks].pc = "next"
            BY DEF IdleJob
          <6>2. IdleJob.pc = "idle"
            BY DEF IdleJob
          <6> QED BY <1>0, <4>2, <6>1, <6>2, ZenonT(30) DEF EndPurge, ThrowPurge, Finish, Die, Become
        <5> QED BY <5>1 DEF SerialPurge
      <4> QED BY <3>3, <4>1, <4>2 DEF DelContent
    <3>4. CASE InUse(p)
      <4>1. job[p].pc = "in_use" /\ UNCHANGED <<crow, chash, disk>> /\ PassedSoFar(job[p], disk)
        BY <2>2, <3>4 DEF InUse, dbVars, SerialPurge
      <4>2. CASE ChunkHashInUse(CurrentChunk(job[p]), job[p].cid)
        <5>1. job'[p] = AfterChunk(job[p])
          BY <1>0, <3>4, <4>2 DEF InUse, Become
        <5>2. Passed(job[p], disk, CurrentChunk(job[p]))
          BY <4>2 DEF Passed
        <5>3. SerialPurge(AfterChunk(job[p]), disk)
          BY <1>0, <4>1, <5>2, AfterPassed
        <5> QED BY <3>2, <4>1, <5>1, <5>3
      <4>3. CASE ~ChunkHashInUse(CurrentChunk(job[p]), job[p].cid)
        <5>1. PICK j : j = [job[p] EXCEPT !.pc = "unlink", !.seen = ContentRows]
          OBVIOUS
        <5>2. job'[p] = j /\ j.pc = "unlink" /\ j.idx = job[p].idx /\ j.hash = job[p].hash /\ j.cid = job[p].cid
          BY <1>0, <3>4, <4>3, <5>1 DEF InUse, Become, Job
        <5>3. SerialPurge(j, disk)
          BY <4>1, <4>3, <5>2 DEF SerialPurge, PassedSoFar, Passed, CurrentChunk
        <5> QED BY <3>2, <4>1, <5>2, <5>3
      <4> QED BY <4>2, <4>3
    <3>5. CASE Unlink(p)
      <4>1. PICK c : c = CurrentChunk(job[p])
        OBVIOUS
      <4>2. /\ job[p].pc = "unlink" /\ UNCHANGED <<crow, chash>> /\ PassedSoFar(job[p], disk)
            /\ disk' = [disk EXCEPT ![c] = "absent"] /\ job'[p] = AfterChunk(job[p])
        BY <2>1, <2>2, <3>5, <4>1 DEF Unlink, dbVars, SerialPurge
      <4>3. c \in Chunk /\ job[p].hash \in Hash
        BY <1>0, <4>1, <4>2, CurrentChunkType DEF GoodJob
      <4>4. \A x \in Chunk : disk'[x] = IF x = c THEN "absent" ELSE disk[x]
        BY <4>2 DEF TypeInv, TypeOK
      <4>5. Passed(job[p], disk', CurrentChunk(job[p]))
        BY <4>1, <4>3, <4>4 DEF Passed
      <4>6. PassedSoFar(job[p], disk')
        BY <4>2, <4>3, <4>4, ChunkAt DEF PassedSoFar, Passed
      <4>7. SerialPurge(AfterChunk(job[p]), disk')
        BY <1>0, <4>2, <4>5, <4>6, AfterPassed
      <4> QED BY <3>2, <4>2, <4>7
    <3> QED BY <3>1, <3>3, <3>4, <3>5, LoopStep
  <2> QED BY <2>4, <2>5, <2>6
<1> QED
  BY <1>1, <1>3, <1>4 DEF SerialInv, Serial

(* A new request and the hourly task keep SerialInv: a request that starts *)
(* while another thread is busy ends the serial regime.                    *)
LEMMA StartSerial ==
    ASSUME TypeInv, LockInv, SerialInv, LockInv', NEW p \in Proc, Request(p) \/ Tick(p)
    PROVE  SerialInv'
<1>1. Overlap(p) /\ UNCHANGED <<spoilt, faults>> /\ job[p].pc = "idle"
  BY DEF Request, UploadStart, DeleteStart, ShareStart, ShareRevoke, SaveStart, Tick
<1>2. \A q \in Proc : q # p => job'[q] = job[q]
  <2>1. UNCHANGED job \/ \E j : Become(p, j)
    BY DEF Request, UploadStart, DeleteStart, ShareStart, ShareRevoke, SaveStart, Tick, Goto
  <2> QED BY <2>1 DEF Become, TypeInv, TypeOK
<1>3. regime' = "serial" => regime = "serial" /\ \A q \in Proc : q # p => job'[q].pc = "idle"
  BY <1>1, <1>2 DEF Overlap
<1>4. OneBusy'
  BY <1>3 DEF OneBusy
<1>5. \A q \in Proc : job'[q].txContent => q # p /\ job[q].txContent
  <2>1. ~job'[p].txContent
    <3>0. job[p] \in Job /\ job \in [Proc -> Job] /\ ~job[p].txContent
      BY <1>1 DEF TypeInv, TypeOK, LockInv, JobLocks, LockPc
    <3>1. ASSUME NEW j, Become(p, j), ~j.txContent PROVE ~job'[p].txContent
      BY <3>0, <3>1 DEF Become
    <3>2. CASE Tick(p)
      <4>1. Become(p, [job[p] EXCEPT !.pc = "list"]) /\ ~[job[p] EXCEPT !.pc = "list"].txContent
        BY <3>0, <3>2 DEF Tick, Goto, Job
      <4> QED BY <3>1, <4>1
    <3>3. ASSUME NEW h, UploadStart(p, h) PROVE ~job'[p].txContent
      <4>1. PICK l : Become(p, [IdleJob EXCEPT !.hash = h, !.pc = l])
        BY <3>3 DEF UploadStart
      <4>2. ~[IdleJob EXCEPT !.hash = h, !.pc = l].txContent
        BY DEF IdleJob
      <4> QED BY <3>1, <4>1, <4>2
    <3>4. ASSUME NEW f, DeleteStart(p, f) PROVE ~job'[p].txContent
      <4>1. PICK k : Become(p, [IdleJob EXCEPT !.pc = "soft_delete", !.file = f, !.cid = k])
        BY <3>4 DEF DeleteStart
      <4>2. ~[IdleJob EXCEPT !.pc = "soft_delete", !.file = f, !.cid = k].txContent
        BY DEF IdleJob
      <4> QED BY <3>1, <4>1, <4>2
    <3>5. ASSUME NEW f, ShareStart(p, f) \/ SaveStart(p, f) PROVE ~job'[p].txContent
      <4>1. PICK l : Become(p, [IdleJob EXCEPT !.pc = l, !.file = f])
        BY <3>5 DEF ShareStart, SaveStart
      <4>2. ~[IdleJob EXCEPT !.pc = l, !.file = f].txContent
        BY DEF IdleJob
      <4> QED BY <3>1, <4>1, <4>2
    <3>6. ASSUME NEW f, ShareRevoke(p, f) PROVE ~job'[p].txContent
      BY <3>0, <3>6 DEF ShareRevoke
    <3> QED BY <3>2, <3>3, <3>4, <3>5, <3>6 DEF Request
  <2> QED BY <1>2, <2>1
<1>6. ASSUME regime' = "serial", NEW q \in Proc PROVE SerialPurge(job[q], disk)'
  <2>1. job'[q].pc \notin LockPc
    BY <1>3, <1>5, <1>6 DEF LockInv, JobLocks, LockPc
  <2> QED BY <2>1 DEF SerialPurge, LockPc
<1> QED
  BY <1>1, <1>3, <1>4, <1>6 DEF SerialInv, Serial

(* The start is serial. *)
LEMMA SerialInit == Init => SerialInv
<1> SUFFICES ASSUME Init PROVE SerialInv
  OBVIOUS
<1>1. \A p \in Proc : job[p].pc = "idle"
  BY DEF Init, IdleJob
<1> QED
  BY <1>1 DEF Init, SerialInv, OneBusy, SerialPurge

(* Every step keeps SerialInv.                                             *)
LEMMA SerialNext ==
    ASSUME TypeInv, LockInv, SerialInv, LockInv', [Next]_vars
    PROVE  SerialInv'
<1>1. CASE UNCHANGED vars
  BY <1>1 DEF vars, dbVars, SerialInv, OneBusy, Serial, SerialPurge, PassedSoFar, Passed, ChunkHashInUse,
              ContentRows, CurrentChunk, ChunkSet
<1>2. CASE Crash
  <2>1. \A q \in Proc : job'[q].pc = "idle"
    BY <1>2 DEF Crash, Die, IdleJob
  <2>2. faults' # 0
    BY <1>2, ContentStoreAssumption DEF Crash, Fault, TypeInv, TypeOK
  <2> QED BY <2>1, <2>2 DEF SerialInv, OneBusy, Serial
<1>3. CASE \E p \in Proc : Step(p) \/ Request(p) \/ Tick(p)
  BY <1>3, StepSerial, StartSerial
<1> QED
  BY <1>1, <1>2, <1>3 DEF Next

(* All that is known of the store.                                         *)
StoreInv == TypeInv /\ LockInv /\ DiskInv /\ SerialInv

(* It is an invariant.                                                     *)
LEMMA StoreInvHolds == Spec => []StoreInv
<1>1. Init => StoreInv
  BY TypeInit, LocksInit, DiskInit, SerialInit DEF StoreInv
<1>2. StoreInv /\ [Next]_vars => StoreInv'
  BY TypeNext, LocksNext, DiskNext, SerialNext DEF StoreInv
<1> QED
  BY <1>1, <1>2, PTL DEF Spec

(* SerialReadable: as long as requests and the hourly task do not overlap  *)
(* and nothing fails, every chunk of every live file can be read back,     *)
(* whatever chunks the contents share and in whatever order they are       *)
(* uploaded, deleted and collected (put_chunked, chunk_hash_in_use).       *)
THEOREM SerialReadable == Spec => []SerialFilesReadable
<1>1. StoreInv => SerialFilesReadable
  BY LiveChunks DEF StoreInv, SerialInv, Serial, DamageExplained, SerialFilesReadable, LiveFilesReadable
<1> QED
  BY <1>1, StoreInvHolds, PTL

(* SerialReclaims: as long as they do not overlap and nothing fails, the   *)
(* commit that removes a content row leaves none of its chunks on disk,    *)
(* except those that another content row needs (purge_content).            *)
THEOREM SerialReclaims == Spec => SerialPurgeReclaims
<1>1. StoreInv /\ [Next]_vars => [regime = "serial" /\ faults = 0 => ReclaimsChunks]_vars
  <2> SUFFICES ASSUME StoreInv, [Next]_vars, Serial, NEW k \in ContentId, crow[k] = "row", crow'[k] # "row",
                      NEW c \in ChunkSet(chash[k]), disk'[c] # "absent"
               PROVE  \E r \in ContentRows' : c \in ChunkSet(chash'[r])
    BY DEF ReclaimsChunks, Serial
  <2>1. PICK p \in Proc : RowRemoved(p)
    BY RowsStep DEF RowInserted, StoreInv, TypeInv, TypeOK
  <2>2. job[p].cid = k /\ job[p].pc = "commit" /\ UNCHANGED <<chash, disk>>
    BY <2>1 DEF RowRemoved, StoreInv, TypeInv, TypeOK
  <2>3. job[p].hash = chash[k]
    BY <2>2 DEF StoreInv, DiskInv, PurgeOf, PurgePc
  <2>4. Passed(job[p], disk, c)
    BY <2>2, <2>3 DEF StoreInv, SerialInv, SerialPurge
  <2>5. PICK r \in ContentRows \ {k} : c \in ChunkSet(chash[r])
    BY <2>2, <2>4 DEF Passed, ChunkHashInUse
  <2>6. r \in ContentRows'
    BY <2>1, <2>2, <2>5 DEF RowRemoved, ContentRows, StoreInv, TypeInv, TypeOK
  <2> QED BY <2>2, <2>5, <2>6
<1>2. Init /\ [][Next]_vars => []StoreInv
  BY StoreInvHolds DEF Spec
<1> QED
  BY <1>1, <1>2, PTL DEF Spec, SerialPurgeReclaims

-------------------------------------------------------------------------------
(* OwnBytes *)

(* An upload looks for a row before it has one; the row it has found is a  *)
(* row of its hash, also after a purge; a save looks for no hash.          *)
SearchPc == {"find_cached", "find", "put", "open", "write", "ensure"}

RowOf(j, rows, hashes) ==
    /\ j.pc \in SearchPc => j.cid = None
    /\ j.pc = "save_find" => j.hash = None
    /\ j.pc \in {"link", "insert"} /\ j.hash # None /\ j.cid # None =>
           j.cid \in ContentId /\ rows[j.cid] # "free" /\ hashes[j.cid] = j.hash

OwnInv == \A p \in Proc : RowOf(job[p], crow, chash)

(* A row keeps its hash, and a UUID that was used is never free again.     *)
LEMMA RowsKept ==
    ASSUME TypeInv, [Next]_vars, NEW k \in ContentId, crow[k] # "free"
    PROVE  crow'[k] # "free" /\ chash'[k] = chash[k]
<1>1. ASSUME NEW p \in Proc, RowInserted(p) PROVE crow'[k] # "free" /\ chash'[k] = chash[k]
  BY <1>1 DEF RowInserted, TypeInv, TypeOK
<1>2. ASSUME NEW p \in Proc, RowRemoved(p) PROVE crow'[k] # "free" /\ chash'[k] = chash[k]
  BY <1>2 DEF RowRemoved, TypeInv, TypeOK
<1> QED BY <1>1, <1>2, RowsStep

(* A job that stays as it is keeps its row, and so does one that only      *)
(* loses the file it writes to.                                            *)
LEMMA RowOfKept ==
    ASSUME TypeInv, [Next]_vars, NEW j, RowOf(j, crow, chash), NEW n,
           n.pc = j.pc /\ n.cid = j.cid /\ n.hash = j.hash
    PROVE  RowOf(n, crow', chash')
BY RowsKept DEF RowOf

(* A step that gives one thread a job with its row.                        *)
LEMMA OwnBecome ==
    ASSUME TypeInv, OwnInv, [Next]_vars, NEW p \in Proc, NEW j, Become(p, j), RowOf(j, crow, chash)
    PROVE  OwnInv'
<1>1. \A q \in Proc : job'[q] = IF q = p THEN j ELSE job[q]
  BY DEF Become, TypeInv, TypeOK
<1>2. ASSUME NEW q \in Proc PROVE RowOf(job'[q], crow', chash')
  <2>1. PICK i : i = job'[q] /\ RowOf(i, crow, chash)
    BY <1>1 DEF OwnInv
  <2> QED BY <2>1, RowOfKept
<1> QED BY <1>2 DEF OwnInv

(* A thread that neither uploads nor links has no row to account for.      *)
LEMMA OwnNone ==
    ASSUME NEW j, j.pc \notin SearchPc \cup {"save_find", "link", "insert"}, NEW rows, NEW hashes
    PROVE  RowOf(j, rows, hashes)
BY DEF RowOf, SearchPc

(* Between two requests, or two orphans.                                   *)
LEMMA OwnIdle ==
    ASSUME NEW rows, NEW hashes, NEW ks
    PROVE  RowOf(IdleJob, rows, hashes) /\ RowOf([IdleJob EXCEPT !.pc = "next", !.queue = ks], rows, hashes)
<1>1. IdleJob.pc = "idle" /\ [IdleJob EXCEPT !.pc = "next", !.queue = ks].pc = "next"
  BY DEF IdleJob
<1> QED BY <1>1, OwnNone DEF SearchPc

(* The process dies. *)
LEMMA OwnDie ==
    ASSUME Die PROVE OwnInv'
BY OwnIdle DEF Die, OwnInv

(* Steps of an upload. *)
LEMMA OwnUpload ==
    ASSUME TypeInv, OwnInv, [Next]_vars, NEW p \in Proc, UploadStep(p)
    PROVE  OwnInv'
<1>0. job[p] \in Job /\ GoodJob(job[p]) /\ RowOf(job[p], crow, chash) /\ \A k \in ContentId : k # None
  BY ContentStoreAssumption DEF TypeInv, TypeOK, OwnInv
<1>1. CASE Finish(p)
  BY <1>1, OwnBecome, OwnIdle DEF Finish
<1>2. ASSUME NEW l \in {"link", "insert"}, NEW k \in RowsOfHash(job[p].hash),
             Become(p, [job[p] EXCEPT !.pc = l, !.cid = k])
      PROVE  OwnInv'
  <2>1. PICK j : j = [job[p] EXCEPT !.pc = l, !.cid = k]
    OBVIOUS
  <2>2. j.pc = l /\ j.cid = k /\ j.hash = job[p].hash
    BY <1>0, <2>1 DEF Job
  <2>3. RowOf(j, crow, chash)
    BY <1>2, <2>2 DEF RowOf, SearchPc, RowsOfHash, ContentRows
  <2> QED BY <1>2, <2>1, <2>3, OwnBecome
<1>3. ASSUME NEW j, Become(p, j), j.cid = job[p].cid, job[p].pc \in SearchPc,
             j.pc \in SearchPc \cup {"insert"}
      PROVE  OwnInv'
  <2>1. RowOf(j, crow, chash)
    BY <1>0, <1>3 DEF RowOf, SearchPc
  <2> QED BY <1>3, <2>1, OwnBecome
<1>4. ASSUME NEW l \in SearchPc \cup {"insert"}, Goto(p, l), job[p].pc \in SearchPc
      PROVE  OwnInv'
  <2>1. PICK j : j = [job[p] EXCEPT !.pc = l]
    OBVIOUS
  <2>2. j.pc = l /\ j.cid = job[p].cid
    BY <1>0, <2>1 DEF Job
  <2> QED BY <1>3, <1>4, <2>1, <2>2 DEF Goto
<1>5. ASSUME NextPut(p), job[p].pc \in SearchPc PROVE OwnInv'
  <2>1. PICK j : /\ j = [job[p] EXCEPT !.pc = "put", !.idx = @ + 1, !.linked = FALSE]
                    \/ j = [job[p] EXCEPT !.pc = "ensure", !.linked = FALSE]
                 /\ Become(p, j)
    BY <1>5 DEF NextPut
  <2>2. j.pc \in {"put", "ensure"} /\ j.cid = job[p].cid
    BY <1>0, <2>1 DEF Job
  <2> QED BY <1>3, <1>5, <2>1, <2>2 DEF SearchPc
<1>6. CASE FindCached(p)
  BY <1>2, <1>4, <1>6 DEF FindCached, SearchPc
<1>7. CASE FindContent(p)
  <2>1. CASE Become(p, [job[p] EXCEPT !.pc = "put", !.idx = 1])
    <3>1. PICK j : j = [job[p] EXCEPT !.pc = "put", !.idx = 1]
      OBVIOUS
    <3>2. j.pc = "put" /\ j.cid = job[p].cid
      BY <1>0, <3>1 DEF Job
    <3> QED BY <1>3, <1>7, <2>1, <3>1, <3>2 DEF FindContent, SearchPc
  <2> QED BY <1>2, <1>7, <2>1 DEF FindContent
<1>8. CASE PutExists(p)
  BY <1>4, <1>5, <1>8 DEF PutExists, SearchPc
<1>9. CASE PutOpen(p)
  <2>1. CASE Become(p, [job[p] EXCEPT !.pc = "write", !.linked = TRUE])
    <3>1. PICK j : j = [job[p] EXCEPT !.pc = "write", !.linked = TRUE]
      OBVIOUS
    <3>2. j.pc = "write" /\ j.cid = job[p].cid
      BY <1>0, <3>1 DEF Job
    <3> QED BY <1>3, <1>9, <2>1, <3>1, <3>2 DEF PutOpen, SearchPc
  <2> QED BY <1>1, <1>9, <2>1 DEF PutOpen
<1>10. CASE PutWrite(p)
  BY <1>5, <1>10 DEF PutWrite, SearchPc
<1>11. CASE InsertLink(p) \/ InsertNameTaken(p) \/ CacheFill(p)
  BY <1>1, <1>11 DEF InsertLink, InsertNameTaken, CacheFill
<1>12. CASE EnsureContent(p)
  BY <1>2, <1>4, <1>12 DEF EnsureContent, SearchPc
<1>13. CASE EnsureRaced(p)
  <2>1. PICK k \in RowsOfHash(job[p].hash) : Become(p, [job[p] EXCEPT !.cid = k])
    BY <1>13 DEF EnsureRaced, ConflictingRows
  <2>2. [job[p] EXCEPT !.cid = k] = [job[p] EXCEPT !.pc = "insert", !.cid = k]
    BY <1>0, <1>13 DEF EnsureRaced, Job
  <2> QED BY <1>2, <2>1, <2>2
<1>14. CASE InsertFile(p)
  <2>1. CASE Goto(p, "fill")
    <3>1. PICK j : j = [job[p] EXCEPT !.pc = "fill"]
      OBVIOUS
    <3>2. j.pc = "fill"
      BY <1>0, <3>1 DEF Job
    <3>3. RowOf(j, crow, chash)
      BY <3>2, OwnNone DEF SearchPc
    <3> QED BY <2>1, <3>1, <3>3, OwnBecome DEF Goto
  <2> QED BY <1>1, <1>14, <2>1 DEF InsertFile
<1> QED
  BY <1>6, <1>7, <1>8, <1>9, <1>10, <1>11, <1>12, <1>13, <1>14 DEF UploadStep

(* Steps of a purge, of a deletion, of the hourly task and of a share. *)
LEMMA OwnOther ==
    ASSUME TypeInv, OwnInv, [Next]_vars, NEW p \in Proc, Step(p), ~UploadStep(p)
    PROVE  OwnInv'
<1>0. job[p] \in Job /\ GoodJob(job[p]) /\ RowOf(job[p], crow, chash)
  BY DEF TypeInv, TypeOK, OwnInv
<1>1. CASE Finish(p) \/ EndPurge(p)
  BY <1>1, OwnBecome, OwnIdle DEF Finish, EndPurge
<1>2. CASE ThrowPurge(p)
  BY <1>1, <1>2, OwnDie DEF ThrowPurge
<1>3. ASSUME NEW j, Become(p, j), j.pc \notin SearchPc \cup {"save_find", "link", "insert"}
      PROVE  OwnInv'
  BY <1>3, OwnBecome, OwnNone
<1>4. ASSUME NEW l \in {"revoke", "collect", "del_shares"}, Goto(p, l) PROVE OwnInv'
  <2>1. [job[p] EXCEPT !.pc = l].pc = l
    BY <1>0 DEF Job
  <2> QED BY <1>3, <1>4, <2>1 DEF Goto, SearchPc
<1>5. AfterChunk(job[p]).pc \in {"in_use", "commit"}
  BY <1>0 DEF AfterChunk, Job
<1>6. CASE PurgeStep(p)
  <2>1. CASE ActiveRefcount(p)
    BY <1>1, <1>4, <2>1 DEF ActiveRefcount
  <2>2. CASE DelShares(p)
    <3>1. \A ss : [job[p] EXCEPT !.pc = "del_files", !.txShares = ss].pc = "del_files"
      BY <1>0 DEF Job
    <3> QED BY <1>3, <2>2, <3>1 DEF DelShares, SearchPc
  <2>3. CASE DelFiles(p)
    <3>1. \A ss : [job[p] EXCEPT !.pc = "del_content", !.txFiles = ss].pc = "del_content"
      BY <1>0 DEF Job
    <3> QED BY <1>2, <1>3, <2>3, <3>1 DEF DelFiles, SearchPc
  <2>4. CASE DelContent(p)
    <3>1. [job[p] EXCEPT !.pc = "in_use", !.txContent = TRUE, !.idx = 1].pc = "in_use"
      BY <1>0 DEF Job
    <3> QED BY <1>1, <1>2, <1>3, <2>4, <3>1 DEF DelContent, SearchPc
  <2>5. CASE InUse(p)
    <3>1. [job[p] EXCEPT !.pc = "unlink", !.seen = ContentRows].pc = "unlink"
      BY <1>0 DEF Job
    <3> QED BY <1>3, <1>5, <2>5, <3>1 DEF InUse, SearchPc
  <2>6. CASE Unlink(p)
    <3>1. CASE job' = [q \in Proc |-> IF q = p THEN AfterChunk(job[p]) ELSE Unlinked(CurrentChunk(job[p]), job[q])]
      <4> SUFFICES ASSUME NEW q \in Proc PROVE RowOf(job'[q], crow', chash')
        BY DEF OwnInv
      <4>1. CASE q = p
        BY <1>5, <3>1, <4>1, OwnNone DEF SearchPc
      <4>2. CASE q # p
        <5>1. job'[q] = Unlinked(CurrentChunk(job[p]), job[q]) /\ job[q] \in Job
          BY <3>1, <4>2 DEF TypeInv, TypeOK
        <5>2. job'[q].pc = job[q].pc /\ job'[q].cid = job[q].cid /\ job'[q].hash = job[q].hash
          BY <5>1 DEF Unlinked, Job
        <5> QED BY <5>2, RowOfKept DEF OwnInv
      <4> QED BY <4>1, <4>2
    <3> QED BY <1>2, <2>6, <3>1 DEF Unlink
  <2>7. CASE Commit(p)
    BY <1>1, <1>2, <2>7 DEF Commit
  <2> QED BY <1>6, <2>1, <2>2, <2>3, <2>4, <2>5, <2>6, <2>7 DEF PurgeStep
<1>7. CASE SoftDelete(p) \/ RevokeByFile(p) \/ ShareInsert(p)
  BY <1>1, <1>4, <1>7 DEF SoftDelete, RevokeByFile, ShareInsert
<1>8. CASE TryCollect(p)
  <2>1. \A h : [job[p] EXCEPT !.pc = "count", !.hash = h].pc = "count"
    BY <1>0 DEF Job
  <2> QED BY <1>1, <1>3, <1>8, <2>1 DEF TryCollect, SearchPc
<1>9. CASE ListOrphans(p)
  <2>1. \A ks : [job[p] EXCEPT !.pc = "next", !.queue = ks].pc = "next"
    BY <1>0 DEF Job
  <2> QED BY <1>3, <1>9, <2>1 DEF ListOrphans, SearchPc
<1>10. CASE NextOrphan(p)
  <2>1. \A k, h, ks : [IdleJob EXCEPT !.pc = "count", !.cid = k, !.hash = h, !.queue = ks].pc = "count"
    BY DEF IdleJob
  <2> QED BY <1>1, <1>3, <1>10, <2>1 DEF NextOrphan, SearchPc
<1>11. CASE SaveFind(p)
  <2>1. CASE Become(p, [job[p] EXCEPT !.pc = "link", !.cid = fcid[job[p].file]])
    <3>1. PICK j : j = [job[p] EXCEPT !.pc = "link", !.cid = fcid[job[p].file]]
      OBVIOUS
    <3>2. j.pc = "link" /\ j.hash = job[p].hash
      BY <1>0, <3>1 DEF Job
    <3>3. RowOf(j, crow, chash)
      BY <1>0, <1>11, <3>2 DEF SaveFind, RowOf, SearchPc
    <3> QED BY <2>1, <3>1, <3>3, OwnBecome
  <2> QED BY <1>1, <1>11, <2>1 DEF SaveFind
<1> QED
  BY <1>6, <1>7, <1>8, <1>9, <1>10, <1>11 DEF Step

(* A new request, and the hourly task.                                     *)
LEMMA OwnStart ==
    ASSUME TypeInv, OwnInv, [Next]_vars, NEW p \in Proc, Request(p) \/ Tick(p)
    PROVE  OwnInv'
<1>0. job[p] \in Job
  BY DEF TypeInv, TypeOK
<1>1. CASE Tick(p)
  <2>1. [job[p] EXCEPT !.pc = "list"].pc = "list"
    BY <1>0 DEF Job
  <2>2. RowOf([job[p] EXCEPT !.pc = "list"], crow, chash)
    BY <2>1, OwnNone DEF SearchPc
  <2> QED BY <1>1, <2>2, OwnBecome DEF Tick, Goto
<1>2. ASSUME NEW h, UploadStart(p, h) PROVE OwnInv'
  <2>1. PICK l \in {"find_cached", "find"} : Become(p, [IdleJob EXCEPT !.hash = h, !.pc = l])
    BY <1>2 DEF UploadStart
  <2>2. [IdleJob EXCEPT !.hash = h, !.pc = l].pc = l /\ [IdleJob EXCEPT !.hash = h, !.pc = l].cid = None
    BY DEF IdleJob
  <2>3. RowOf([IdleJob EXCEPT !.hash = h, !.pc = l], crow, chash)
    BY <2>2 DEF RowOf
  <2> QED BY <2>1, <2>3, OwnBecome
<1>3. ASSUME NEW f, DeleteStart(p, f) PROVE OwnInv'
  <2>1. \A k : [IdleJob EXCEPT !.pc = "soft_delete", !.file = f, !.cid = k].pc = "soft_delete"
    BY DEF IdleJob
  <2>2. \A k : RowOf([IdleJob EXCEPT !.pc = "soft_delete", !.file = f, !.cid = k], crow, chash)
    BY <2>1, OwnNone DEF SearchPc
  <2> QED BY <1>3, <2>2, OwnBecome DEF DeleteStart
<1>4. ASSUME NEW f, ShareStart(p, f) PROVE OwnInv'
  <2>1. [IdleJob EXCEPT !.pc = "share_insert", !.file = f].pc = "share_insert"
    BY DEF IdleJob
  <2>2. RowOf([IdleJob EXCEPT !.pc = "share_insert", !.file = f], crow, chash)
    BY <2>1, OwnNone DEF SearchPc
  <2> QED BY <1>4, <2>2, OwnBecome DEF ShareStart
<1>5. ASSUME NEW f, SaveStart(p, f) PROVE OwnInv'
  <2>1. /\ [IdleJob EXCEPT !.pc = "save_find", !.file = f].pc = "save_find"
        /\ [IdleJob EXCEPT !.pc = "save_find", !.file = f].hash = None
    BY DEF IdleJob
  <2>2. RowOf([IdleJob EXCEPT !.pc = "save_find", !.file = f], crow, chash)
    BY <2>1 DEF RowOf, SearchPc
  <2> QED BY <1>5, <2>2, OwnBecome DEF SaveStart
<1>6. ASSUME NEW f, ShareRevoke(p, f) PROVE OwnInv'
  BY <1>6, RowOfKept DEF ShareRevoke, OwnInv
<1> QED
  BY <1>1, <1>2, <1>3, <1>4, <1>5, <1>6 DEF Request

(* Every step keeps OwnInv.                                                *)
LEMMA OwnNext ==
    ASSUME TypeInv, OwnInv, [Next]_vars
    PROVE  OwnInv'
<1>1. CASE UNCHANGED vars
  BY <1>1 DEF vars, dbVars, OwnInv
<1>2. CASE Crash
  BY <1>2, OwnDie DEF Crash
<1>3. ASSUME NEW p \in Proc, Step(p) \/ Request(p) \/ Tick(p) PROVE OwnInv'
  BY <1>3, OwnUpload, OwnOther, OwnStart
<1> QED BY <1>1, <1>2, <1>3 DEF Next

(* A file becomes live only when an upload or a link inserts it, and the   *)
(* step is the inserting thread's own.                                     *)
LEMMA InsertsFile ==
    ASSUME TypeInv, [Next]_vars, NEW f \in FileId, frow[f] = "free", frow'[f] = "live"
    PROVE  \E p \in Proc : /\ InsertLink(p) \/ InsertFile(p)
                           /\ \A q \in Proc : q # p => job'[q] = job[q]
<1>1. ASSUME NEW p \in Proc, InsertLink(p) \/ InsertFile(p)
      PROVE  \A q \in Proc : q # p => job'[q] = job[q]
  BY <1>1 DEF InsertLink, InsertFile, Finish, Goto, Become, TypeInv, TypeOK
<1>2. ASSUME NEW p \in Proc, UploadStep(p), ~InsertLink(p), ~InsertFile(p) PROVE FALSE
  BY <1>2 DEF UploadStep, FindCached, FindContent, PutExists, PutOpen, PutWrite,
              EnsureContent, EnsureRaced, InsertNameTaken, CacheFill, dbVars
<1>3. ASSUME NEW p \in Proc, PurgeStep(p) PROVE FALSE
  BY <1>3 DEF PurgeStep, ActiveRefcount, DelShares, DelFiles, DelContent, InUse, Unlink, Commit, dbVars
<1>4. ASSUME NEW p \in Proc, Step(p), ~UploadStep(p), ~PurgeStep(p) PROVE FALSE
  <2>1. CASE SoftDelete(p)
    BY <2>1 DEF SoftDelete, HasFile, TypeInv, TypeOK
  <2> QED BY <1>4, <2>1 DEF Step, RevokeByFile, TryCollect, ListOrphans, NextOrphan, ShareInsert, SaveFind, dbVars
<1>5. ASSUME NEW p \in Proc, Request(p) \/ Tick(p) PROVE FALSE
  BY <1>5 DEF Request, UploadStart, DeleteStart, ShareStart, ShareRevoke, SaveStart, Tick, dbVars
<1>6. CASE Crash \/ UNCHANGED vars
  BY <1>6 DEF Crash, vars, dbVars
<1> QED
  BY <1>1, <1>2, <1>3, <1>4, <1>5, <1>6 DEF Next

(* UploadsOwnBytes: the file that an upload or an instant upload inserts   *)
(* refers to a content row that exists and has the hash of the bytes the   *)
(* client sent, however the searches for that row, the INSERT ... ON       *)
(* CONFLICT and the purges interleave (ensure_in_txn, insert_link).        *)
THEOREM UploadsOwnBytes == Spec => OwnBytes
<1>1. Init => TypeInv /\ OwnInv
  <2>1. RowOf(IdleJob, crow, chash)
    BY OwnIdle
  <2>2. Init => \A p \in Proc : job[p] = IdleJob
    BY DEF Init
  <2> QED BY <2>1, <2>2, TypeInit DEF OwnInv
<1>2. TypeInv /\ OwnInv /\ [Next]_vars => (TypeInv /\ OwnInv)'
  BY TypeNext, OwnNext
<1>3. TypeInv /\ OwnInv /\ [Next]_vars =>
          [\A p \in Proc, f \in FileId : Uploads(p, f) =>
               fcid'[f] \in ContentRows' /\ chash'[fcid'[f]] = job[p].hash]_vars
  <2> SUFFICES ASSUME TypeInv, OwnInv, [Next]_vars, NEW p \in Proc, NEW f \in FileId, Uploads(p, f)
               PROVE  fcid'[f] \in ContentRows' /\ chash'[fcid'[f]] = job[p].hash
    OBVIOUS
  <2>1. InsertLink(p) \/ InsertFile(p)
    BY InsertsFile DEF Uploads, FreshFile
  <2>2. CASE /\ ReferencesContent(job[p].cid) /\ \E x \in FileId : NewFile(x, job[p].cid)
             /\ UNCHANGED <<crow, chash>>
    <3>1. fcid'[f] = job[p].cid
      BY <2>2 DEF NewFile, Uploads, FreshFile, TypeInv, TypeOK
    <3>2. job[p].cid \in ContentRows /\ job[p].cid # None
      BY <2>2, ContentStoreAssumption DEF ReferencesContent, ContentRows
    <3>3. chash[job[p].cid] = job[p].hash
      BY <3>2 DEF OwnInv, RowOf, Uploads
    <3> QED BY <2>2, <3>1, <3>2, <3>3 DEF ContentRows
  <2>3. CASE \E k \in ContentId, x \in FileId : /\ FreshContent(k) /\ NewFile(x, k)
                                                /\ crow'  = [crow EXCEPT ![k] = "row"]
                                                /\ chash' = [chash EXCEPT ![k] = job[p].hash]
    BY <2>3 DEF NewFile, Uploads, FreshFile, FreshContent, ContentRows, TypeInv, TypeOK
  <2>4. CASE UNCHANGED frow
    BY <2>4 DEF Uploads, FreshFile
  <2> QED BY <2>1, <2>2, <2>3, <2>4 DEF InsertLink, InsertFile
<1> QED
  BY <1>1, <1>2, <1>3, PTL DEF Spec, OwnBytes

===============================================================================
