------------------------- MODULE MultipartUploadProofs -------------------------
(***************************************************************************)
(* Proofs about MultipartUpload, for every number of requests in flight,   *)
(* of parts and of versions of a part.                                     *)
(***************************************************************************)
EXTENDS MultipartUpload, SequenceTheorems, TLAPS

(* A list of part hashes that a session can hold: none, or one per part,   *)
(* each empty or the hash of that part.                                    *)
PartList == [Part -> PartHash \cup {NoHash}]
HashList(l) == l = <<>> \/ (l \in PartList /\ \A i \in Part : l[i] # NoHash => l[i][1] = i)

(* The flags of a session: none, or one per part.                          *)
Flags == [Part -> BOOLEAN]
FlagList(l) == l = <<>> \/ l \in Flags

JobPc == {"idle", "load", "check", "put", "save", "expire", "merge", "insert", "del"}
JobDomain == {"kind", "pc", "at", "s", "hash", "ok"}
GoodJob(j) ==
    /\ DOMAIN j = JobDomain /\ DOMAIN j.s = FieldName
    /\ j.kind \in {"none", "init", "part", "status", "complete", "abort"} /\ j.pc \in JobPc
    /\ j.pc = "idle" <=> j.kind = "none"
    /\ j.at \in Nat /\ (j.pc \in {"load", "save"} => j.at \in 1..5)
    /\ HashList(j.s.part_hashes) /\ FlagList(j.s.uploaded) /\ j.ok \in BOOLEAN
    /\ j.kind = "part" => j.hash \in PartHash
    /\ j.pc = "put" => j.kind = "part"
    /\ j.pc \in {"save", "expire"} => j.kind \in {"init", "part"}
    /\ j.pc \in {"put", "save", "expire"} => j.s.part_hashes \in PartList /\ j.s.uploaded \in Flags
    /\ j.pc \in {"merge", "insert"} => j.kind = "complete"
    /\ j.pc = "del" => j.kind \in Deciding
    /\ j.kind = "init" => j.pc \in {"save", "expire"}
    /\ j.pc = "insert" => ~Unreadable(j.s)
    /\ j.pc # "idle" /\ (j.pc # "load" \/ j.at > 1) => j.s.file_name # None

TypeInv ==
    /\ manner \in {"serial", "patient", "any"}
    /\ known \in BOOLEAN /\ died \in BOOLEAN
    /\ DOMAIN key = FieldName
    /\ key["part_hashes"] = None \/ HashList(key["part_hashes"])
    /\ key["uploaded"] = None \/ FlagList(key["uploaded"])
    /\ job = [r \in Request |-> job[r]] /\ \A r \in Request : GoodJob(job[r])
    /\ files \in Seq(Seq(PartHash))

(* The upload is known once its init has been answered.                    *)
InitInv ==
    /\ known => \A r \in Request : job[r].kind # "init"
    /\ ~known => /\ files = <<>> /\ acked = {}
                 /\ \A r, q \in Request : job[r].pc # "idle" /\ job[q].pc # "idle" => r = q
                 /\ \A r \in Request : job[r].kind \in {"none", "init"}

(* What clients who wait for their answers keep true: the session that a   *)
(* request has found stays until the request ends; and as long as Redis    *)
(* carries out the HSETs of init and the HGETs of complete, the session    *)
(* has a list with a place for every part, and complete has read it.       *)
There == key["file_name"] # None
FullKey == key["part_hashes"] \in PartList

Clean == {<<"hget", "complete">>, <<"hset", "init">>} \cap failed = {}
DelSure == <<"del", "complete">> \notin failed

PatientJob(j) == j.kind \notin {"none", "init"} /\ (j.pc # "load" \/ j.at > 1) => There
CleanJob(j) ==
    /\ j.kind = "init" /\ (j.pc = "expire" \/ j.at > 4) => FullKey
    /\ j.kind = "complete" /\ (j.pc # "load" \/ j.at > 4) => j.s.part_hashes \in PartList

Alone == \A r, q \in Request : job[r].kind \in Deciding /\ job[q].pc # "idle" => r = q

OneFile ==
    ~died /\ DelSure =>
        /\ Len(files) <= 1
        /\ files # <<>> => ~There \/ \E r \in Request : job[r].pc = "del" /\ job[r].kind = "complete"

CleanInv ==
    Clean => /\ known /\ There => FullKey
             /\ \A r \in Request : CleanJob(job[r])
             /\ \A n \in DOMAIN files : Len(files[n]) = ChunkCount

PatientInv ==
    manner # "any" => (\A r \in Request : PatientJob(job[r])) /\ Alone /\ OneFile /\ CleanInv

(* And those who send one request at a time.                               *)
Sure == {p \in Part : <<p, TRUE>> \in acked}

AckedJob(j) ==
    /\ j.kind = "part" /\ ((j.pc = "load" /\ j.at > 4) \/ j.pc \in {"check", "put", "save", "expire"}) =>
          j.s.part_hashes = <<>> \/ \A p \in Sure : j.s.part_hashes[p] # NoHash
    /\ j.kind = "part" /\ j.pc \in {"check", "put", "save", "expire"} =>
          j.s.uploaded = <<>> \/ \A p \in Sure : j.s.uploaded[p] = TRUE
    /\ j.kind = "part" /\ j.pc \in {"save", "expire"} =>
          j.s.part_hashes[j.hash[1]] # NoHash /\ j.s.uploaded[j.hash[1]] = TRUE
    /\ j.kind = "part" /\ j.ok = TRUE /\ (j.pc = "expire" \/ (j.pc = "save" /\ j.at > 4)) =>
          key["part_hashes"] = j.s.part_hashes
    /\ j.kind = "part" /\ j.ok = TRUE /\ j.pc = "expire" => key["uploaded"] = j.s.uploaded

KeptIn(k, p) ==
    /\ k["part_hashes"] \in PartList /\ k["part_hashes"][p] # NoHash
    /\ k["uploaded"] \in Flags /\ k["uploaded"][p] = TRUE

SerialInv ==
    manner = "serial" =>
        /\ \A r, q \in Request : job[r].pc # "idle" /\ job[q].pc # "idle" => r = q
        /\ acked \subseteq Part \X BOOLEAN
        /\ \A p \in Sure : KeptIn(key, p)
        /\ \A r \in Request : AckedJob(job[r])

Inv == TypeInv /\ InitInv /\ PatientInv /\ SerialInv /\ WholeOrEmpty

-------------------------------------------------------------------------------
(* The session has five fields, in this order.                             *)
LEMMA Fields ==
    /\ FieldName = {"file_name", "user_id", "chunk_count", "part_hashes", "uploaded"}
    /\ Len(Field) = 5
    /\ \A i \in 1..5 : /\ Field[i] \in FieldName /\ (Field[i] = "part_hashes" <=> i = 4)
                       /\ (Field[i] = "uploaded" <=> i = 5) /\ (Field[i] = "file_name" <=> i = 1)
BY DEF FieldName, Field

(* The hash of a part names the part, and is not empty.                    *)
LEMMA PartHashes ==
    /\ NoHash \notin PartHash
    /\ \A h \in PartHash : h[1] \in Part
BY DEF NoHash, PartHash

(* A list with a hash for every part is a sequence of that length.         *)
LEMMA WholeList ==
    ASSUME NEW l \in [Part -> PartHash]
    PROVE  l \in Seq(PartHash) /\ Len(l) = ChunkCount /\ DOMAIN l = Part
BY MultipartAssumption DEF Part

(* A new session holds an empty hash and no flag for every part.           *)
LEMMA NewList ==
    /\ HashList(NewSession.part_hashes) /\ NewSession.part_hashes \in PartList
    /\ FlagList(NewSession.uploaded) /\ NewSession.uploaded \in Flags
    /\ HashList(Default.part_hashes) /\ Default.part_hashes = <<>>
    /\ FlagList(Default.uploaded) /\ Default.uploaded = <<>>
    /\ DOMAIN NewSession = FieldName /\ DOMAIN Default = FieldName
    /\ NewSession.file_name # None
<1>1. DOMAIN NewSession = FieldName /\ DOMAIN Default = FieldName
  BY Fields DEF NewSession, Default
<1>2. /\ NewSession.part_hashes = [p \in Part |-> NoHash] /\ NewSession.uploaded = [p \in Part |-> FALSE]
      /\ NewSession.file_name = "name"
  BY DEF NewSession
<1>3. NewSession.part_hashes \in PartList /\ HashList(NewSession.part_hashes)
  BY <1>2 DEF PartList, HashList
<1>4. NewSession.uploaded \in Flags /\ FlagList(NewSession.uploaded)
  BY <1>2 DEF Flags, FlagList
<1>5. /\ HashList(Default.part_hashes) /\ Default.part_hashes = <<>>
      /\ FlagList(Default.uploaded) /\ Default.uploaded = <<>>
  BY DEF Default, HashList, FlagList
<1> QED
  BY <1>1, <1>2, <1>3, <1>4, <1>5, NilAssumption

(* The idle job and the job of handle_init are good.                       *)
LEMMA FirstJobs ==
    /\ GoodJob(IdleJob) /\ IdleJob.pc = "idle" /\ IdleJob.kind = "none"
    /\ GoodJob(InitJob) /\ InitJob.pc = "save" /\ InitJob.kind = "init" /\ InitJob.at = 1
<1>1. GoodJob(IdleJob) /\ IdleJob.pc = "idle" /\ IdleJob.kind = "none"
  BY NewList DEF GoodJob, IdleJob, JobPc, JobDomain
<1>2. /\ DOMAIN InitJob = JobDomain /\ InitJob.kind = "init"
      /\ InitJob.pc = "save" /\ InitJob.at = 1 /\ InitJob.s = NewSession /\ InitJob.ok \in BOOLEAN
  BY DEF InitJob, IdleJob, JobDomain
<1>3. GoodJob(InitJob)
  BY <1>2, NewList DEF GoodJob, JobPc
<1> QED
  BY <1>1, <1>2, <1>3

(* No list of part hashes, and no list of flags, is empty.                 *)
LEMMA NotEmpty == <<>> \notin PartList /\ <<>> \notin Flags /\ None \notin PartList /\ None \notin Flags
BY MultipartAssumption, NilAssumption DEF PartList, Flags, Part

(* What has failed stays on the record.                                    *)
LEMMA Recorded ==
    ASSUME failed \subseteq failed'
    PROVE  (Clean' => Clean) /\ (DelSure' => DelSure)
BY DEF Clean, DelSure

(* One thread moves on.                                                    *)
LEMMA Moved ==
    ASSUME TypeInv, NEW r \in Request, NEW j, Become(r, j), GoodJob(j)
    PROVE  /\ \A q \in Request : job'[q] = IF q = r THEN j ELSE job[q]
           /\ (job = [q \in Request |-> job[q]])' /\ \A q \in Request : GoodJob(job'[q])
<1>1. job = [q \in Request |-> job[q]] /\ job' = [job EXCEPT ![r] = j]
  BY DEF TypeInv, Become
<1>2. \A q \in Request : job'[q] = IF q = r THEN j ELSE job[q]
  BY <1>1
<1>3. job' = [q \in Request |-> job'[q]]
  BY <1>1
<1> QED
  BY <1>2, <1>3 DEF TypeInv

(* A request goes on, or ends, and changes only its own variables.         *)
LEMMA QuietStep ==
    ASSUME Inv, NEW r \in Request, NEW j, Become(r, j), GoodJob(j),
           UNCHANGED <<manner, key, known, files, acked, died>>, failed \subseteq failed',
           j.kind \in {job[r].kind, "none"}, job[r].pc # "idle",
           (job[r].pc = "del" /\ job[r].kind = "complete" /\ j.pc # "del") => ~DelSure',
           manner # "any" => PatientJob(j), manner # "any" /\ Clean' => CleanJob(j),
           manner = "serial" => AckedJob(j)
    PROVE  Inv'
<1>1. /\ \A q \in Request : job'[q] = IF q = r THEN j ELSE job[q]
      /\ (job = [q \in Request |-> job[q]])' /\ \A q \in Request : GoodJob(job'[q])
  BY Moved DEF Inv
<1>2. TypeInv'
  BY <1>1 DEF Inv, TypeInv, GoodJob
<1>3. \A q \in Request :
         /\ job'[q].pc # "idle" => job[q].pc # "idle"
         /\ job'[q].kind \in {job[q].kind, "none"}
  BY <1>1 DEF Inv, TypeInv, GoodJob
<1>4. InitInv'
  <2>1. /\ \A q \in Request : job[q].kind # "init" => job'[q].kind # "init"
        /\ \A q \in Request : job[q].kind \in {"none", "init"} => job'[q].kind \in {"none", "init"}
    BY <1>3
  <2>2. CASE known
    BY <2>1, <2>2 DEF Inv, InitInv
  <2>3. CASE ~known
    BY <1>3, <2>1, <2>3 DEF Inv, InitInv
  <2> QED BY <2>2, <2>3
<1>5. PatientInv'
  <2> SUFFICES ASSUME manner # "any"
               PROVE  /\ \A q \in Request : PatientJob(job[q])'
                      /\ Alone' /\ OneFile' /\ CleanInv'
    BY DEF PatientInv
  <2>1. \A q \in Request : PatientJob(job[q])'
    BY <1>1 DEF Inv, PatientInv, PatientJob, There
  <2>2. Alone'
    <3>1. \A q \in Request : job'[q].kind \in Deciding => job[q].kind \in Deciding
      BY <1>3 DEF Deciding
    <3>2. Alone
      BY DEF Inv, PatientInv
    <3> QED BY <1>3, <3>1, <3>2 DEF Alone
  <2>3. OneFile'
    <3> SUFFICES ASSUME ~died, DelSure'
                 PROVE  /\ Len(files) <= 1
                        /\ files # <<>> => ~There \/ \E q \in Request : job'[q].pc = "del" /\ job'[q].kind = "complete"
      BY DEF OneFile, There
    <3>1. OneFile /\ DelSure
      BY Recorded DEF Inv, PatientInv
    <3>2. \A q \in Request : job[q].pc = "del" /\ job[q].kind = "complete" =>
             job'[q].pc = "del" /\ job'[q].kind = "complete"
      BY <1>1 DEF GoodJob
    <3> QED BY <3>1, <3>2 DEF OneFile
  <2>4. CleanInv'
    <3> SUFFICES ASSUME Clean' PROVE CleanInv'
      BY DEF CleanInv
    <3>1. Clean /\ CleanInv
      BY Recorded DEF Inv, PatientInv
    <3>2. \A q \in Request : CleanJob(job[q])'
      BY <1>1, <3>1 DEF CleanInv, CleanJob, FullKey
    <3> QED BY <3>1, <3>2 DEF CleanInv, There, FullKey
  <2> QED BY <2>1, <2>2, <2>3, <2>4
<1>6. SerialInv'
  <2> SUFFICES ASSUME manner = "serial" PROVE SerialInv'
    BY DEF SerialInv
  <2>0. UNCHANGED Sure
    BY DEF Sure
  <2>1. \A q \in Request : AckedJob(job[q])'
    BY <1>1, <2>0 DEF Inv, SerialInv, AckedJob
  <2>2. \A p, q \in Request : job'[p].pc # "idle" /\ job'[q].pc # "idle" => p = q
    BY <1>3 DEF Inv, SerialInv
  <2>3. acked \subseteq Part \X BOOLEAN /\ \A p \in Sure : KeptIn(key, p)
    BY DEF Inv, SerialInv
  <2> QED BY <2>0, <2>1, <2>2, <2>3 DEF SerialInv
<1> QED
  BY <1>2, <1>4, <1>5, <1>6 DEF Inv, WholeOrEmpty

(* A request that ends relies on nothing any more.                         *)
LEMMA RestJob == PatientJob(IdleJob) /\ CleanJob(IdleJob) /\ AckedJob(IdleJob)
BY FirstJobs DEF PatientJob, CleanJob, AckedJob

(* A request ends and changes nothing else.                                *)
LEMMA QuietFinish ==
    ASSUME Inv, NEW r \in Request, Finish(r), UNCHANGED <<manner, key, known, files, acked, died>>,
           failed \subseteq failed', job[r].pc # "idle",
           job[r].pc = "del" /\ job[r].kind = "complete" => ~DelSure'
    PROVE  Inv'
BY QuietStep, RestJob, FirstJobs DEF Finish

(* The process dies. *)
LEMMA DieStep ==
    ASSUME Inv, Die, UNCHANGED <<manner, key, known, files, acked, failed>>
    PROVE  Inv'
<1>1. /\ \A q \in Request : job'[q] = IdleJob
      /\ job' = [q \in Request |-> job'[q]] /\ died' = TRUE
  BY DEF Die
<1>2. TypeInv'
  <2>1. \A q \in Request : GoodJob(job'[q])
    BY <1>1, FirstJobs
  <2> QED BY <1>1, <2>1 DEF Inv, TypeInv, GoodJob
<1>3. InitInv'
  BY <1>1, FirstJobs DEF Inv, InitInv
<1>4. PatientInv'
  <2>1. \A q \in Request : PatientJob(job[q])' /\ CleanJob(job[q])'
    BY <1>1, FirstJobs DEF PatientJob, CleanJob
  <2>2. Alone' /\ OneFile'
    BY <1>1, FirstJobs DEF Alone, OneFile, Deciding
  <2>3. manner # "any" => CleanInv'
    BY <2>1 DEF Inv, PatientInv, CleanInv, Clean, There, FullKey
  <2> QED BY <2>1, <2>2, <2>3 DEF PatientInv
<1>5. SerialInv'
  BY <1>1, FirstJobs DEF Inv, SerialInv, AckedJob, Sure
<1> QED
  BY <1>2, <1>3, <1>4, <1>5 DEF Inv, WholeOrEmpty

(* A request that is under way works on an upload that is known, and a     *)
(* patient client's session is there.                                      *)
LEMMA UnderWay ==
    ASSUME Inv, NEW r \in Request, job[r].pc # "idle", job[r].kind # "init"
    PROVE  /\ known
           /\ manner # "any" /\ (job[r].pc # "load" \/ job[r].at > 1) => There
           /\ manner # "any" /\ There /\ Clean => FullKey
<1>1. job[r].kind \notin {"none", "init"}
  BY DEF Inv, TypeInv, GoodJob
<1>2. known
  BY <1>1 DEF Inv, InitInv, TypeInv
<1>3. manner # "any" => PatientJob(job[r]) /\ CleanInv
  BY DEF Inv, PatientInv
<1> QED
  BY <1>1, <1>2, <1>3 DEF PatientJob, CleanInv

(* load_from_redis reads one field, or fails to.                           *)
LEMMA LoadStep ==
    ASSUME Inv, NEW r \in Request, Load(r)
    PROVE  Inv'
<1> DEFINE f == Field[job[r].at]
           n(v) == [job[r] EXCEPT !.s[f] = Loaded(f, v), !.at = @ + 1,
                                  !.pc = IF job[r].at = Len(Field) THEN "check" ELSE "load"]
<1>1. /\ GoodJob(job[r]) /\ job[r].pc = "load" /\ job[r].at \in 1..5 /\ job[r].kind \notin {"none", "init"}
      /\ UNCHANGED <<manner, key, known, files, acked, died>>
  BY DEF Load, Inv, TypeInv, GoodJob
<1>2. PICK v \in {key[f], None} :
         /\ (v = key[f] /\ UNCHANGED failed) \/ (v = None /\ Fails(r, "hget"))
         /\ IF f = "file_name" /\ v = None THEN Finish(r) ELSE Become(r, n(v))
  BY DEF Load
<1>3. failed \subseteq failed' /\ (job[r].kind = "complete" /\ Clean' => v = key[f])
  BY <1>2 DEF Fails, Telling, Clean
<1>4. CASE f = "file_name" /\ v = None
  BY <1>1, <1>2, <1>3, <1>4, QuietFinish
<1>5. CASE ~(f = "file_name" /\ v = None)
  <2>1. /\ f \in FieldName /\ (f = "part_hashes" <=> job[r].at = 4) /\ (f = "uploaded" <=> job[r].at = 5)
        /\ (f = "file_name" <=> job[r].at = 1) /\ Len(Field) = 5
    BY <1>1, Fields
  <2>2. PICK j : j = n(v)
    OBVIOUS
  <2>3. /\ DOMAIN j = JobDomain /\ j.kind = job[r].kind /\ j.hash = job[r].hash
        /\ j.at = job[r].at + 1 /\ j.ok = job[r].ok /\ j.pc = (IF job[r].at = 5 THEN "check" ELSE "load")
        /\ j.s = [job[r].s EXCEPT ![f] = Loaded(f, v)]
    BY <1>1, <2>1, <2>2 DEF GoodJob, JobDomain
  <2>4. Become(r, j)
    BY <1>2, <1>5, <2>2
  <2> HIDE DEF n
  <2>5. /\ DOMAIN j.s = FieldName
        /\ j.s.part_hashes = IF job[r].at = 4 THEN Loaded(f, v) ELSE job[r].s.part_hashes
        /\ j.s.uploaded = IF job[r].at = 5 THEN Loaded(f, v) ELSE job[r].s.uploaded
        /\ j.s.file_name = IF job[r].at = 1 THEN Loaded(f, v) ELSE job[r].s.file_name
    BY <1>1, <2>1, <2>3, Fields DEF GoodJob
  <2>6. job[r].at = 4 => /\ HashList(Loaded(f, v))
                         /\ Loaded(f, v) = <<>> \/ Loaded(f, v) = key["part_hashes"]
                         /\ v = key[f] /\ FullKey => Loaded(f, v) = key["part_hashes"]
    BY <2>1, NewList, NotEmpty DEF Loaded, Inv, TypeInv, FullKey
  <2>7. job[r].at = 5 => /\ FlagList(Loaded(f, v))
                         /\ Loaded(f, v) = <<>> \/ Loaded(f, v) = key["uploaded"]
    BY <2>1, NewList DEF Loaded, Inv, TypeInv
  <2>8. j.s.file_name # None
    <3>1. CASE job[r].at = 1
      BY <1>5, <2>1, <2>5, <3>1 DEF Loaded
    <3>2. CASE job[r].at > 1
      BY <1>1, <2>5, <3>2 DEF GoodJob
    <3> QED BY <1>1, <3>1, <3>2
  <2>9. GoodJob(j)
    <3>1. HashList(j.s.part_hashes)
      BY <1>1, <2>5, <2>6 DEF GoodJob
    <3>2. FlagList(j.s.uploaded)
      BY <1>1, <2>5, <2>7 DEF GoodJob
    <3>3. j.pc \in {"check", "load"} /\ j.at \in Nat /\ (j.pc = "load" => j.at \in 1..5)
      BY <1>1, <2>3
    <3> QED BY <1>1, <2>3, <2>5, <2>8, <3>1, <3>2, <3>3 DEF GoodJob, JobPc
  <2>10. manner # "any" => There
    <3>1. CASE job[r].at > 1
      BY <1>1, <3>1, UnderWay
    <3>2. CASE job[r].at = 1
      BY <1>2, <1>5, <2>1, <3>2 DEF There
    <3> QED BY <1>1, <3>1, <3>2
  <2>11. manner # "any" => PatientJob(j)
    BY <2>10 DEF PatientJob
  <2>12. ASSUME manner # "any", Clean' PROVE CleanJob(j)
    <3> SUFFICES ASSUME j.kind = "complete", j.pc # "load" \/ j.at > 4 PROVE j.s.part_hashes \in PartList
      BY <1>1, <2>3 DEF CleanJob
    <3>1. CASE job[r].at = 4
      <4>1. FullKey
        BY <1>1, <1>3, <2>10, <2>12, UnderWay, Recorded
      <4> QED BY <1>3, <2>3, <2>5, <2>6, <2>12, <3>1, <4>1 DEF FullKey
    <3>2. CASE job[r].at = 5
      <4>1. CleanJob(job[r])
        BY <1>3, <2>12, Recorded DEF Inv, PatientInv, CleanInv
      <4> QED BY <1>1, <2>3, <2>5, <3>2, <4>1 DEF CleanJob
    <3>3. CASE job[r].at < 4
      BY <1>1, <2>3, <3>3
    <3> QED BY <1>1, <3>1, <3>2, <3>3
  <2>13. ASSUME manner = "serial" PROVE AckedJob(j)
    <3>0. AckedJob(job[r]) /\ \A p \in Sure : KeptIn(key, p)
      BY <2>13 DEF Inv, SerialInv
    <3>1. ASSUME j.kind = "part", j.pc = "check" \/ j.at > 4
          PROVE  j.s.part_hashes = <<>> \/ \A p \in Sure : j.s.part_hashes[p] # NoHash
      <4>1. CASE job[r].at = 4
        BY <2>5, <2>6, <3>0, <4>1 DEF KeptIn
      <4>2. CASE job[r].at = 5
        BY <1>1, <2>3, <2>5, <3>0, <3>1, <4>2 DEF AckedJob
      <4>3. CASE job[r].at < 4
        BY <1>1, <2>3, <3>1, <4>3
      <4> QED BY <1>1, <4>1, <4>2, <4>3
    <3>2. ASSUME j.pc = "check" PROVE j.s.uploaded = <<>> \/ \A p \in Sure : j.s.uploaded[p] = TRUE
      <4>1. job[r].at = 5
        BY <2>3, <3>2
      <4> QED BY <2>5, <2>7, <3>0, <4>1 DEF KeptIn
    <3> QED BY <1>1, <2>3, <3>1, <3>2 DEF AckedJob
  <2> QED BY <1>1, <1>3, <2>3, <2>4, <2>9, <2>11, <2>12, <2>13, QuietStep
<1> QED
  BY <1>4, <1>5

(* The request is refused, kills the process or goes on.                   *)
LEMMA CheckStep ==
    ASSUME Inv, NEW r \in Request, Check(r)
    PROVE  Inv'
<1>1. /\ GoodJob(job[r]) /\ job[r].pc = "check" /\ job[r].kind \notin {"none", "init"}
      /\ UNCHANGED <<manner, key, known, files, acked, failed>>
  BY DEF Check, Inv, TypeInv, GoodJob
<1>2. CASE Finish(r) /\ UNCHANGED died
  BY <1>1, <1>2, QuietFinish
<1>3. CASE Die
  BY <1>1, <1>3, DieStep
<1>4. CASE /\ Become(r, [job[r] EXCEPT !.pc = After[job[r].kind]]) /\ UNCHANGED died
           /\ job[r].kind # "status" /\ ~OutOfRange(job[r])
  <2> DEFINE n == [job[r] EXCEPT !.pc = After[job[r].kind]]
  <2>1. /\ DOMAIN n = JobDomain /\ n.kind = job[r].kind /\ n.hash = job[r].hash
        /\ n.at = job[r].at /\ n.ok = job[r].ok /\ n.pc = After[job[r].kind] /\ n.s = job[r].s
    BY <1>1 DEF GoodJob, JobDomain
  <2>2. Become(r, n)
    BY <1>4
  <2> HIDE DEF n
  <2>3. \/ n.kind = "part" /\ n.pc = "put"
        \/ n.kind = "complete" /\ n.pc = "merge"
        \/ n.kind = "abort" /\ n.pc = "del"
    BY <1>1, <1>4, <2>1 DEF GoodJob, After
  <2>4. n.kind = "part" => n.s.part_hashes \in PartList /\ n.s.uploaded \in Flags
    BY <1>1, <1>4, <2>1 DEF OutOfRange, GoodJob, HashList, FlagList
  <2>5. GoodJob(n)
    BY <1>1, <2>1, <2>3, <2>4 DEF GoodJob, JobPc, Deciding
  <2>6. manner # "any" => PatientJob(n)
    BY <1>1, <2>1, <2>3, UnderWay DEF PatientJob
  <2>7. manner # "any" /\ Clean' => CleanJob(n)
    <3>1. manner # "any" /\ Clean' => CleanJob(job[r])
      BY <1>1 DEF Inv, PatientInv, CleanInv, Clean
    <3> QED BY <1>1, <2>1, <2>3, <3>1 DEF CleanJob
  <2>8. manner = "serial" => AckedJob(n)
    BY <1>1, <2>1, <2>3 DEF AckedJob, Inv, SerialInv
  <2> QED BY <1>1, <1>4, <2>1, <2>2, <2>5, <2>6, <2>7, <2>8, QuietStep
<1> QED
  BY <1>2, <1>3, <1>4 DEF Check

(* The part is marked in the local session.                                *)
LEMMA PutStep ==
    ASSUME Inv, NEW r \in Request, Put(r)
    PROVE  Inv'
<1>1. /\ GoodJob(job[r]) /\ job[r].pc = "put" /\ job[r].kind = "part" /\ job[r].hash \in PartHash
      /\ UNCHANGED <<manner, key, known, files, acked, failed, died>>
  BY DEF Put, Inv, TypeInv, GoodJob
<1> DEFINE h == job[r].hash
           n == [job[r] EXCEPT !.pc = "save", !.at = 1, !.s = Marked(@, h)]
<1>2. Become(r, n)
  BY DEF Put
<1>3. /\ DOMAIN n = JobDomain /\ n.kind = "part" /\ n.hash = h
      /\ n.at = 1 /\ n.ok = job[r].ok /\ n.pc = "save" /\ n.s = Marked(job[r].s, h)
  BY <1>1 DEF GoodJob, JobDomain
<1>4. /\ DOMAIN n.s = FieldName
      /\ n.s.part_hashes = [job[r].s.part_hashes EXCEPT ![h[1]] = h]
      /\ n.s.uploaded = [job[r].s.uploaded EXCEPT ![h[1]] = TRUE]
      /\ n.s.file_name = job[r].s.file_name
  <2> HIDE DEF n
  <2>1. /\ DOMAIN job[r].s = FieldName
        /\ n.s = [job[r].s EXCEPT !.part_hashes = [@ EXCEPT ![h[1]] = h], !.uploaded = [@ EXCEPT ![h[1]] = TRUE]]
    BY <1>1, <1>3 DEF GoodJob, Marked
  <2> QED BY <2>1, Fields
<1> HIDE DEF n
<1>5. h[1] \in Part /\ h # NoHash /\ HashList(job[r].s.part_hashes)
  BY <1>1, PartHashes DEF GoodJob
<1>6. /\ job[r].s.part_hashes \in PartList /\ job[r].s.uploaded \in Flags
      /\ \A i \in Part : job[r].s.part_hashes[i] # NoHash => job[r].s.part_hashes[i][1] = i
  BY <1>1, <1>5, NotEmpty DEF GoodJob, HashList
<1>7. /\ n.s.part_hashes \in PartList
      /\ \A i \in Part : n.s.part_hashes[i] = IF i = h[1] THEN h ELSE job[r].s.part_hashes[i]
  BY <1>1, <1>4, <1>5, <1>6 DEF PartList
<1>8. /\ n.s.uploaded \in Flags /\ n.s.uploaded[h[1]] = TRUE
      /\ \A i \in Part : i # h[1] => n.s.uploaded[i] = job[r].s.uploaded[i]
  BY <1>4, <1>5, <1>6 DEF Flags
<1>9. GoodJob(n)
  <2>1. HashList(n.s.part_hashes) /\ FlagList(n.s.uploaded)
    BY <1>6, <1>7, <1>8 DEF HashList, FlagList
  <2>2. job[r].s.file_name # None
    BY <1>1 DEF GoodJob
  <2> QED BY <1>1, <1>3, <1>4, <1>7, <1>8, <2>1, <2>2 DEF GoodJob, JobPc
<1>10. (manner # "any" => PatientJob(n)) /\ CleanJob(n)
  BY <1>1, <1>3, UnderWay DEF PatientJob, CleanJob
<1>11. ASSUME manner = "serial" PROVE AckedJob(n)
  <2>1. AckedJob(job[r]) /\ Sure \subseteq Part
    BY <1>11 DEF Inv, SerialInv, Sure
  <2>2. \A q \in Sure : n.s.part_hashes[q] # NoHash
    BY <1>1, <1>5, <1>6, <1>7, <2>1, NotEmpty DEF AckedJob
  <2>3. \A q \in Sure : n.s.uploaded[q] = TRUE
    BY <1>1, <1>6, <1>8, <2>1, NotEmpty DEF AckedJob
  <2>4. n.s.part_hashes[n.hash[1]] # NoHash /\ n.s.uploaded[n.hash[1]] = TRUE
    BY <1>3, <1>5, <1>7, <1>8
  <2> QED BY <1>3, <2>2, <2>3, <2>4 DEF AckedJob
<1> QED
  BY <1>1, <1>2, <1>3, <1>9, <1>10, <1>11, QuietStep

(* handle_complete has all the parts, or ends.                             *)
LEMMA MergeStep ==
    ASSUME Inv, NEW r \in Request, Merge(r)
    PROVE  Inv'
<1>1. /\ GoodJob(job[r]) /\ job[r].pc = "merge" /\ job[r].kind = "complete"
      /\ UNCHANGED <<manner, key, known, files, acked, failed, died>>
  BY DEF Merge, Inv, TypeInv, GoodJob
<1>2. CASE Unreadable(job[r].s)
  BY <1>1, <1>2, QuietFinish DEF Merge
<1>3. CASE ~Unreadable(job[r].s)
  <2> DEFINE n == [job[r] EXCEPT !.pc = "insert"]
  <2>1. /\ DOMAIN n = JobDomain /\ n.kind = job[r].kind /\ n.hash = job[r].hash
        /\ n.at = job[r].at /\ n.ok = job[r].ok /\ n.pc = "insert" /\ n.s = job[r].s /\ Become(r, n)
    BY <1>1, <1>3 DEF GoodJob, JobDomain, Merge
  <2> HIDE DEF n
  <2>2. GoodJob(n)
    BY <1>1, <1>3, <2>1 DEF GoodJob, JobPc
  <2>3. manner # "any" => PatientJob(n)
    BY <1>1, <2>1, UnderWay DEF PatientJob
  <2>4. manner # "any" /\ Clean' => CleanJob(n)
    <3>1. manner # "any" /\ Clean' => CleanJob(job[r])
      BY <1>1 DEF Inv, PatientInv, CleanInv, Clean
    <3> QED BY <1>1, <2>1, <3>1 DEF CleanJob
  <2>5. AckedJob(n)
    BY <1>1, <2>1 DEF AckedJob
  <2> QED BY <1>1, <2>1, <2>2, <2>3, <2>4, <2>5, QuietStep
<1> QED
  BY <1>2, <1>3

(* save_to_redis writes one field, or fails to.                            *)
LEMMA SaveStep ==
    ASSUME Inv, NEW r \in Request, Save(r)
    PROVE  Inv'
<1> DEFINE f == Field[job[r].at]
<1>1. /\ GoodJob(job[r]) /\ job[r].pc = "save" /\ job[r].at \in 1..5 /\ job[r].kind \in {"init", "part"}
      /\ UNCHANGED <<manner, known, files, acked, died>> /\ DOMAIN key = FieldName
      /\ job[r].s.part_hashes \in PartList /\ job[r].s.uploaded \in Flags /\ job[r].s.file_name # None
  BY DEF Save, Inv, TypeInv, GoodJob
<1>2. /\ f \in FieldName /\ (f = "part_hashes" <=> job[r].at = 4) /\ (f = "uploaded" <=> job[r].at = 5)
      /\ (f = "file_name" <=> job[r].at = 1) /\ Len(Field) = 5
  BY <1>1, Fields
<1>3. PICK ok \in BOOLEAN :
         /\ IF ok THEN key' = [key EXCEPT ![f] = job[r].s[f]] /\ UNCHANGED failed
                  ELSE Fails(r, "hset") /\ UNCHANGED key
         /\ Become(r, [job[r] EXCEPT !.at = @ + 1, !.ok = @ /\ ok,
                                     !.pc = IF job[r].at = Len(Field) THEN "expire" ELSE "save"])
  BY DEF Save, Saved
<1>4. PICK n : n = [job[r] EXCEPT !.at = @ + 1, !.ok = @ /\ ok,
                                  !.pc = IF job[r].at = Len(Field) THEN "expire" ELSE "save"]
  OBVIOUS
<1>5. /\ DOMAIN n = JobDomain /\ n.kind = job[r].kind /\ n.hash = job[r].hash
      /\ n.at = job[r].at + 1 /\ n.pc = (IF job[r].at = 5 THEN "expire" ELSE "save") /\ n.s = job[r].s
      /\ n.ok = (job[r].ok /\ ok) /\ Become(r, n)
  BY <1>1, <1>2, <1>3, <1>4 DEF GoodJob, JobDomain
<1>6. /\ failed \subseteq failed'
      /\ ~ok => UNCHANGED key /\ (job[r].kind = "init" => ~Clean')
  BY <1>3 DEF Fails, Telling, Clean
<1>7. ok => /\ key'["part_hashes"] = IF job[r].at = 4 THEN job[r].s.part_hashes ELSE key["part_hashes"]
            /\ key'["uploaded"] = IF job[r].at = 5 THEN job[r].s.uploaded ELSE key["uploaded"]
            /\ key'["file_name"] = IF job[r].at = 1 THEN job[r].s.file_name ELSE key["file_name"]
  BY <1>1, <1>2, <1>3, Fields
<1>8. /\ DOMAIN key' = FieldName
      /\ key'["part_hashes"] = key["part_hashes"] \/ key'["part_hashes"] = job[r].s.part_hashes
      /\ key'["uploaded"] = key["uploaded"] \/ key'["uploaded"] = job[r].s.uploaded
      /\ There => There'
      /\ FullKey => FullKey'
  <2>1. DOMAIN key' = FieldName
    BY <1>1, <1>3
  <2> QED BY <1>1, <1>6, <1>7, <2>1 DEF There, FullKey
<1>9. GoodJob(n)
  <2>1. n.pc \in {"expire", "save"} /\ n.at \in Nat /\ (n.pc = "save" => n.at \in 1..5)
    BY <1>1, <1>5
  <2> QED BY <1>1, <1>5, <2>1 DEF GoodJob, JobPc
<1>10. /\ \A q \in Request : job'[q] = IF q = r THEN n ELSE job[q]
       /\ (job = [q \in Request |-> job[q]])' /\ \A q \in Request : GoodJob(job'[q])
  BY <1>5, <1>9, Moved DEF Inv
<1>11. TypeInv'
  <2>1. /\ key'["part_hashes"] = None \/ HashList(key'["part_hashes"])
        /\ key'["uploaded"] = None \/ FlagList(key'["uploaded"])
    BY <1>1, <1>8 DEF Inv, TypeInv, GoodJob
  <2> QED BY <1>1, <1>8, <1>10, <2>1 DEF Inv, TypeInv, GoodJob
<1>12. \A q \in Request :
         /\ (job'[q].pc = "idle" <=> job[q].pc = "idle") /\ job'[q].kind = job[q].kind
         /\ (job'[q].pc = "del" <=> job[q].pc = "del")
  BY <1>1, <1>5, <1>10
<1>13. InitInv'
  <2>1. CASE known
    BY <1>1, <1>12, <2>1 DEF Inv, InitInv
  <2>2. CASE ~known
    BY <1>1, <1>12, <2>2 DEF Inv, InitInv
  <2> QED BY <2>1, <2>2
<1>14. ASSUME manner # "any" PROVE PatientInv'
  <2>1. job[r].kind = "part" => known /\ There /\ There'
    BY <1>1, <1>8, <1>14, UnderWay
  <2>2. ASSUME NEW q \in Request PROVE PatientJob(job[q])'
    <3>1. CASE q = r
      BY <1>1, <1>5, <1>10, <2>1, <3>1 DEF PatientJob
    <3>2. CASE q # r
      <4>1. job'[q] = job[q] /\ PatientJob(job[q])
        BY <1>10, <1>14, <3>2 DEF Inv, PatientInv
      <4> QED BY <1>8, <4>1 DEF PatientJob
    <3> QED BY <3>1, <3>2
  <2>3. Alone'
    <3>1. Alone
      BY <1>14 DEF Inv, PatientInv
    <3> QED BY <1>12, <3>1 DEF Alone
  <2>4. OneFile'
    <3>1. OneFile /\ Alone
      BY <1>14 DEF Inv, PatientInv
    <3>2. ASSUME files # <<>>, ~died, DelSure' PROVE FALSE
      <4>1. known /\ DelSure
        BY <1>6, <3>2, Recorded DEF Inv, InitInv
      <4>2. job[r].kind = "part" /\ There
        BY <1>1, <2>1, <4>1 DEF Inv, InitInv
      <4>3. PICK q \in Request : job[q].pc = "del" /\ job[q].kind = "complete"
        BY <3>1, <3>2, <4>1, <4>2 DEF OneFile
      <4> QED BY <1>1, <3>1, <4>3 DEF Alone, Deciding
    <3>3. files = <<>> => Len(files) <= 1
      OBVIOUS
    <3> QED BY <1>1, <3>2, <3>3 DEF OneFile
  <2>5. CleanInv'
    <3> SUFFICES ASSUME Clean' PROVE CleanInv'
      BY DEF CleanInv
    <3>1. Clean /\ CleanInv /\ (job[r].kind = "init" => ok)
      BY <1>6, <1>14, Recorded DEF Inv, PatientInv
    <3>2. ASSUME job[r].kind = "init", n.pc = "expire" \/ n.at > 4 PROVE FullKey'
      <4>1. CASE job[r].at = 4
        BY <1>1, <1>7, <3>1, <3>2, <4>1 DEF FullKey
      <4>2. CASE job[r].at = 5
        BY <1>1, <1>8, <3>1, <3>2, <4>2 DEF CleanInv, CleanJob
      <4>3. CASE job[r].at < 4
        BY <1>1, <1>5, <3>2, <4>3
      <4> QED BY <1>1, <4>1, <4>2, <4>3
    <3>3. ASSUME NEW q \in Request PROVE CleanJob(job[q])'
      <4>1. CASE q = r
        BY <1>1, <1>5, <1>10, <3>2, <4>1 DEF CleanJob
      <4>2. CASE q # r
        <5>1. job'[q] = job[q] /\ CleanJob(job[q])
          BY <1>10, <3>1, <4>2 DEF CleanInv
        <5> QED BY <1>8, <5>1 DEF CleanJob
      <4> QED BY <4>1, <4>2
    <3>4. known => FullKey'
      <4>1. known => job[r].kind = "part"
        BY <1>1 DEF Inv, InitInv
      <4> QED BY <1>8, <2>1, <3>1, <4>1 DEF CleanInv
    <3> QED BY <1>1, <3>1, <3>3, <3>4 DEF CleanInv
  <2> QED BY <2>2, <2>3, <2>4, <2>5 DEF PatientInv
<1>15. ASSUME manner = "serial" PROVE SerialInv'
  <2>0. AckedJob(job[r]) /\ UNCHANGED Sure
    BY <1>1, <1>15 DEF Inv, SerialInv, Sure
  <2>1. ASSUME NEW p \in Sure PROVE KeptIn(key', p)
    <3>1. known
      BY <2>1 DEF Inv, InitInv, Sure
    <3>2. job[r].kind = "part"
      BY <1>1, <3>1 DEF Inv, InitInv
    <3>3. job[r].s.part_hashes[p] # NoHash /\ job[r].s.uploaded[p] = TRUE
      BY <1>1, <2>0, <2>1, <3>2, NotEmpty DEF AckedJob
    <3>4. KeptIn(key, p)
      BY <1>15, <2>1 DEF Inv, SerialInv
    <3> QED BY <1>1, <1>8, <3>3, <3>4 DEF KeptIn
  <2>2. ASSUME NEW q \in Request PROVE AckedJob(job[q])'
    <3>1. CASE q = r
      <4>1. ASSUME n.ok = TRUE, n.pc = "expire" \/ (n.pc = "save" /\ n.at > 4), job[r].kind = "part"
            PROVE  key'["part_hashes"] = n.s.part_hashes
        <5>0. ok /\ job[r].ok = TRUE
          BY <1>5, <4>1 DEF GoodJob
        <5>1. CASE job[r].at = 4
          BY <1>5, <1>7, <5>0, <5>1
        <5>2. CASE job[r].at = 5
          BY <1>1, <1>5, <1>7, <2>0, <4>1, <5>0, <5>2 DEF AckedJob
        <5>3. CASE job[r].at < 4
          BY <1>1, <1>5, <4>1, <5>3
        <5> QED BY <1>1, <5>1, <5>2, <5>3
      <4>2. ASSUME n.ok = TRUE, n.pc = "expire" PROVE key'["uploaded"] = n.s.uploaded
        <5>1. ok /\ job[r].at = 5
          BY <1>1, <1>5, <4>2
        <5> QED BY <1>5, <1>7, <5>1
      <4>3. job[r].kind = "part" =>
               /\ n.s.part_hashes = <<>> \/ \A p \in Sure : n.s.part_hashes[p] # NoHash
               /\ n.s.uploaded = <<>> \/ \A p \in Sure : n.s.uploaded[p] = TRUE
               /\ n.s.part_hashes[n.hash[1]] # NoHash /\ n.s.uploaded[n.hash[1]] = TRUE
        BY <1>1, <1>5, <2>0 DEF AckedJob
      <4>4. job'[q] = n /\ n.kind = job[r].kind /\ n.pc \in {"save", "expire"}
        BY <1>5, <1>10, <3>1
      <4>5. n.ok = TRUE \/ n.ok = FALSE
        BY <1>9 DEF GoodJob
      <4>6. CASE n.ok = TRUE
        BY <2>0, <4>1, <4>2, <4>3, <4>4, <4>6 DEF AckedJob
      <4>7. CASE n.ok = FALSE
        BY <2>0, <4>3, <4>4, <4>7 DEF AckedJob
      <4> QED BY <4>5, <4>6, <4>7
    <3>2. CASE q # r
      <4>1. job[q].pc = "idle" /\ job'[q] = job[q]
        BY <1>1, <1>10, <1>15, <3>2 DEF Inv, SerialInv
      <4>2. job'[q].kind = "none"
        BY <4>1 DEF Inv, TypeInv, GoodJob
      <4> QED BY <4>2 DEF AckedJob
    <3> QED BY <3>1, <3>2
  <2> QED BY <1>1, <1>12, <1>15, <2>0, <2>1, <2>2 DEF Inv, SerialInv
<1>16. PatientInv' /\ SerialInv'
  BY <1>1, <1>14, <1>15 DEF PatientInv, SerialInv
<1> QED
  BY <1>1, <1>11, <1>13, <1>16 DEF Inv, WholeOrEmpty

(* The last field is written: the request is answered.                     *)
LEMMA SaveExpireStep ==
    ASSUME Inv, NEW r \in Request, SaveExpire(r)
    PROVE  Inv'
<1>1. /\ GoodJob(job[r]) /\ job[r].pc = "expire" /\ job[r].kind \in {"init", "part"}
      /\ UNCHANGED <<manner, key, files, died>> /\ known' = TRUE /\ failed \subseteq failed'
      /\ job[r].s.part_hashes \in PartList /\ job[r].s.uploaded \in Flags
  BY DEF SaveExpire, Fails, Inv, TypeInv, GoodJob
<1>2. /\ \A q \in Request : job'[q] = IF q = r THEN IdleJob ELSE job[q]
      /\ (job = [q \in Request |-> job[q]])' /\ \A q \in Request : GoodJob(job'[q])
  BY FirstJobs, Moved DEF Inv, SaveExpire, Finish
<1>3. TypeInv'
  BY <1>1, <1>2 DEF Inv, TypeInv, GoodJob
<1>4. InitInv'
  <2>1. ASSUME NEW q \in Request PROVE job'[q].kind # "init"
    <3>1. CASE q = r
      BY <1>2, <3>1, FirstJobs
    <3>2. CASE q # r /\ known
      BY <1>2, <3>2 DEF Inv, InitInv
    <3>3. CASE q # r /\ ~known
      <4>1. job[q].pc = "idle"
        BY <1>1, <3>3 DEF Inv, InitInv
      <4> QED BY <1>2, <3>3, <4>1 DEF Inv, TypeInv, GoodJob
    <3> QED BY <3>1, <3>2, <3>3
  <2> QED BY <1>1, <2>1 DEF InitInv
<1>5. \A q \in Request :
         /\ job'[q].pc # "idle" => job'[q] = job[q] /\ q # r
         /\ job[q].pc = "del" => job'[q] = job[q]
  BY <1>1, <1>2, FirstJobs
<1>6. ASSUME manner # "any" PROVE PatientInv'
  <2>1. ASSUME NEW q \in Request PROVE PatientJob(job[q])'
    BY <1>1, <1>2, <1>6, FirstJobs DEF Inv, PatientInv, PatientJob, There
  <2>2. Alone'
    <3>1. Alone
      BY <1>6 DEF Inv, PatientInv
    <3>2. \A q \in Request : job'[q].kind \in Deciding => job[q].kind \in Deciding
      BY <1>2, FirstJobs DEF Deciding
    <3> QED BY <1>5, <3>1, <3>2 DEF Alone
  <2>3. OneFile'
    <3>1. OneFile
      BY <1>6 DEF Inv, PatientInv
    <3> QED BY <1>1, <1>5, <3>1, Recorded DEF OneFile, There
  <2>4. CleanInv'
    <3> SUFFICES ASSUME Clean' PROVE CleanInv'
      BY DEF CleanInv
    <3>1. Clean /\ CleanInv
      BY <1>1, <1>6, Recorded DEF Inv, PatientInv
    <3>2. There => FullKey
      <4>1. CASE job[r].kind = "init"
        BY <1>1, <3>1, <4>1 DEF CleanInv, CleanJob
      <4>2. CASE job[r].kind = "part"
        BY <1>1, <1>6, <3>1, <4>2, UnderWay
      <4> QED BY <1>1, <4>1, <4>2
    <3>3. \A q \in Request : CleanJob(job[q])'
      BY <1>1, <1>2, <3>1, FirstJobs DEF CleanInv, CleanJob, FullKey
    <3> QED BY <1>1, <3>1, <3>2, <3>3 DEF CleanInv, There, FullKey
  <2> QED BY <2>1, <2>2, <2>3, <2>4 DEF PatientInv
<1>7. ASSUME manner = "serial" PROVE SerialInv'
  <2>1. \A q \in Request : job'[q].kind = "none" /\ job'[q].pc = "idle"
    BY <1>1, <1>2, <1>7, FirstJobs DEF Inv, SerialInv, TypeInv, GoodJob
  <2>2. \A q \in Request : AckedJob(job[q])'
    BY <2>1 DEF AckedJob
  <2>3. acked \subseteq Part \X BOOLEAN /\ AckedJob(job[r]) /\ \A p \in Sure : KeptIn(key, p)
    BY <1>7 DEF Inv, SerialInv
  <2>4. acked' \subseteq Part \X BOOLEAN /\ \A p \in Sure' : KeptIn(key, p)
    <3>1. CASE job[r].kind = "part"
      <4>1. PICK x, b : x = job[r].hash[1] /\ b = job[r].ok
        OBVIOUS
      <4>2. x \in Part /\ job[r].s.part_hashes[x] # NoHash /\ job[r].s.uploaded[x] = TRUE
        BY <1>1, <2>3, <3>1, <4>1, PartHashes DEF AckedJob, GoodJob
      <4>3. b = TRUE => KeptIn(key, x)
        BY <1>1, <2>3, <3>1, <4>1, <4>2 DEF AckedJob, KeptIn
      <4>4. acked' = acked \cup {<<x, b>>}
        BY <1>7, <3>1, <4>1 DEF SaveExpire
      <4>5. b \in BOOLEAN
        BY <1>1, <4>1 DEF GoodJob
      <4>6. acked' \subseteq Part \X BOOLEAN
        BY <2>3, <4>2, <4>4, <4>5
      <4>7. \A p \in Sure' : p \in Sure \/ (p = x /\ b = TRUE)
        BY <4>4 DEF Sure
      <4> QED BY <2>3, <4>3, <4>6, <4>7
    <3>2. CASE job[r].kind # "part"
      BY <2>3, <3>2 DEF SaveExpire, Sure
    <3> QED BY <3>1, <3>2
  <2> QED BY <1>1, <2>1, <2>2, <2>4 DEF SerialInv
<1>8. PatientInv' /\ SerialInv'
  BY <1>1, <1>6, <1>7 DEF PatientInv, SerialInv
<1> QED
  BY <1>1, <1>3, <1>4, <1>8 DEF Inv, WholeOrEmpty

(* The list that complete inserts has every part in its place, or none.    *)
LEMMA InsertedList ==
    ASSUME NEW l, HashList(l), \A i \in DOMAIN l : l[i] # NoHash
    PROVE  /\ l \in Seq(PartHash) /\ InPlace(l) /\ Len(l) \in {0, ChunkCount}
           /\ l \in PartList => Len(l) = ChunkCount
<1>1. CASE l = <<>>
  <2>1. <<>> \notin PartList
    BY MultipartAssumption DEF PartList, Part
  <2> QED BY <1>1, <2>1 DEF InPlace
<1>2. CASE l # <<>>
  <2>1. l \in PartList /\ \A i \in Part : l[i] # NoHash => l[i][1] = i
    BY <1>2 DEF HashList
  <2>2. l \in [Part -> PartHash]
    BY <2>1 DEF PartList
  <2>3. InPlace(l)
    BY <2>1, <2>2 DEF InPlace
  <2> QED BY <2>2, <2>3, WholeList
<1> QED
  BY <1>1, <1>2

(* The file is inserted. *)
LEMMA InsertStep ==
    ASSUME Inv, NEW r \in Request, Insert(r)
    PROVE  Inv'
<1>1. /\ GoodJob(job[r]) /\ job[r].pc = "insert" /\ job[r].kind = "complete"
      /\ UNCHANGED <<manner, key, known, acked, failed, died>> /\ files \in Seq(Seq(PartHash))
  BY DEF Insert, Inv, TypeInv, GoodJob
<1>2. CASE Finish(r) /\ UNCHANGED files
  BY <1>1, <1>2, QuietFinish
<1>3. CASE files' = Append(files, job[r].s.part_hashes) /\ Become(r, [job[r] EXCEPT !.pc = "del"])
  <2> DEFINE n == [job[r] EXCEPT !.pc = "del"]
  <2>1. /\ DOMAIN n = JobDomain /\ n.kind = "complete" /\ n.hash = job[r].hash
        /\ n.at = job[r].at /\ n.ok = job[r].ok /\ n.pc = "del" /\ n.s = job[r].s /\ Become(r, n)
    BY <1>1, <1>3 DEF GoodJob, JobDomain
  <2> HIDE DEF n
  <2>2. PICK l : l = job[r].s.part_hashes
    OBVIOUS
  <2>3. HashList(l) /\ \A i \in DOMAIN l : l[i] # NoHash
    BY <1>1, <2>2 DEF GoodJob, Unreadable
  <2>4. /\ l \in Seq(PartHash) /\ InPlace(l) /\ Len(l) \in {0, ChunkCount}
        /\ l \in PartList => Len(l) = ChunkCount
    BY <2>3, InsertedList
  <2>5. files' = Append(files, l)
    BY <1>3, <2>2
  <2>6. /\ files' \in Seq(Seq(PartHash)) /\ Len(files') = Len(files) + 1
        /\ \A k \in DOMAIN files' : files'[k] = l \/ (k \in DOMAIN files /\ files'[k] = files[k])
    BY <1>1, <2>4, <2>5
  <2>7. GoodJob(n)
    BY <1>1, <2>1 DEF GoodJob, JobPc, Deciding
  <2>8. /\ \A q \in Request : job'[q] = IF q = r THEN n ELSE job[q]
        /\ (job = [q \in Request |-> job[q]])' /\ \A q \in Request : GoodJob(job'[q])
    BY <2>1, <2>7, Moved DEF Inv
  <2>9. TypeInv'
    BY <1>1, <2>6, <2>8 DEF Inv, TypeInv, GoodJob
  <2>10. \A q \in Request : (job'[q].pc = "idle" <=> job[q].pc = "idle") /\ job'[q].kind = job[q].kind
    BY <1>1, <2>1, <2>8
  <2>11. known
    BY <1>1, UnderWay
  <2>12. InitInv'
    BY <1>1, <2>10, <2>11 DEF Inv, InitInv
  <2>13. WholeOrEmpty'
    BY <2>4, <2>6 DEF Inv, WholeOrEmpty, InPlace
  <2>14. ASSUME manner # "any" PROVE PatientInv'
    <3>1. Alone /\ OneFile /\ There
      BY <1>1, <2>14, UnderWay DEF Inv, PatientInv
    <3>2. \A q \in Request : PatientJob(job[q])'
      BY <1>1, <2>1, <2>8, <2>14, <3>1 DEF Inv, PatientInv, PatientJob, There
    <3>3. Alone'
      BY <2>10, <3>1 DEF Alone
    <3>4. ASSUME ~died, DelSure PROVE files = <<>>
      <4> SUFFICES ASSUME files # <<>> PROVE FALSE
        OBVIOUS
      <4>1. PICK q \in Request : job[q].pc = "del" /\ job[q].kind = "complete"
        BY <3>1, <3>4 DEF OneFile
      <4> QED BY <1>1, <3>1, <4>1 DEF Alone, Deciding
    <3>5. OneFile'
      <4>1. job'[r].pc = "del" /\ job'[r].kind = "complete"
        BY <2>1, <2>8
      <4>2. ~died /\ DelSure => Len(files') <= 1
        BY <2>6, <3>4
      <4> QED BY <1>1, <4>1, <4>2 DEF OneFile, DelSure
    <3>6. CleanInv'
      <4> SUFFICES ASSUME Clean PROVE CleanInv'
        BY <1>1 DEF CleanInv, Clean
      <4>1. CleanInv
        BY <2>14 DEF Inv, PatientInv
      <4>2. CleanJob(job[r]) /\ l \in PartList
        BY <1>1, <2>2, <4>1 DEF CleanInv, CleanJob
      <4>3. CleanJob(n)
        BY <2>1, <2>2, <4>2 DEF CleanJob
      <4>4. \A q \in Request : CleanJob(job[q])'
        BY <1>1, <2>8, <4>1, <4>3 DEF CleanInv, CleanJob, FullKey
      <4>5. \A k \in DOMAIN files' : Len(files'[k]) = ChunkCount
        BY <2>4, <2>6, <4>1, <4>2 DEF CleanInv
      <4> QED BY <1>1, <4>1, <4>4, <4>5 DEF CleanInv, There, FullKey
    <3> QED BY <3>2, <3>3, <3>5, <3>6 DEF PatientInv
  <2>15. ASSUME manner = "serial" PROVE SerialInv'
    <3>1. \A q \in Request : AckedJob(job[q])'
      BY <1>1, <2>1, <2>8, <2>15 DEF Inv, SerialInv, AckedJob, Sure
    <3>2. /\ \A p, q \in Request : job'[p].pc # "idle" /\ job'[q].pc # "idle" => p = q
          /\ acked \subseteq Part \X BOOLEAN /\ \A p \in Sure : KeptIn(key, p)
      BY <2>10, <2>15 DEF Inv, SerialInv
    <3> QED BY <1>1, <3>1, <3>2 DEF SerialInv, Sure
  <2>16. PatientInv' /\ SerialInv'
    BY <1>1, <2>14, <2>15 DEF PatientInv, SerialInv
  <2> QED BY <2>9, <2>12, <2>13, <2>16 DEF Inv
<1> QED
  BY <1>2, <1>3 DEF Insert

(* The session goes, by complete, abort or expiry: patient clients have no *)
(* other request under way.                                                *)
LEMMA GoneStep ==
    ASSUME Inv, key' = NoKey, acked' = {}, UNCHANGED <<manner, known, files, failed, died>>,
           (job = [q \in Request |-> job[q]])', \A q \in Request : job'[q] \in {job[q], IdleJob},
           manner # "any" => \A q \in Request : job'[q].pc = "idle"
    PROVE  Inv'
<1>1. DOMAIN key' = FieldName /\ (\A f \in FieldName : key'[f] = None) /\ ~There'
  BY Fields DEF NoKey, There
<1>2. \A q \in Request : GoodJob(job'[q])
  BY FirstJobs DEF Inv, TypeInv
<1>3. TypeInv'
  BY <1>1, <1>2, Fields DEF Inv, TypeInv, GoodJob
<1>4. \A q \in Request :
         /\ job'[q].pc # "idle" => job[q].pc # "idle"
         /\ job'[q].kind = job[q].kind \/ job'[q].kind = "none"
  BY FirstJobs
<1>5. InitInv'
  <2>1. CASE known
    BY <1>4, <2>1 DEF Inv, InitInv
  <2>2. CASE ~known
    BY <1>4, <2>2 DEF Inv, InitInv
  <2> QED BY <2>1, <2>2
<1>6. ASSUME manner # "any" PROVE PatientInv'
  <2>1. \A q \in Request : job'[q].pc = "idle" /\ job'[q].kind = "none"
    BY <1>2, <1>6 DEF GoodJob
  <2>2. \A q \in Request : PatientJob(job[q])' /\ CleanJob(job[q])'
    BY <2>1 DEF PatientJob, CleanJob
  <2>3. Alone'
    BY <2>1 DEF Alone, Deciding
  <2>4. OneFile'
    BY <1>1, <1>6 DEF OneFile, DelSure, Inv, PatientInv
  <2>5. CleanInv'
    BY <1>1, <1>6, <2>2 DEF CleanInv, Clean, Inv, PatientInv
  <2> QED BY <2>2, <2>3, <2>4, <2>5 DEF PatientInv
<1>7. ASSUME manner = "serial" PROVE SerialInv'
  <2>1. \A q \in Request : job'[q].pc = "idle" /\ job'[q].kind = "none"
    BY <1>2, <1>7 DEF GoodJob
  <2> QED BY <2>1 DEF SerialInv, AckedJob, Sure
<1>8. PatientInv' /\ SerialInv'
  BY <1>6, <1>7 DEF PatientInv, SerialInv
<1> QED
  BY <1>3, <1>5, <1>8 DEF Inv, WholeOrEmpty

(* delete_from_redis. *)
LEMMA DelStep ==
    ASSUME Inv, NEW r \in Request, Del(r)
    PROVE  Inv'
<1>1. job[r].pc = "del" /\ job[r].kind \in Deciding
  BY DEF Del, Inv, TypeInv, GoodJob
<1>2. /\ \A q \in Request : job'[q] = IF q = r THEN IdleJob ELSE job[q]
      /\ (job = [q \in Request |-> job[q]])'
  BY FirstJobs, Moved DEF Inv, Del, Finish
<1>3. manner # "any" => \A q \in Request : job'[q].pc = "idle"
  BY <1>1, <1>2, FirstJobs DEF Inv, PatientInv, Alone
<1>4. CASE key' = NoKey /\ acked' = {} /\ UNCHANGED failed
  BY <1>2, <1>3, <1>4, GoneStep DEF Del
<1>5. CASE Fails(r, "del") /\ UNCHANGED <<key, acked>>
  <2>1. failed \subseteq failed' /\ (job[r].kind = "complete" => ~DelSure')
    BY <1>5 DEF Fails, Telling, DelSure
  <2> QED BY <1>1, <1>5, <2>1, QuietFinish DEF Del
<1> QED
  BY <1>4, <1>5 DEF Del, Deleted

(* Redis drops the key. *)
LEMMA ExpireStep ==
    ASSUME Inv, Expire
    PROVE  Inv'
<1>1. (job = [q \in Request |-> job[q]])' /\ \A q \in Request : job'[q] = job[q]
  BY DEF Expire, Inv, TypeInv
<1> QED
  BY <1>1, GoneStep DEF Expire, Quiet

(* handle_init. *)
LEMMA StartInitStep ==
    ASSUME Inv, NEW r \in Request, StartInit(r)
    PROVE  Inv'
<1>1. /\ ~known /\ files = <<>> /\ acked = {} /\ key' = NoKey /\ (\A q \in Request : job[q].pc = "idle")
      /\ UNCHANGED <<manner, known, files, acked, failed, died>>
  BY DEF StartInit, Quiet, Inv, InitInv
<1>2. /\ \A q \in Request : job'[q] = IF q = r THEN InitJob ELSE job[q]
      /\ (job = [q \in Request |-> job[q]])' /\ \A q \in Request : GoodJob(job'[q])
  BY FirstJobs, Moved DEF Inv, StartInit
<1>3. DOMAIN key' = FieldName /\ \A f \in FieldName : key'[f] = None
  BY <1>1, Fields DEF NoKey
<1>4. TypeInv'
  BY <1>1, <1>2, <1>3, Fields DEF Inv, TypeInv, GoodJob
<1>5. \A q \in Request : q # r => job'[q].pc = "idle" /\ job'[q].kind = "none"
  BY <1>1, <1>2 DEF GoodJob
<1>6. job'[r].pc = "save" /\ job'[r].kind = "init" /\ job'[r].at = 1
  BY <1>2, FirstJobs
<1>7. InitInv'
  BY <1>1, <1>5, <1>6 DEF InitInv
<1>8. PatientInv'
  <2>1. \A q \in Request : PatientJob(job[q])' /\ CleanJob(job[q])'
    BY <1>5, <1>6 DEF PatientJob, CleanJob
  <2>2. Alone' /\ OneFile'
    BY <1>1, <1>5, <1>6 DEF Alone, OneFile, Deciding
  <2>3. CleanInv'
    BY <1>1, <2>1 DEF CleanInv
  <2> QED BY <2>1, <2>2, <2>3 DEF PatientInv
<1>9. SerialInv'
  BY <1>1, <1>5, <1>6 DEF SerialInv, AckedJob, Sure
<1> QED
  BY <1>1, <1>4, <1>7, <1>8, <1>9 DEF Inv, WholeOrEmpty

(* A client sends a request on a known upload.                             *)
LEMMA StartStep ==
    ASSUME Inv, NEW r \in Request, NEW k \in Kind, NEW h, k = "part" => h \in PartHash, Start(r, k, h)
    PROVE  Inv'
<1> DEFINE n == [IdleJob EXCEPT !.kind = k, !.pc = "load", !.at = 1, !.hash = h]
<1>1. /\ DOMAIN n = JobDomain /\ n.kind = k /\ n.pc = "load" /\ n.at = 1
      /\ n.s = Default /\ n.hash = h /\ n.ok \in BOOLEAN
  BY DEF IdleJob, JobDomain
<1>2. /\ Become(r, n) /\ known /\ job[r].pc = "idle" /\ UNCHANGED <<manner, key, known, files, acked, failed, died>>
      /\ k \in {"part", "status", "complete", "abort"}
  BY MultipartAssumption DEF Start
<1> HIDE DEF n
<1>3. GoodJob(n)
  BY <1>1, <1>2, NewList DEF GoodJob, JobPc
<1>4. /\ \A q \in Request : job'[q] = IF q = r THEN n ELSE job[q]
      /\ (job = [q \in Request |-> job[q]])' /\ \A q \in Request : GoodJob(job'[q])
  BY <1>2, <1>3, Moved DEF Inv
<1>5. TypeInv'
  BY <1>2, <1>4 DEF Inv, TypeInv, GoodJob
<1>6. InitInv'
  BY <1>1, <1>2, <1>4 DEF Inv, InitInv
<1>7. ASSUME manner # "any" PROVE PatientInv'
  <2>1. \A q \in Request : PatientJob(job[q])'
    BY <1>1, <1>2, <1>4, <1>7 DEF Inv, PatientInv, PatientJob, There
  <2>2. Alone'
    <3>1. CASE Quiet
      BY <1>4, <3>1 DEF Alone, Quiet, Inv, TypeInv, GoodJob, Deciding
    <3>2. CASE k \notin Deciding /\ \A q \in Request : job[q].kind \notin Deciding
      BY <1>1, <1>4, <3>2 DEF Alone
    <3> QED BY <1>7, <3>1, <3>2 DEF Start, Inv, TypeInv
  <2>3. OneFile'
    <3>1. OneFile
      BY <1>7 DEF Inv, PatientInv
    <3>2. \A q \in Request : job[q].pc = "del" => job'[q] = job[q]
      BY <1>2, <1>4
    <3> QED BY <1>2, <3>1, <3>2 DEF OneFile, DelSure, There
  <2>4. CleanInv'
    <3> SUFFICES ASSUME Clean PROVE CleanInv'
      BY <1>2 DEF CleanInv, Clean
    <3>1. CleanInv
      BY <1>7 DEF Inv, PatientInv
    <3>2. CleanJob(n)
      BY <1>1, <1>2 DEF CleanJob
    <3>3. \A q \in Request : CleanJob(job[q])'
      BY <1>2, <1>4, <3>1, <3>2 DEF CleanInv, CleanJob, FullKey
    <3> QED BY <1>2, <3>1, <3>3 DEF CleanInv, There, FullKey
  <2> QED BY <2>1, <2>2, <2>3, <2>4 DEF PatientInv
<1>8. ASSUME manner = "serial" PROVE SerialInv'
  <2>1. Quiet
    BY <1>8 DEF Start
  <2>2. \A q \in Request : AckedJob(job[q])'
    <3>1. \A q \in Request : q # r => job'[q].kind = "none"
      BY <1>4, <2>1 DEF Quiet, Inv, TypeInv, GoodJob
    <3>2. job'[r].pc = "load" /\ job'[r].at = 1
      BY <1>1, <1>4
    <3> QED BY <3>1, <3>2 DEF AckedJob
  <2> QED BY <1>2, <1>4, <1>8, <2>1, <2>2 DEF Inv, SerialInv, Quiet, Sure
<1>9. PatientInv' /\ SerialInv'
  BY <1>2, <1>7, <1>8 DEF PatientInv, SerialInv
<1> QED
  BY <1>2, <1>5, <1>6, <1>9 DEF Inv, WholeOrEmpty

-------------------------------------------------------------------------------
(* Before the upload there is nothing.                                     *)
LEMMA InvInit == Init => Inv
<1> SUFFICES ASSUME Init PROVE Inv
  OBVIOUS
<1>1. /\ \A r \in Request : job[r] = IdleJob
      /\ job = [r \in Request |-> job[r]]
  BY DEF Init
<1>2. DOMAIN key = FieldName /\ \A f \in FieldName : key[f] = None
  BY Fields DEF Init, NoKey
<1>3. TypeInv
  <2>1. <<>> \in Seq(Seq(PartHash))
    OBVIOUS
  <2>2. manner \in {"serial", "patient", "any"}
    BY MultipartAssumption DEF Init
  <2>3. \A r \in Request : GoodJob(job[r])
    BY <1>1, FirstJobs
  <2> QED BY <1>1, <1>2, <2>1, <2>2, <2>3, Fields DEF Init, TypeInv
<1>4. InitInv /\ SerialInv /\ WholeOrEmpty
  BY <1>1, FirstJobs DEF Init, InitInv, SerialInv, WholeOrEmpty, AckedJob, Sure
<1>5. PatientInv
  <2>1. Alone /\ OneFile
    BY <1>1, FirstJobs DEF Init, Alone, OneFile, Deciding
  <2>2. CleanInv
    BY <1>1, RestJob DEF Init, CleanInv
  <2> QED BY <1>1, <2>1, <2>2, RestJob DEF PatientInv
<1> QED
  BY <1>3, <1>4, <1>5 DEF Inv

(* Every step keeps Inv. *)
LEMMA InvNext ==
    ASSUME Inv, [Next]_vars
    PROVE  Inv'
<1>1. CASE UNCHANGED vars
  <2>1. TypeInv' /\ InitInv' /\ WholeOrEmpty'
    BY <1>1 DEF vars, Inv, TypeInv, InitInv, WholeOrEmpty, GoodJob
  <2>2. PatientInv'
    BY <1>1 DEF vars, Inv, PatientInv, PatientJob, CleanJob, CleanInv, Clean, DelSure, There, Alone, OneFile, FullKey
  <2>3. SerialInv'
    BY <1>1 DEF vars, Inv, SerialInv, AckedJob, Sure
  <2> QED BY <2>1, <2>2, <2>3 DEF Inv
<1>2. ASSUME NEW r \in Request, Step(r) PROVE Inv'
  BY <1>2, LoadStep, CheckStep, PutStep, SaveStep, SaveExpireStep, MergeStep, InsertStep, DelStep DEF Step
<1>3. ASSUME NEW r \in Request, NEW h \in PartHash, Start(r, "part", h) PROVE Inv'
  <2>1. "part" \in Kind
    BY <1>3 DEF Start
  <2> QED BY <1>3, <2>1, StartStep
<1>4. ASSUME NEW r \in Request, NEW k \in Kind \ {"part"}, Start(r, k, NoHash) PROVE Inv'
  BY <1>4, StartStep
<1>5. CASE Crash
  BY <1>5, DieStep DEF Crash
<1> QED
  BY <1>1, <1>2, <1>3, <1>4, <1>5, StartInitStep, ExpireStep DEF Next

(* Inv is an invariant. *)
LEMMA InvHolds == Spec => []Inv
<1> QED
  BY InvInit, InvNext, PTL DEF Spec

(* FilesWholeOrEmpty: whatever requests race on one upload_id, and however *)
(* often the process dies, a file that complete inserts has every part in  *)
(* its place, or none at all (handle_complete).                            *)
THEOREM FilesWholeOrEmpty == Spec => []WholeOrEmpty
<1>1. Inv => WholeOrEmpty
  BY DEF Inv
<1> QED
  BY <1>1, InvHolds, PTL

(* PatientGetsOneFile: clients that wait for the answers to their parts    *)
(* before they complete or abort get whole files, unless Redis fails an    *)
(* HGET of the complete or an HSET of the init, and one file, unless the   *)
(* process dies before the DEL of complete or that DEL fails, for any      *)
(* number of parts in parallel and whatever else Redis fails.              *)
THEOREM PatientGetsOneFile == Spec => []PatientOneFile
<1>1. Inv => PatientOneFile
  BY DEF Inv, PatientInv, OneFile, CleanInv, Clean, DelSure, WholeOrEmpty, PatientOneFile
<1> QED
  BY <1>1, InvHolds, PTL

(* AckedPartsKept: a part that was answered with 200 to a client that      *)
(* sends one request at a time, and whose HSETs were carried out, stays in *)
(* the session while that exists, whatever commands of later requests      *)
(* fail.                                                                   *)
THEOREM AckedPartsKept == Spec => []AckedKept
<1>1. Inv => AckedKept
  <2> SUFFICES ASSUME Inv, manner = "serial", NEW a \in acked, a[2] PROVE InSession(a[1])
    BY DEF AckedKept
  <2>1. a \in Part \X BOOLEAN /\ \A p \in Sure : KeptIn(key, p)
    BY DEF Inv, SerialInv
  <2>2. PICK p \in Part, b \in BOOLEAN : a = <<p, b>>
    BY <2>1
  <2>3. a[1] = p /\ b = TRUE
    BY <2>2
  <2>4. KeptIn(key, a[1])
    BY <2>1, <2>2, <2>3 DEF Sure
  <2> QED BY <2>4, NotEmpty DEF KeptIn, InSession
<1> QED
  BY <1>1, InvHolds, PTL

===============================================================================
