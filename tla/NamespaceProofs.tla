---------------------------- MODULE NamespaceProofs ----------------------------
(***************************************************************************)
(* The folder tree for any number of threads, users, folders, files and    *)
(* names: OwnTree, EntriesListed and FirstFreeName are invariants of       *)
(* Namespace.  Each has a strengthening that every step keeps: OwnInv,     *)
(* ListInv and NameInv.                                                    *)
(***************************************************************************)
EXTENDS Namespace, FiniteSetTheorems, TLAPS

(* The names users ask for, and those make_unique_name makes of them. *)
Asked == FolderName \cup FileName \cup {<<>>}
Names == {Candidate(s, n) : s \in Asked, n \in Nat}
Rows == [state : {"free", "live", "deleted"}, owner : User \cup {Root},
         parent : FolderId \cup {Root}, name : Names]

(* Where a job is that has passed the lookup of its folder. *)
Located == {"name_exists", "unique", "insert", "rename", "has_folders", "has_files", "soft_delete"}

(* The jobs of the handlers, by type. *)
Jobs == [pc : {"idle", "find", "find_file", "remove"} \cup Located,
         op : {"none", "create", "upload", "link", "rename", "delete", "remove"},
         user : User \cup {Root}, dir : FolderId \cup {Root}, name : Asked, was : Names,
         file : FileId \cup {Root}, n : Nat, over : BOOLEAN]

(* The operations that can be at a program point. *)
OpsAt(pc) ==
    CASE pc = "idle" -> {"none"}
      [] pc = "find" -> {"create", "upload", "link", "rename", "delete"}
      [] pc = "name_exists" -> {"create", "rename"}
      [] pc = "unique" -> {"link"}
      [] pc = "insert" -> {"create", "upload", "link"}
      [] pc = "rename" -> {"rename"}
      [] pc \in {"has_folders", "has_files", "soft_delete"} -> {"delete"}
      [] pc \in {"find_file", "remove"} -> {"remove"}

(* A job is at a point of its own handler and names what that handler needs. *)
GoodJob(j) ==
    /\ j.op \in OpsAt(j.pc)
    /\ j.op \in {"rename", "delete"} => j.dir \in FolderId
    /\ j.op = "remove" => j.file \in FileId
    /\ j.op \in {"none", "remove"} => j.dir = Root

(* The rows and jobs have their types. *)
TypeInv ==
    /\ folders \in [FolderId -> Rows]
    /\ files \in [FileId -> Rows]
    /\ job \in [Thread -> Jobs]
    /\ raced \subseteq FolderId
    /\ \A t \in Thread : GoodJob(job[t])

(* A name that is asked for is one of the names (Candidate, number 0). *)
LEMMA NamesAsked == Asked \subseteq Names
<1> SUFFICES ASSUME NEW s \in Asked PROVE s \in Names
  OBVIOUS
<1>1. Candidate(s, 0) = s
  BY DEF Candidate
<1> QED
  BY <1>1 DEF Names

(* A row that is not there and a deleted file have the type of a row. *)
LEMMA NoRowTyped == NoRow \in Rows /\ DeletedFile \in Rows
BY NamesAsked DEF NoRow, DeletedFile, Rows, Asked

(* So has the row that an insert makes (InsertFolder, InsertFile). *)
LEMMA RowTyped ==
    ASSUME NEW o \in User \cup {Root}, NEW p \in FolderId \cup {Root}, NEW s \in Names
    PROVE  Row(o, p, s) \in Rows
BY DEF Row, Rows

(* A thread without a request has a good job (Finish). *)
LEMMA IdleTyped == Idle \in Jobs /\ GoodJob(Idle)
<1>1. <<>> \in Asked /\ <<>> \in Names
  BY NamesAsked DEF Asked
<1> QED
  BY <1>1 DEF Idle, Jobs, GoodJob, OpsAt

(* After the lookup a job is past it, at a point of its handler (AfterFind). *)
LEMMA AfterFindAt ==
    ASSUME NEW op \in {"create", "upload", "link", "rename", "delete"}
    PROVE  AfterFind(op) \in Located /\ op \in OpsAt(AfterFind(op))
<1>1. CASE op = "create"
  BY <1>1 DEF AfterFind, Located, OpsAt
<1>2. CASE op = "upload"
  BY <1>2 DEF AfterFind, Located, OpsAt
<1>3. CASE op = "link"
  BY <1>3 DEF AfterFind, Located, OpsAt
<1>4. CASE op = "rename"
  BY <1>4 DEF AfterFind, Located, OpsAt
<1>5. CASE op = "delete"
  BY <1>5 DEF AfterFind, Located, OpsAt
<1> QED
  BY <1>1, <1>2, <1>3, <1>4, <1>5

(* The empty tables and idle threads have their types (bootstrap_schema). *)
LEMMA InitType == Init => TypeInv
BY NoRowTyped, IdleTyped DEF Init, TypeInv

(* A job as a request starts it: nothing is looked up yet, unless there is *)
(* no folder to look up.                                                   *)
Fresh(j) ==
    /\ j.pc # "idle" /\ j.n = 0 /\ j.op # "none"
    /\ j.pc \in Located => j.dir = Root /\ j.pc = AfterFind(j.op)

(* Every request starts a fresh job of the right type (Request). *)
LEMMA RequestStarts ==
    ASSUME NEW t \in Thread, Request(t)
    PROVE  \E j \in Jobs : GoodJob(j) /\ Fresh(j) /\ Start(t, j)
<1>1. PICK o \in User :
        \/ \E p \in FolderId \cup {Root} :
               \/ \E s \in FolderName : EnterStart(t, "create", o, p, s)
               \/ \E op \in {"upload", "link"}, s \in FileName : EnterStart(t, op, o, p, s)
        \/ \E p \in FolderId : folders[p] # NoRow /\ DeleteStart(t, o, p)
        \/ \E p \in FolderId, s \in FolderName : folders[p] # NoRow /\ RenameStart(t, o, p, s)
        \/ \E f \in FileId : files[f] # NoRow /\ RemoveStart(t, o, f)
  BY DEF Request
<1>2. ASSUME NEW p \in FolderId \cup {Root}, NEW op \in {"create", "upload", "link"}, NEW s \in Asked,
             EnterStart(t, op, o, p, s)
      PROVE  \E j \in Jobs : GoodJob(j) /\ Fresh(j) /\ Start(t, j)
  <2> DEFINE j == [Idle EXCEPT !.pc = IF p = Root THEN AfterFind(op) ELSE "find",
                               !.op = op, !.user = o, !.dir = p, !.name = s]
  <2>1. op \in OpsAt("find")
    BY DEF OpsAt
  <2>2. j \in Jobs /\ GoodJob(j) /\ Fresh(j)
    BY <2>1, IdleTyped, AfterFindAt, ZenonT(30) DEF Fresh, Located, Jobs, GoodJob, Idle
  <2>3. Start(t, j)
    BY <1>2 DEF EnterStart
  <2> QED
    BY <2>2, <2>3
<1>3. ASSUME NEW p \in FolderId, NEW s \in Asked, DeleteStart(t, o, p) \/ RenameStart(t, o, p, s)
      PROVE  \E j \in Jobs : GoodJob(j) /\ Fresh(j) /\ Start(t, j)
  <2> DEFINE d == [Idle EXCEPT !.pc = "find", !.op = "delete", !.user = o, !.dir = p]
             r == [Idle EXCEPT !.pc = "find", !.op = "rename", !.user = o, !.dir = p, !.name = s]
  <2>1. d \in Jobs /\ GoodJob(d) /\ Fresh(d) /\ r \in Jobs /\ GoodJob(r) /\ Fresh(r)
    BY IdleTyped DEF Fresh, Located, Jobs, GoodJob, OpsAt, Idle
  <2>2. Start(t, d) \/ Start(t, r)
    BY <1>3 DEF DeleteStart, RenameStart
  <2> QED
    BY <2>1, <2>2
<1>4. ASSUME NEW f \in FileId, RemoveStart(t, o, f) PROVE \E j \in Jobs : GoodJob(j) /\ Fresh(j) /\ Start(t, j)
  <2> DEFINE j == [Idle EXCEPT !.pc = "find_file", !.op = "remove", !.user = o, !.file = f]
  <2>1. j \in Jobs /\ GoodJob(j) /\ Fresh(j)
    BY IdleTyped DEF Fresh, Located, Jobs, GoodJob, OpsAt, Idle
  <2>2. Start(t, j)
    BY <1>4 DEF RemoveStart
  <2> QED
    BY <2>1, <2>2
<1> QED
  BY <1>1, <1>2, <1>3, <1>4 DEF Asked

(* Every step keeps the types, and each job in its own handler. *)
LEMMA TypeNext == TypeInv /\ [Next]_vars => TypeInv'
<1> SUFFICES ASSUME TypeInv, [Next]_vars PROVE TypeInv'
  OBVIOUS
<1> USE NamespaceAssumption DEF TypeInv
<1>0. ASSUME NEW t \in Thread, NEW j \in Jobs, GoodJob(j), Become(t, j),
             UNCHANGED <<folders, files>>, raced' \subseteq FolderId
      PROVE  TypeInv'
  BY <1>0 DEF Become
<1>idle. \A t \in Thread : Finish(t) => job' \in [Thread -> Jobs] /\ \A u \in Thread : GoodJob(job'[u])
  BY IdleTyped DEF Finish, Become
<1>over. ASSUME NEW t \in Thread, NEW op, NEW p, FinishOvertaking(t, op, p)
         PROVE  job' \in [Thread -> Jobs] /\ \A u \in Thread : GoodJob(job'[u])
  <2>1. ASSUME NEW u \in Thread
        PROVE  [job[u] EXCEPT !.over = TRUE] \in Jobs /\ GoodJob([job[u] EXCEPT !.over = TRUE])
    <3> job[u] \in Jobs /\ GoodJob(job[u])
      OBVIOUS
    <3> HIDE DEF TypeInv
    <3>1. [job[u] EXCEPT !.over = TRUE] \in Jobs
      BY DEF Jobs
    <3>2. GoodJob([job[u] EXCEPT !.over = TRUE])
      BY DEF Jobs, GoodJob
    <3> QED
      BY <3>1, <3>2
  <2> QED
    BY <1>over, <2>1, IdleTyped DEF FinishOvertaking
<1>1. ASSUME NEW t \in Thread, Request(t) PROVE TypeInv'
  <2>1. PICK j \in Jobs : GoodJob(j) /\ Start(t, j)
    BY <1>1, RequestStarts DEF Fresh
  <2>2. Clashes(j) \subseteq FolderId
    BY DEF Clashes, Jobs
  <2> QED
    BY <2>1, <2>2, <1>0 DEF Start
<1>2. ASSUME NEW t \in Thread, Find(t) \/ NameExists(t) \/ MakeUniqueName(t) \/ HasChildren(t) \/ FindFile(t)
      PROVE  TypeInv'
  <2> UNCHANGED <<folders, files, raced>>
    BY <1>2 DEF Find, NameExists, MakeUniqueName, HasChildren, FindFile
  <2>1. CASE Find(t)
    <3>1. ASSUME NEW s \in Names, job[t].pc = "find"
          PROVE  /\ [job[t] EXCEPT !.pc = AfterFind(job[t].op), !.was = s] \in Jobs
                 /\ GoodJob([job[t] EXCEPT !.pc = AfterFind(job[t].op), !.was = s])
      <4>1. job[t].op \in {"create", "upload", "link", "rename", "delete"}
        BY <3>1 DEF GoodJob, OpsAt
      <4> QED
        BY <3>1, <4>1, AfterFindAt, ZenonT(30) DEF Jobs, GoodJob
    <3>2. Finds(job[t].user, job[t].dir) => folders[job[t].dir].name \in Names
      BY DEF Finds, Live, Rows
    <3>3. job[t].was \in Names
      BY DEF Jobs
    <3> DEFINE w == IF job[t].op = "rename" THEN folders[job[t].dir].name ELSE job[t].was
    <3>4. CASE Finds(job[t].user, job[t].dir)
      <4>1. w \in Names
        BY <3>2, <3>3, <3>4
      <4>2. Become(t, [job[t] EXCEPT !.pc = AfterFind(job[t].op), !.was = w])
        BY <2>1, <3>4 DEF Find, Jobs
      <4> HIDE DEF w
      <4> QED
        BY <4>1, <4>2, <3>1, <2>1, <1>0 DEF Find
    <3> QED
      BY <3>4, <2>1, <1>idle DEF Find
  <2>2. CASE NameExists(t)
    <3>1. ASSUME job[t].pc = "name_exists", NEW pc, pc = IF job[t].op = "create" THEN "insert" ELSE "rename"
          PROVE  [job[t] EXCEPT !.pc = pc] \in Jobs /\ GoodJob([job[t] EXCEPT !.pc = pc])
      BY <3>1 DEF Jobs, GoodJob, OpsAt, Located
    <3> QED
      BY <3>1, <2>2, <1>idle, <1>0 DEF NameExists
  <2>3. CASE MakeUniqueName(t)
    <3> job[t].pc = "unique" /\ job[t].op = "link"
      BY <2>3 DEF MakeUniqueName, GoodJob, OpsAt
    <3>1. ASSUME NEW n \in Nat
          PROVE  /\ [job[t] EXCEPT !.pc = "insert", !.n = n] \in Jobs
                 /\ GoodJob([job[t] EXCEPT !.pc = "insert", !.n = n])
      BY ZenonT(30) DEF Jobs, GoodJob, OpsAt, Located
    <3>2. /\ [job[t] EXCEPT !.pc = "insert"] \in Jobs /\ GoodJob([job[t] EXCEPT !.pc = "insert"])
          /\ [job[t] EXCEPT !.n = @ + 1] \in Jobs /\ GoodJob([job[t] EXCEPT !.n = @ + 1])
      <4>1. job[t].n + 1 \in Nat
        BY DEF Jobs
      <4> QED
        BY <4>1 DEF Jobs, GoodJob, OpsAt, Located
    <3>3. CASE Become(t, [job[t] EXCEPT !.pc = "insert"])
      BY <3>2, <3>3, <1>0
    <3>4. CASE Become(t, [job[t] EXCEPT !.n = @ + 1])
      BY <3>2, <3>4, <1>0
    <3>5. ASSUME NEW n \in Stamp, Become(t, [job[t] EXCEPT !.pc = "insert", !.n = n]) PROVE TypeInv'
      BY <3>1, <3>5, <1>0
    <3> QED
      BY <2>3, <3>3, <3>4, <3>5 DEF MakeUniqueName
  <2>4. CASE HasChildren(t)
    <3>1. ASSUME job[t].pc \in {"has_folders", "has_files"}, NEW pc \in {"has_files", "soft_delete"}
          PROVE  [job[t] EXCEPT !.pc = pc] \in Jobs /\ GoodJob([job[t] EXCEPT !.pc = pc])
      BY <3>1 DEF Jobs, GoodJob, OpsAt, Located
    <3> QED
      BY <3>1, <2>4, <1>idle, <1>0 DEF HasChildren
  <2>5. CASE FindFile(t)
    <3>1. ASSUME job[t].pc = "find_file"
          PROVE  [job[t] EXCEPT !.pc = "remove"] \in Jobs /\ GoodJob([job[t] EXCEPT !.pc = "remove"])
      BY <3>1 DEF Jobs, GoodJob, OpsAt
    <3> QED
      BY <3>1, <2>5, <1>idle, <1>0 DEF FindFile
  <2> QED
    BY <1>2, <2>1, <2>2, <2>3, <2>4, <2>5
<1>3. ASSUME NEW t \in Thread, InsertFolder(t) PROVE TypeInv'
  <2>1. Row(job[t].user, job[t].dir, job[t].name) \in Rows
    BY RowTyped, NamesAsked DEF Jobs
  <2> QED
    BY <2>1, <1>3, <1>idle, <1>over DEF InsertFolder
<1>4. ASSUME NEW t \in Thread, InsertFile(t) PROVE TypeInv'
  <2>1. Candidate(job[t].name, job[t].n) \in Names
    BY DEF Jobs, Names
  <2>2. Row(job[t].user, job[t].dir, Candidate(job[t].name, job[t].n)) \in Rows
    BY <2>1, RowTyped DEF Jobs
  <2> QED
    BY <2>2, <1>4, <1>idle, <1>over DEF InsertFile
<1>5. ASSUME NEW t \in Thread, Rename(t) PROVE TypeInv'
  <2>1. job[t].name \in Names
    BY NamesAsked DEF Jobs
  <2>2. Live(folders, job[t].dir) => [folders EXCEPT ![job[t].dir].name = job[t].name] \in [FolderId -> Rows]
    BY <2>1 DEF Live, Rows
  <2> QED
    BY <2>2, <1>5, <1>idle, <1>over DEF Rename
<1>6. ASSUME NEW t \in Thread, SoftDelete(t) PROVE TypeInv'
  <2>1. ASSUME NEW p \in FolderId PROVE DeletedFolder(folders[p]) \in Rows
    BY NamesAsked DEF DeletedFolder, Rows, Asked
  <2>2. folders' \in [FolderId -> Rows]
    BY <2>1, <1>6 DEF SoftDelete
  <2> QED
    BY <2>2, <1>6, <1>idle, <1>over DEF SoftDelete
<1>7. ASSUME NEW t \in Thread, Remove(t) PROVE TypeInv'
  BY <1>7, <1>idle, <1>over, NoRowTyped DEF Remove
<1>8. CASE UNCHANGED vars
  BY <1>8 DEF vars
<1> QED
  BY <1>1, <1>2, <1>3, <1>4, <1>5, <1>6, <1>7, <1>8 DEF Next, Step

-------------------------------------------------------------------------------
(* What a step does to the rows and to the other jobs. *)

(* A row that was inserted stays, with its owner and its place: nothing    *)
(* moves a folder, and soft_delete only marks it.                          *)
LEMMA FolderStays ==
    ASSUME TypeInv, NEW t \in Thread, Step(t), NEW p \in FolderId, folders[p].state # "free"
    PROVE  /\ folders'[p].state # "free"
           /\ folders'[p].owner = folders[p].owner
           /\ folders'[p].parent = folders[p].parent
<1>1. CASE InsertFolder(t)
  BY <1>1 DEF InsertFolder, TypeInv, NoRow
<1>2. CASE Rename(t)
  BY <1>2 DEF Rename, TypeInv, Rows, Live
<1>3. CASE SoftDelete(t)
  BY <1>3 DEF SoftDelete, TypeInv, Rows, DeletedFolder
<1>4. CASE UNCHANGED folders
  BY <1>4
<1> QED
  BY <1>1, <1>2, <1>3, <1>4
  DEF Step, Find, NameExists, MakeUniqueName, HasChildren, InsertFile, FindFile, Remove

(* A live folder ends only by the soft_delete of a job for it. *)
LEMMA FolderLives ==
    ASSUME TypeInv, NEW t \in Thread, Step(t), NEW p \in FolderId, Live(folders, p)
    PROVE  Live(folders', p) \/ (SoftDelete(t) /\ job[t].dir = p)
<1> USE DEF Live, TypeInv
<1>1. CASE InsertFolder(t)
  BY <1>1 DEF InsertFolder, NoRow
<1>2. CASE Rename(t)
  BY <1>2 DEF Rename, Rows
<1>3. CASE SoftDelete(t)
  BY <1>3 DEF SoftDelete
<1>4. CASE UNCHANGED folders
  BY <1>4
<1> QED
  BY <1>1, <1>2, <1>3, <1>4
  DEF Step, Find, NameExists, MakeUniqueName, HasChildren, InsertFile, FindFile, Remove

(* An entry that is live after a step was live in the same place, or the   *)
(* step has inserted it where its job was to put it.                       *)
LEMMA NewFolder ==
    ASSUME TypeInv, NEW t \in Thread, Step(t), NEW i \in FolderId, folders'[i].state = "live"
    PROVE  \/ /\ folders[i].state = "live" /\ folders'[i].owner = folders[i].owner
              /\ folders'[i].parent = folders[i].parent
           \/ /\ InsertFolder(t) /\ folders[i].state = "free"
              /\ folders'[i].owner = job[t].user /\ folders'[i].parent = job[t].dir
<1> USE DEF TypeInv
<1>1. CASE InsertFolder(t)
  BY <1>1 DEF InsertFolder, NoRow, Row
<1>2. CASE Rename(t)
  BY <1>2 DEF Rename, Rows, Live
<1>3. CASE SoftDelete(t)
  BY <1>3 DEF SoftDelete, Rows, DeletedFolder
<1>4. CASE UNCHANGED folders
  BY <1>4
<1> QED
  BY <1>1, <1>2, <1>3, <1>4
  DEF Step, Find, NameExists, MakeUniqueName, HasChildren, InsertFile, FindFile, Remove

(* The same of files (FileDao::insert, insert_link). *)
LEMMA NewFile ==
    ASSUME TypeInv, NEW t \in Thread, Step(t), NEW i \in FileId, files'[i].state = "live"
    PROVE  \/ /\ files[i].state = "live" /\ files'[i].owner = files[i].owner
              /\ files'[i].parent = files[i].parent
           \/ /\ InsertFile(t) /\ files'[i].owner = job[t].user /\ files'[i].parent = job[t].dir
<1> USE DEF TypeInv
<1>1. CASE InsertFile(t)
  BY <1>1 DEF InsertFile, NoRow, Row
<1>2. CASE Remove(t)
  BY <1>2 DEF Remove, DeletedFile, NoRow
<1>3. CASE UNCHANGED files
  BY <1>3
<1> QED
  BY <1>1, <1>2, <1>3
  DEF Step, Find, NameExists, MakeUniqueName, HasChildren, InsertFolder, Rename, SoftDelete, FindFile

(* Other jobs stay as they are, but for the history of being overtaken. *)
Same(j, k) ==
    /\ j.pc = k.pc /\ j.op = k.op /\ j.user = k.user /\ j.dir = k.dir /\ j.name = k.name /\ j.n = k.n
    /\ k.over => j.over

(* Whatever step a thread takes, the jobs of the others are the same (Step). *)
LEMMA OthersSame ==
    ASSUME TypeInv, NEW t \in Thread, Step(t), NEW u \in Thread, u # t
    PROVE  Same(job'[u], job[u])
<1>1. ASSUME NEW j, Become(t, j) PROVE job'[u] = job[u]
  BY <1>1 DEF Become, TypeInv
<1>2. Finish(t) => job'[u] = job[u]
  BY <1>1 DEF Finish
<1>3. ASSUME NEW op, NEW p, FinishOvertaking(t, op, p)
      PROVE  job'[u] = job[u] \/ job'[u] = [job[u] EXCEPT !.over = TRUE]
  BY <1>3 DEF FinishOvertaking
<1>4. job'[u] = job[u] \/ job'[u] = [job[u] EXCEPT !.over = TRUE]
  <2>1. CASE Find(t) \/ NameExists(t) \/ MakeUniqueName(t) \/ HasChildren(t) \/ FindFile(t)
    BY <2>1, <1>1, <1>2 DEF Find, NameExists, MakeUniqueName, HasChildren, FindFile
  <2>2. CASE InsertFolder(t) \/ InsertFile(t) \/ Rename(t) \/ SoftDelete(t) \/ Remove(t)
    BY <2>2, <1>2, <1>3 DEF InsertFolder, InsertFile, Rename, SoftDelete, Remove
  <2> QED
    BY <2>1, <2>2 DEF Step
<1>5. job[u] \in Jobs
  BY DEF TypeInv
<1>6. Same(job[u], job[u]) /\ Same([job[u] EXCEPT !.over = TRUE], job[u])
  BY <1>5 DEF Same, Jobs
<1> QED
  BY <1>4, <1>6

(* The job that steps ends, or goes on for the same folder. *)
LEMMA GoesOn ==
    ASSUME TypeInv, NEW t \in Thread, Step(t)
    PROVE  /\ job[t].pc # "idle" /\ raced' = raced
           /\ \/ job'[t] = Idle
              \/ /\ job'[t].op = job[t].op /\ job'[t].user = job[t].user /\ job'[t].dir = job[t].dir
                 /\ job'[t].pc # "idle" /\ UNCHANGED <<folders, files>>
                 /\ \/ job[t].pc \in Located
                    \/ job[t].pc = "find" /\ Finds(job[t].user, job[t].dir)
                    \/ job[t].pc = "find_file" /\ job'[t].pc = "remove"
<1> USE DEF TypeInv
<1>0. Finish(t) => job'[t] = Idle
  BY DEF Finish, Become
<1>1. CASE Find(t)
  <2>1. job[t].op \in {"create", "upload", "link", "rename", "delete"}
    BY <1>1 DEF Find, GoodJob, OpsAt
  <2>2. AfterFind(job[t].op) # "idle"
    BY <2>1, AfterFindAt DEF Located
  <2>3. CASE Finds(job[t].user, job[t].dir)
    <3>1. job'[t] = [job[t] EXCEPT !.pc = AfterFind(job[t].op),
                                   !.was = IF job[t].op = "rename" THEN folders[job[t].dir].name ELSE @]
      BY <1>1, <2>3 DEF Find, Become
    <3>2. job[t] \in Jobs
      OBVIOUS
    <3> HIDE DEF TypeInv
    <3> QED
      BY <1>1, <2>2, <2>3, <3>1, <3>2 DEF Find, Jobs
  <2> QED
    BY <1>1, <1>0, <2>3 DEF Find
<1>2. CASE NameExists(t)
  BY <1>2, <1>0 DEF NameExists, Become, Jobs, Located
<1>3. CASE MakeUniqueName(t)
  BY <1>3, ZenonT(30) DEF MakeUniqueName, Become, Jobs, Located
<1>4. CASE HasChildren(t)
  BY <1>4, <1>0 DEF HasChildren, Become, Jobs, Located
<1>5. CASE FindFile(t)
  BY <1>5, <1>0 DEF FindFile, Become, Jobs
<1>6. CASE InsertFolder(t) \/ InsertFile(t) \/ Rename(t) \/ SoftDelete(t) \/ Remove(t)
  BY <1>6, <1>0 DEF InsertFolder, InsertFile, Rename, SoftDelete, Remove, FinishOvertaking
<1> QED
  BY <1>1, <1>2, <1>3, <1>4, <1>5, <1>6 DEF Step

-------------------------------------------------------------------------------
(* OwnTree *)

(* A job that has passed the lookup of its folder has seen that its user   *)
(* owns it; the row is there ever after.                                   *)
Found ==
    \A t \in Thread : job[t].pc \in Located /\ job[t].dir # Root =>
        /\ folders[job[t].dir].state # "free"
        /\ folders[job[t].dir].owner = job[t].user

(* The strengthening of OwnTree that is inductive. *)
OwnInv == TypeInv /\ OwnTree /\ Found

(* OwnInv is inductive: an insert puts the row where its job has found a   *)
(* folder of the same owner (resolve_folder_id, handle_create), and no     *)
(* step takes a folder row, its owner or its place away.                   *)
LEMMA OwnNext == OwnInv /\ [Next]_vars => OwnInv'
<1> SUFFICES ASSUME OwnInv, [Next]_vars PROVE OwnInv'
  OBVIOUS
<1>0. TypeInv /\ TypeInv'
  BY TypeNext DEF OwnInv
<1>1. ASSUME NEW t \in Thread, Request(t) PROVE OwnTree' /\ Found'
  <2>1. PICK j \in Jobs : GoodJob(j) /\ Fresh(j) /\ Start(t, j)
    BY <1>1, RequestStarts
  <2>2. UNCHANGED <<folders, files>> /\ job' = [job EXCEPT ![t] = j]
    BY <2>1 DEF Start, Become
  <2>3. OwnTree'
    BY <2>2 DEF OwnInv, OwnTree, OwnIn
  <2>4. ASSUME NEW u \in Thread, job'[u].pc \in Located, job'[u].dir # Root
        PROVE  u # t /\ job'[u] = job[u]
    BY <2>1, <2>2, <2>4, <1>0 DEF Fresh, TypeInv
  <2>5. Found'
    BY <2>2, <2>4 DEF OwnInv, Found
  <2> QED
    BY <2>3, <2>5
<1>2. ASSUME NEW t \in Thread, Step(t) PROVE OwnTree' /\ Found'
  <2>1. ASSUME NEW p \in FolderId, folders[p].state # "free"
        PROVE  folders'[p].state # "free" /\ folders'[p].owner = folders[p].owner
    BY <1>0, <1>2, <2>1, FolderStays
  <2>2. ASSUME job[t].pc = "insert", job[t].dir # Root
        PROVE  /\ job[t].dir \in FolderId
               /\ folders[job[t].dir].state # "free"
               /\ folders[job[t].dir].owner = job[t].user
    BY <2>2, <1>0 DEF OwnInv, Found, Located, TypeInv, Jobs
  <2>3. OwnIn(folders)'
    <3> SUFFICES ASSUME NEW i \in FolderId, folders'[i].state = "live", folders'[i].parent # Root
                 PROVE  /\ folders'[i].parent \in FolderId
                        /\ folders'[folders'[i].parent].state # "free"
                        /\ folders'[folders'[i].parent].owner = folders'[i].owner
      BY <1>0 DEF OwnIn, TypeInv
    <3>1. CASE /\ folders[i].state = "live" /\ folders'[i].owner = folders[i].owner
               /\ folders'[i].parent = folders[i].parent
      BY <3>1, <2>1, <1>0 DEF OwnInv, OwnTree, OwnIn, TypeInv
    <3>2. CASE InsertFolder(t) /\ folders'[i].owner = job[t].user /\ folders'[i].parent = job[t].dir
      BY <3>2, <2>1, <2>2 DEF InsertFolder
    <3> QED
      BY <3>1, <3>2, <1>0, <1>2, NewFolder
  <2>4. OwnIn(files)'
    <3> SUFFICES ASSUME NEW i \in FileId, files'[i].state = "live", files'[i].parent # Root
                 PROVE  /\ files'[i].parent \in FolderId
                        /\ folders'[files'[i].parent].state # "free"
                        /\ folders'[files'[i].parent].owner = files'[i].owner
      BY <1>0 DEF OwnIn, TypeInv
    <3>1. CASE /\ files[i].state = "live" /\ files'[i].owner = files[i].owner
               /\ files'[i].parent = files[i].parent
      BY <3>1, <2>1, <1>0 DEF OwnInv, OwnTree, OwnIn, TypeInv
    <3>2. CASE InsertFile(t) /\ files'[i].owner = job[t].user /\ files'[i].parent = job[t].dir
      BY <3>2, <2>1, <2>2 DEF InsertFile
    <3> QED
      BY <3>1, <3>2, <1>0, <1>2, NewFile
  <2>5. Found'
    <3> SUFFICES ASSUME NEW u \in Thread, job'[u].pc \in Located, job'[u].dir # Root
                 PROVE  /\ folders'[job'[u].dir].state # "free"
                        /\ folders'[job'[u].dir].owner = job'[u].user
      BY DEF Found
    <3>1. CASE u # t
      <4>1. Same(job'[u], job[u])
        BY <1>0, <1>2, <3>1, OthersSame
      <4>2. job[u].dir \in FolderId
        BY <4>1, <1>0 DEF Same, TypeInv, Jobs
      <4> QED
        BY <4>1, <4>2, <2>1 DEF Same, OwnInv, Found
    <3>2. CASE u = t
      <4>1. job'[t] # Idle /\ job[t].dir \in FolderId
        <5>1. Idle.pc \notin Located
          BY DEF Idle, Located
        <5>2. job'[t] # Idle
          BY <5>1, <3>2
        <5> QED
          BY <5>2, <3>2, <1>0, <1>2, GoesOn DEF TypeInv, Jobs
      <4>2. job[t].pc \in Located \/ Finds(job[t].user, job[t].dir)
        BY <4>1, <3>2, <1>0, <1>2, GoesOn DEF Located
      <4>3. folders[job[t].dir].state # "free" /\ folders[job[t].dir].owner = job[t].user
        BY <4>1, <4>2, <3>2, <1>0, <1>2, GoesOn DEF OwnInv, Found, Finds, Live
      <4> QED
        BY <4>1, <4>3, <3>2, <1>0, <1>2, GoesOn
    <3> QED
      BY <3>1, <3>2
  <2> QED
    BY <2>3, <2>4, <2>5 DEF OwnTree
<1>3. ASSUME UNCHANGED vars PROVE OwnTree' /\ Found'
  BY <1>3 DEF vars, OwnInv, OwnTree, OwnIn, Found
<1> QED
  BY <1>0, <1>1, <1>2, <1>3 DEF Next, OwnInv

(* No folder is there at the start, and no job. *)
LEMMA InitOwn == Init => OwnInv
<1> SUFFICES ASSUME Init PROVE OwnInv
  OBVIOUS
<1>1. OwnTree
  BY DEF Init, OwnTree, OwnIn, NoRow
<1>2. Found
  BY DEF Init, Found, Idle, Located
<1> QED
  BY <1>1, <1>2, InitType DEF OwnInv

(* OwnTree for any number of threads, users, folders and files: every live *)
(* folder and file lies in the root or in a folder of its own owner,       *)
(* however the requests interleave (resolve_folder_id, handle_create).     *)
THEOREM OwnTreeHolds == Spec => []OwnTree
<1>1. OwnInv => OwnTree
  BY DEF OwnInv
<1> QED
  BY InitOwn, OwnNext, <1>1, PTL DEF Spec

-------------------------------------------------------------------------------
(* EntriesListed *)

(* Two requests for one folder, one of which deletes it, are in raced. *)
RacesSeen ==
    \A t, u \in Thread :
        (/\ t # u /\ job[t].pc # "idle" /\ job[u].pc # "idle"
         /\ job[t].op = "delete" /\ job[t].dir = job[u].dir) => job[t].dir \in raced

(* What has_children has seen stays true, unless the deletion is raced. *)
SeenEmpty ==
    \A t \in Thread :
        /\ job[t].pc \in {"has_files", "soft_delete"} => ~HasLive(folders, job[t].dir) \/ job[t].dir \in raced
        /\ job[t].pc = "soft_delete" => ~HasLive(files, job[t].dir) \/ job[t].dir \in raced

(* A folder that a job has found is live until then, too. *)
StillLive ==
    \A t \in Thread : job[t].pc \in Located /\ job[t].dir # Root =>
        Live(folders, job[t].dir) \/ job[t].dir \in raced

(* The folder of a live entry is live, unless its deletion is raced. *)
InLive(rows) ==
    \A i \in DOMAIN rows : rows[i].state = "live" /\ rows[i].parent # Root =>
        Live(folders, rows[i].parent) \/ rows[i].parent \in raced

(* The strengthening of EntriesListed that is inductive. *)
ListInv == OwnInv /\ RacesSeen /\ SeenEmpty /\ StillLive /\ InLive(folders) /\ InLive(files)

(* A job that a thread has after a step it had before, for the same folder. *)
LEMMA Before ==
    ASSUME TypeInv, NEW t \in Thread, Step(t), NEW u \in Thread, job'[u].pc # "idle"
    PROVE  job[u].pc # "idle" /\ job'[u].op = job[u].op /\ job'[u].dir = job[u].dir
<1>1. CASE u # t
  BY <1>1, OthersSame DEF Same
<1>2. CASE u = t
  <2>1. job'[t] # Idle
    BY <1>2 DEF Idle
  <2> QED
    BY <1>2, <2>1, GoesOn
<1> QED
  BY <1>1, <1>2

(* A request: the new job adds to raced what it clashes with. *)
LEMMA ListRequest ==
    ASSUME ListInv, NEW t \in Thread, Request(t)
    PROVE  RacesSeen' /\ SeenEmpty' /\ StillLive' /\ InLive(folders)' /\ InLive(files)'
<1>0. TypeInv
  BY DEF ListInv, OwnInv
<1>1. PICK j \in Jobs : GoodJob(j) /\ Fresh(j) /\ Start(t, j)
  BY RequestStarts
<1>2. /\ UNCHANGED <<folders, files>> /\ job' = [job EXCEPT ![t] = j]
      /\ raced \subseteq raced' /\ raced' = raced \cup Clashes(j) /\ job[t].pc = "idle"
  BY <1>1 DEF Start, Become
<1>3. \A u \in Thread : job'[u] = IF u = t THEN j ELSE job[u]
  BY <1>2, <1>0 DEF TypeInv
<1>4. RacesSeen'
  <2> SUFFICES ASSUME NEW u \in Thread, NEW v \in Thread, u # v, job'[u].pc # "idle", job'[v].pc # "idle",
                      job'[u].op = "delete", job'[u].dir = job'[v].dir
               PROVE  job'[u].dir \in raced'
    BY DEF RacesSeen
  <2>1. CASE u # t /\ v # t
    BY <2>1, <1>2, <1>3 DEF ListInv, RacesSeen
  <2>2. job'[u].dir # Root
    BY TypeNext, <1>0, NamespaceAssumption DEF TypeInv, GoodJob, Next
  <2>3. CASE u = t
    BY <2>2, <2>3, <1>2, <1>3 DEF Clashes
  <2>4. CASE v = t
    BY <2>2, <2>4, <1>2, <1>3 DEF Clashes
  <2> QED
    BY <2>1, <2>3, <2>4
<1>5. ASSUME NEW u \in Thread, job'[u].pc \in Located, job'[u].dir # Root PROVE u # t /\ job'[u] = job[u]
  BY <1>1, <1>3, <1>5 DEF Fresh
<1>6. StillLive'
  BY <1>2, <1>5 DEF ListInv, StillLive, Live
<1>7. ASSUME NEW u \in Thread, job'[u].pc \in {"has_files", "soft_delete"} PROVE u # t /\ job'[u] = job[u]
  <2>1. TypeInv'
    BY TypeNext, <1>0 DEF Next
  <2>2. job'[u].dir \in FolderId
    BY <1>7, <2>1 DEF TypeInv, GoodJob, OpsAt
  <2> QED
    BY <1>5, <1>7, <2>2, NamespaceAssumption DEF Located
<1>8. SeenEmpty'
  BY <1>2, <1>7 DEF ListInv, SeenEmpty, HasLive
<1>9. InLive(folders)' /\ InLive(files)'
  BY <1>2 DEF ListInv, InLive, Live
<1> QED
  BY <1>4, <1>6, <1>8, <1>9

(* A step: an insert and a deletion that meet in one folder are raced, so  *)
(* what each of them has seen of the folder otherwise holds to the end.    *)
LEMMA ListStep ==
    ASSUME ListInv, NEW t \in Thread, Step(t)
    PROVE  RacesSeen' /\ SeenEmpty' /\ StillLive' /\ InLive(folders)' /\ InLive(files)'
<1>0. TypeInv /\ TypeInv' /\ raced' = raced /\ job[t].pc # "idle"
  <2>1. TypeInv
    BY DEF ListInv, OwnInv
  <2> QED
    BY <2>1, TypeNext, GoesOn DEF Next
<1>1. RacesSeen'
  <2> SUFFICES ASSUME NEW u \in Thread, NEW v \in Thread, u # v, job'[u].pc # "idle", job'[v].pc # "idle",
                      job'[u].op = "delete", job'[u].dir = job'[v].dir
               PROVE  job'[u].dir \in raced'
    BY DEF RacesSeen
  <2> QED
    BY <1>0, Before DEF ListInv, RacesSeen
(* A deletion of a live folder meets no entry and no other job there, or is raced. *)
<1>2. ASSUME NEW p \in FolderId, Live(folders, p), ~Live(folders', p)
      PROVE  /\ ~HasLive(folders, p) /\ ~HasLive(files, p) /\ UNCHANGED files
             /\ \A u \in Thread \ {t} : job[u].pc # "idle" => job[u].dir # p
          \/ p \in raced
  <2>1. SoftDelete(t) /\ job[t].dir = p
    BY <1>0, <1>2, FolderLives
  <2>2. job[t].pc = "soft_delete" /\ job[t].op = "delete" /\ UNCHANGED files
    BY <2>1, <1>0 DEF SoftDelete, TypeInv, GoodJob, OpsAt
  <2> QED
    BY <2>1, <2>2, <1>0 DEF ListInv, SeenEmpty, RacesSeen
<1>3. ASSUME job[t].pc = "insert", job[t].dir # Root PROVE Live(folders, job[t].dir) \/ job[t].dir \in raced
  BY <1>3 DEF ListInv, StillLive, Located
<1>4. InLive(folders)'
  <2> SUFFICES ASSUME NEW i \in FolderId, folders'[i].state = "live", folders'[i].parent # Root
               PROVE  Live(folders', folders'[i].parent) \/ folders'[i].parent \in raced
    BY <1>0 DEF InLive, TypeInv
  <2>0. folders'[i].parent \in FolderId
    BY <1>0 DEF TypeInv, Rows
  <2>1. CASE folders[i].state = "live" /\ folders'[i].parent = folders[i].parent
    <3>1. Live(folders, folders[i].parent) \/ folders[i].parent \in raced
      BY <2>1, <1>0 DEF ListInv, InLive, TypeInv
    <3>2. HasLive(folders, folders[i].parent)
      BY <2>1, <1>0 DEF HasLive, TypeInv
    <3> QED
      BY <2>0, <2>1, <3>1, <3>2, <1>2
  <2>2. CASE InsertFolder(t) /\ folders'[i].parent = job[t].dir
    <3>1. job[t].pc = "insert"
      BY <2>2 DEF InsertFolder
    <3>2. ~SoftDelete(t)
      BY <3>1 DEF SoftDelete
    <3> QED
      BY <2>0, <2>2, <3>1, <3>2, <1>0, <1>3, FolderLives
  <2> QED
    BY <2>1, <2>2, <1>0, NewFolder
<1>5. InLive(files)'
  <2> SUFFICES ASSUME NEW i \in FileId, files'[i].state = "live", files'[i].parent # Root
               PROVE  Live(folders', files'[i].parent) \/ files'[i].parent \in raced
    BY <1>0 DEF InLive, TypeInv
  <2>0. files'[i].parent \in FolderId
    BY <1>0 DEF TypeInv, Rows
  <2>1. CASE files[i].state = "live" /\ files'[i].parent = files[i].parent
    <3>1. Live(folders, files[i].parent) \/ files[i].parent \in raced
      BY <2>1, <1>0 DEF ListInv, InLive, TypeInv
    <3>2. HasLive(files, files[i].parent)
      BY <2>1, <1>0 DEF HasLive, TypeInv
    <3> QED
      BY <2>0, <2>1, <3>1, <3>2, <1>2
  <2>2. CASE InsertFile(t) /\ files'[i].parent = job[t].dir
    <3>1. job[t].pc = "insert"
      BY <2>2 DEF InsertFile
    <3>2. ~SoftDelete(t)
      BY <3>1 DEF SoftDelete
    <3> QED
      BY <2>0, <2>2, <3>1, <3>2, <1>0, <1>3, FolderLives
  <2> QED
    BY <2>1, <2>2, <1>0, NewFile
<1>6. StillLive'
  <2> SUFFICES ASSUME NEW u \in Thread, job'[u].pc \in Located, job'[u].dir # Root
               PROVE  Live(folders', job'[u].dir) \/ job'[u].dir \in raced
    BY <1>0 DEF StillLive
  <2>0. job'[u].pc # "idle" /\ job'[u].dir \in FolderId
    BY <1>0 DEF Located, TypeInv, Jobs
  <2>1. job[u].pc # "idle" /\ job'[u].dir = job[u].dir
    BY <1>0, <2>0, Before
  <2>2. CASE u # t
    <3>1. Live(folders, job[u].dir) \/ job[u].dir \in raced
      BY <2>2, <1>0, <2>1, OthersSame DEF Same, ListInv, StillLive
    <3> QED
      BY <3>1, <2>0, <2>1, <2>2, <1>2
  <2>3. CASE u = t
    <3>1. job'[t] # Idle
      BY <2>0, <2>3 DEF Idle
    <3>2. job[t].pc \in Located \/ Finds(job[t].user, job[t].dir)
      BY <3>1, <2>3, <1>0, GoesOn DEF Located
    <3>3. Live(folders, job[t].dir) \/ job[t].dir \in raced
      BY <3>2, <2>1, <2>3 DEF ListInv, StillLive, Finds
    <3> QED
      BY <3>1, <3>3, <2>1, <2>3, <1>0, GoesOn DEF Live
  <2> QED
    BY <2>2, <2>3
<1>7. SeenEmpty'
  <2> SUFFICES ASSUME NEW u \in Thread, job'[u].pc \in {"has_files", "soft_delete"}, job'[u].dir \notin raced
               PROVE  /\ ~HasLive(folders', job'[u].dir)
                      /\ job'[u].pc = "soft_delete" => ~HasLive(files', job'[u].dir)
    BY <1>0 DEF SeenEmpty
  <2>1. job[u].pc # "idle" /\ job'[u].dir = job[u].dir /\ job'[u].op = job[u].op /\ job[u].op = "delete"
    BY <1>0, Before DEF TypeInv, GoodJob, OpsAt
  <2>2. CASE u # t
    <3>1. job'[u].pc = job[u].pc
      BY <2>2, <1>0, OthersSame DEF Same
    <3>2. job[t].dir # job[u].dir
      BY <2>1, <2>2, <1>0 DEF ListInv, RacesSeen
    <3>3. ~HasLive(folders', job[u].dir)
      <4> SUFFICES ASSUME NEW i \in FolderId, folders'[i].state = "live", folders'[i].parent = job[u].dir
                   PROVE  FALSE
        BY <1>0 DEF HasLive, TypeInv
      <4>1. folders[i].state = "live" /\ folders[i].parent = job[u].dir
        BY <3>2, <1>0, NewFolder
      <4> QED
        BY <4>1, <3>1, <2>1, <1>0 DEF ListInv, SeenEmpty, HasLive, TypeInv
    <3>4. ASSUME job[u].pc = "soft_delete" PROVE ~HasLive(files', job[u].dir)
      <4> SUFFICES ASSUME NEW i \in FileId, files'[i].state = "live", files'[i].parent = job[u].dir
                   PROVE  FALSE
        BY <1>0 DEF HasLive, TypeInv
      <4>1. files[i].state = "live" /\ files[i].parent = job[u].dir
        BY <3>2, <1>0, NewFile
      <4> QED
        BY <4>1, <3>4, <2>1, <1>0 DEF ListInv, SeenEmpty, HasLive, TypeInv
    <3> QED
      BY <3>1, <3>3, <3>4, <2>1
  <2>3. CASE u = t
    <3>0. job'[t] # Idle
      BY <2>3 DEF Idle
    <3>1. UNCHANGED <<folders, files>> /\ job[t].pc \in Located \cup {"find"}
      BY <3>0, <2>1, <2>3, <1>0, GoesOn DEF TypeInv, GoodJob, OpsAt
    <3>2. HasChildren(t)
      <4>1. Find(t) => job'[t].pc = "has_folders"
        <5> SUFFICES ASSUME Find(t) PROVE job'[t].pc = "has_folders"
          OBVIOUS
        <5> DEFINE n == [job[t] EXCEPT !.pc = AfterFind(job[t].op),
                                       !.was = IF job[t].op = "rename" THEN folders[job[t].dir].name ELSE @]
        <5>1. job[t] \in Jobs
          BY <1>0 DEF TypeInv
        <5>2. n.pc = AfterFind(job[t].op) /\ n.op = job[t].op
          BY <5>1 DEF Jobs
        <5>3. Become(t, n)
          BY <3>0, <1>0 DEF Find, Finish, Become, TypeInv
        <5> HIDE DEF n
        <5>4. job'[t] = n
          BY <5>3, <1>0 DEF Become, TypeInv
        <5>5. job[t].op = "delete"
          BY <5>2, <5>4, <2>1, <2>3
        <5> QED
          BY <5>2, <5>4, <5>5 DEF AfterFind
      <4>2. ~SoftDelete(t)
        BY <3>0, <1>0 DEF SoftDelete, FinishOvertaking, Finish, Become, TypeInv
      <4>3. job[t].pc \notin {"name_exists", "unique", "insert", "rename"}
        BY <2>1, <2>3, <1>0 DEF TypeInv, GoodJob, OpsAt
      <4> QED
        BY <4>1, <4>2, <4>3, <2>3, <3>1, <1>0
        DEF Step, NameExists, MakeUniqueName, InsertFolder, InsertFile, Rename, FindFile, Remove, Located
    <3>3. \/ job[t].pc = "has_folders" /\ ~HasLive(folders, job[t].dir) /\ job'[t].pc = "has_files"
          \/ job[t].pc = "has_files" /\ ~HasLive(files, job[t].dir) /\ job'[t].pc = "soft_delete"
      BY <3>0, <3>2, <1>0 DEF HasChildren, Finish, Become, TypeInv, Jobs
    <3> QED
      BY <3>1, <3>3, <2>1, <2>3 DEF ListInv, SeenEmpty, HasLive
  <2> QED
    BY <2>2, <2>3
<1> QED
  BY <1>1, <1>4, <1>5, <1>6, <1>7

(* ListInv is inductive. *)
LEMMA ListNext == ListInv /\ [Next]_vars => ListInv'
<1> SUFFICES ASSUME ListInv, [Next]_vars PROVE ListInv'
  OBVIOUS
<1>1. OwnInv'
  BY OwnNext DEF ListInv
<1>2. ASSUME UNCHANGED vars PROVE RacesSeen' /\ SeenEmpty' /\ StillLive' /\ InLive(folders)' /\ InLive(files)'
  BY <1>2 DEF vars, ListInv, RacesSeen, SeenEmpty, HasLive, StillLive, InLive, Live
<1> QED
  BY <1>1, <1>2, ListRequest, ListStep DEF Next, ListInv

(* No row and no job is there at the start. *)
LEMMA InitList == Init => ListInv
<1> SUFFICES ASSUME Init PROVE ListInv
  OBVIOUS
<1>1. RacesSeen /\ SeenEmpty /\ StillLive
  BY DEF Init, RacesSeen, SeenEmpty, StillLive, Idle, Located
<1>2. InLive(folders) /\ InLive(files)
  BY DEF Init, InLive, NoRow
<1> QED
  BY <1>1, <1>2, InitOwn DEF ListInv

(* A folder among no more than a listing has rows is in the listing: those *)
(* that come sooner are fewer than all.                                    *)
LEMMA Uncrowded ==
    ASSUME NEW o, NEW up, NEW p \in LiveIn(o, up), ~Crowded(o, up)
    PROVE  p \in Listing(o, up)
<1>1. IsFiniteSet(LiveIn(o, up)) /\ Cardinality(LiveIn(o, up)) \in Nat
  BY NamespaceAssumption, FS_Subset, FS_CardinalityType DEF LiveIn
<1>2. p \notin Sooner(o, up, p)
  BY NamespaceAssumption DEF Sooner
<1>3. Sooner(o, up, p) \subseteq LiveIn(o, up) \ {p}
  BY <1>2 DEF Sooner
<1>4. IsFiniteSet(LiveIn(o, up) \ {p}) /\ Cardinality(LiveIn(o, up) \ {p}) = Cardinality(LiveIn(o, up)) - 1
  BY <1>1, FS_RemoveElement
<1>5. /\ Cardinality(Sooner(o, up, p)) <= Cardinality(LiveIn(o, up) \ {p})
      /\ Cardinality(Sooner(o, up, p)) \in Nat
  BY <1>3, <1>4, FS_Subset, FS_CardinalityType
<1>6. Cardinality(LiveIn(o, up)) <= ListLimit
  BY <1>1, NamespaceAssumption DEF Crowded
<1>7. Cardinality(Sooner(o, up, p)) < ListLimit
  BY <1>1, <1>4, <1>5, <1>6, NamespaceAssumption
<1> QED
  BY <1>7 DEF Listing

(* EntriesListedHolds: for any number of threads, users, folders and files *)
(* and any limit, only a deletion that overlapped another request for the  *)
(* same folder, or more folders beside it than a listing has rows, can     *)
(* hide the folder of a live entry (has_children, soft_delete,             *)
(* list_by_parent).                                                        *)
THEOREM EntriesListedHolds == Spec => []EntriesListed
<1>1. ASSUME ListInv, NEW rows \in {folders, files}, NEW i \in DOMAIN rows,
             rows[i].state = "live", rows[i].parent # Root, rows[i].parent \notin raced
      PROVE  LET p == rows[i].parent IN
             /\ Live(folders, p)
             /\ p \in LiveIn(rows[i].owner, folders[p].parent)
  BY <1>1 DEF ListInv, OwnInv, OwnTree, OwnIn, InLive, LiveIn, Live, TypeInv
<1>2. ListInv => EntriesListed
  <2> SUFFICES ASSUME ListInv, NEW rows \in {folders, files} PROVE ListedIn(rows)
    BY DEF EntriesListed
  <2> QED
    BY <1>1, Uncrowded DEF ListedIn
<1> QED
  BY InitList, ListNext, <1>2, PTL DEF Spec

-------------------------------------------------------------------------------
(* FirstFreeName *)

(* The names in folder d stay those of the same rows. *)
SameEntries(old, new, d) ==
    \A i \in DOMAIN old : ((old[i].state = "live" /\ old[i].parent = d)
                           \/ (new[i].state = "live" /\ new[i].parent = d)) => new[i] = old[i]

(* Where the rows are alike, so are the answers of name_exists. *)
LEMMA SameTaken ==
    ASSUME NEW old, NEW new, DOMAIN old = DOMAIN new, NEW d, SameEntries(old, new, d), NEW o, NEW s
    PROVE  Taken(new, o, d, s) <=> Taken(old, o, d, s)
BY DEF SameEntries, Taken

(* A step changes the names that another job looks at only if it says so.  *)
LEMMA Overtaken ==
    ASSUME TypeInv, NEW t \in Thread, Step(t), NEW u \in Thread, u # t, ~job'[u].over
    PROVE  /\ job[u].op = "create" => SameEntries(folders, folders', job[u].dir)
           /\ job[u].op = "link" => SameEntries(files, files', job[u].dir)
<1> USE DEF TypeInv
<1>0. ASSUME NEW op, NEW p, FinishOvertaking(t, op, p), job[u].op = op PROVE job[u].dir # p
  <2>1. job'[u] = IF job[u].op = op /\ job[u].dir = p THEN [job[u] EXCEPT !.over = TRUE] ELSE job[u]
    BY <1>0 DEF FinishOvertaking
  <2>2. [job[u] EXCEPT !.over = TRUE].over = TRUE
    BY DEF Jobs
  <2> QED
    BY <2>1, <2>2, <1>0
<1>1. CASE InsertFolder(t)
  <2>1. job[u].op = "create" => SameEntries(folders, folders', job[u].dir)
    BY <1>0, <1>1 DEF InsertFolder, SameEntries, NoRow, Row
  <2> QED
    BY <2>1, <1>1 DEF InsertFolder, SameEntries
<1>2. CASE InsertFile(t)
  <2>1. job[u].op = "link" => SameEntries(files, files', job[u].dir)
    BY <1>0, <1>2 DEF InsertFile, SameEntries, NoRow, Row
  <2> QED
    BY <2>1, <1>2 DEF InsertFile, SameEntries
<1>3. CASE Rename(t)
  <2>1. CASE /\ Live(folders, job[t].dir) /\ folders' = [folders EXCEPT ![job[t].dir].name = job[t].name]
             /\ FinishOvertaking(t, "create", Place(job[t]))
    <3>1. job[t].op = "rename" /\ job[t].dir \in FolderId
      BY <1>3 DEF Rename, GoodJob, OpsAt
    <3>2. job[u].op = "create" => job[u].dir # folders[job[t].dir].parent
      BY <1>0, <2>1, <3>1 DEF Place
    <3>3. \A i \in FolderId : folders'[i].parent = folders[i].parent /\ (i # job[t].dir => folders'[i] = folders[i])
      BY <2>1, <3>1 DEF Rows
    <3>4. job[u].op = "create" => SameEntries(folders, folders', job[u].dir)
      BY <3>1, <3>2, <3>3 DEF SameEntries
    <3> QED
      BY <3>4, <1>3 DEF Rename, SameEntries
  <2>2. CASE UNCHANGED folders
    BY <2>2, <1>3 DEF Rename, SameEntries
  <2> QED
    BY <2>1, <2>2, <1>3 DEF Rename
<1>4. CASE SoftDelete(t)
  <2>1. job[t].dir \in FolderId
    BY <1>4 DEF SoftDelete, GoodJob, OpsAt
  <2>2. \A i \in FolderId : /\ folders'[i].parent = folders[i].parent
                            /\ i # job[t].dir => folders'[i] = folders[i]
                            /\ i = job[t].dir => folders'[i].state = "deleted"
    BY <1>4, <2>1 DEF SoftDelete, DeletedFolder, Rows
  <2>3. ASSUME job[u].op = "create", Live(folders, job[t].dir) PROVE job[u].dir # folders[job[t].dir].parent
    BY <1>0, <1>4, <2>3 DEF SoftDelete
  <2>4. job[u].op = "create" => SameEntries(folders, folders', job[u].dir)
    BY <2>1, <2>2, <2>3 DEF SameEntries, Live
  <2> QED
    BY <2>4, <1>4 DEF SoftDelete, SameEntries
<1>5. CASE Remove(t)
  <2>1. job[t].file \in FileId
    BY <1>5 DEF Remove, GoodJob, OpsAt
  <2>2. \A i \in FileId : /\ i # job[t].file => files'[i] = files[i]
                          /\ i = job[t].file => files'[i].state = "deleted"
    BY <1>5, <2>1 DEF Remove, DeletedFile, NoRow
  <2>3. ASSUME job[u].op = "link", Live(files, job[t].file) PROVE job[u].dir # files[job[t].file].parent
    BY <1>0, <1>5, <2>3 DEF Remove
  <2>4. job[u].op = "link" => SameEntries(files, files', job[u].dir)
    BY <2>1, <2>2, <2>3 DEF SameEntries, Live
  <2> QED
    BY <2>4, <1>5 DEF Remove, SameEntries
<1>6. CASE UNCHANGED <<folders, files>>
  BY <1>6 DEF SameEntries
<1> QED
  BY <1>1, <1>2, <1>3, <1>4, <1>5, <1>6 DEF Step, Find, NameExists, MakeUniqueName, HasChildren, FindFile

(* What a job knows of the names, as long as it is not overtaken: a folder *)
(* to create has a free name, and a link has tried the names before the    *)
(* one it is at, or has given up and taken the time.                       *)
Tried(j, rows) ==
    /\ j.n \in 0..MaxSuffix
    /\ \A k \in 0..(j.n - 1) : Taken(rows, j.user, j.dir, Candidate(j.name, k))
    /\ j.pc = "insert" => ~Taken(rows, j.user, j.dir, Candidate(j.name, j.n))

Knows(j, dirs, rows) ==
    /\ j.pc = "find" => j.n = 0
    /\ j.pc = "insert" /\ j.op = "create" /\ ~j.over => ~Taken(dirs, j.user, j.dir, j.name)
    /\ j.pc \in {"unique", "insert"} /\ j.op = "link" /\ ~j.over =>
           (j.pc = "insert" /\ j.n \in Stamp) \/ Tried(j, rows)

(* The strengthening of FirstFreeName that is inductive. *)
NameInv == TypeInv /\ \A t \in Thread : Knows(job[t], folders, files)

(* What the other jobs know stays true. *)
LEMMA KnowsOthers ==
    ASSUME NameInv, NEW t \in Thread, Step(t), NEW u \in Thread, u # t
    PROVE  Knows(job'[u], folders', files')
<1>0. TypeInv /\ TypeInv' /\ Same(job'[u], job[u]) /\ Knows(job[u], folders, files)
  BY TypeNext, OthersSame DEF NameInv, Next
<1>1. DOMAIN folders = DOMAIN folders' /\ DOMAIN files = DOMAIN files'
  BY <1>0 DEF TypeInv
<1>2. ASSUME job[u].op = "create", ~job'[u].over, NEW s
      PROVE  Taken(folders', job[u].user, job[u].dir, s) <=> Taken(folders, job[u].user, job[u].dir, s)
  BY <1>0, <1>1, <1>2, Overtaken, SameTaken
<1>3. ASSUME job[u].op = "link", ~job'[u].over, NEW s
      PROVE  Taken(files', job[u].user, job[u].dir, s) <=> Taken(files, job[u].user, job[u].dir, s)
  BY <1>0, <1>1, <1>3, Overtaken, SameTaken
<1>4. ASSUME job[u].op = "link", ~job'[u].over, Tried(job[u], files) PROVE Tried(job'[u], files')
  BY <1>0, <1>3, <1>4 DEF Tried, Same
<1> QED
  BY <1>0, <1>2, <1>4 DEF Knows, Same

(* A job learns from its own steps: name_exists, and make_unique_name's    *)
(* loop over the names.                                                    *)
LEMMA KnowsOwn ==
    ASSUME NameInv, NEW t \in Thread, Step(t)
    PROVE  Knows(job'[t], folders', files')
<1> USE NamespaceAssumption
<1>0. TypeInv /\ GoodJob(job[t]) /\ job[t] \in Jobs /\ Knows(job[t], folders, files)
  BY DEF NameInv, TypeInv
<1>1. CASE job'[t] = Idle
  BY <1>1 DEF Knows, Idle
<1>2. CASE job'[t] # Idle
  <2>0. UNCHANGED <<folders, files>>
    BY <1>0, <1>2, GoesOn
  <2>1. CASE Find(t)
    <3>1. job'[t] = [job[t] EXCEPT !.pc = AfterFind(job[t].op),
                                   !.was = IF job[t].op = "rename" THEN folders[job[t].dir].name ELSE @]
      BY <1>0, <1>2, <2>1 DEF Find, Finish, Become, TypeInv
    <3>2. /\ job'[t].pc = AfterFind(job[t].op) /\ job'[t].op = job[t].op /\ job'[t].n = 0
      BY <1>0, <2>1, <3>1 DEF Find, Jobs, Knows
    <3>3. job[t].op \in {"create", "upload", "link", "rename", "delete"}
      BY <1>0, <2>1 DEF Find, GoodJob, OpsAt
    <3>4. job'[t].pc # "find" /\ (job[t].op \in {"create", "link"} => job'[t].pc # "insert")
      BY <3>2, <3>3 DEF AfterFind
    <3>5. job'[t].op = "link" => Tried(job'[t], files')
      BY <3>2, <3>4 DEF Tried
    <3> QED
      BY <3>2, <3>4, <3>5 DEF Knows
  <2>2. CASE NameExists(t)
    <3>1. /\ job[t].op \in {"create", "rename"}
          /\ Become(t, [job[t] EXCEPT !.pc = IF job[t].op = "create" THEN "insert" ELSE "rename"])
      BY <1>0, <1>2, <2>2 DEF NameExists, Finish, Become, TypeInv, GoodJob, OpsAt
    <3>2. job[t].op = "create" => ~Taken(folders, job[t].user, job[t].dir, job[t].name)
      BY <1>0, <1>2, <2>2 DEF NameExists, Finish, Become, TypeInv, Place
    <3>3. job'[t] = [job[t] EXCEPT !.pc = IF job[t].op = "create" THEN "insert" ELSE "rename"]
      BY <1>0, <3>1 DEF Become, TypeInv
    <3> QED
      BY <1>0, <2>0, <3>1, <3>2, <3>3 DEF Knows, Jobs
  <2>3. CASE MakeUniqueName(t)
    <3> DEFINE j == job[t]
    <3>0. j.pc = "unique" /\ j.op = "link" /\ job \in [Thread -> Jobs]
      BY <1>0, <2>3 DEF MakeUniqueName, GoodJob, OpsAt, TypeInv
    <3>1. CASE j.over
      <4>1. job'[t].over /\ job'[t].op = "link" /\ job'[t].pc # "find"
        BY <2>3, <3>0, <3>1, ZenonT(30) DEF MakeUniqueName, Become, Jobs
      <4> QED
        BY <4>1 DEF Knows
    <3>2. CASE ~j.over
      <4>0. Tried(j, files)
        BY <1>0, <3>0, <3>2 DEF Knows
      <4>1. CASE ~Taken(files, j.user, j.dir, Candidate(j.name, j.n))
        <5>1. job'[t] = [j EXCEPT !.pc = "insert"]
          BY <2>3, <3>0, <4>1 DEF MakeUniqueName, Become
        <5>2. Tried(job'[t], files')
          BY <1>0, <2>0, <4>0, <4>1, <5>1 DEF Tried, Jobs
        <5>3. job'[t].pc = "insert" /\ job'[t].op = "link"
          BY <1>0, <3>0, <5>1 DEF Jobs
        <5> QED
          BY <5>2, <5>3 DEF Knows
      <4>2. CASE /\ Taken(files, j.user, j.dir, Candidate(j.name, j.n))
                 /\ j.n < MaxSuffix /\ job' = [job EXCEPT ![t] = [j EXCEPT !.n = @ + 1]]
        <5>1. /\ job'[t].n = j.n + 1 /\ job'[t].pc = "unique" /\ job'[t].op = "link" /\ job'[t].user = j.user
              /\ job'[t].dir = j.dir /\ job'[t].name = j.name
          BY <3>0, <4>2 DEF Jobs
        <5>2. Tried(job'[t], files')
          BY <2>0, <4>0, <4>2, <5>1 DEF Tried
        <5> QED
          BY <5>1, <5>2 DEF Knows
      <4>3. ASSUME NEW s \in Stamp, job' = [job EXCEPT ![t] = [j EXCEPT !.pc = "insert", !.n = s]]
            PROVE  Knows(job'[t], folders', files')
        BY <3>0, <4>3 DEF Knows, Jobs
      <4> QED
        BY <2>3, <4>1, <4>2, <4>3 DEF MakeUniqueName, Become
    <3> QED
      BY <3>1, <3>2
  <2>4. CASE HasChildren(t) \/ FindFile(t)
    <3>1. job[t].op \in {"delete", "remove"}
      BY <1>0, <2>4 DEF HasChildren, FindFile, GoodJob, OpsAt
    <3>2. job'[t].pc # "find" /\ job'[t].op = job[t].op
      BY <1>0, <1>2, <2>4 DEF HasChildren, FindFile, Finish, Become, TypeInv, Jobs
    <3> QED
      BY <3>1, <3>2 DEF Knows
  <2>5. CASE InsertFolder(t) \/ InsertFile(t) \/ Rename(t) \/ SoftDelete(t) \/ Remove(t)
    BY <2>5, <1>0, <1>2
    DEF InsertFolder, InsertFile, Rename, SoftDelete, Remove, FinishOvertaking, Finish, Become, TypeInv
  <2> QED
    BY <2>1, <2>2, <2>3, <2>4, <2>5 DEF Step
<1> QED
  BY <1>1, <1>2

(* NameInv is inductive. *)
LEMMA NameNext == NameInv /\ [Next]_vars => NameInv'
<1> SUFFICES ASSUME NameInv, [Next]_vars PROVE NameInv'
  OBVIOUS
<1>0. TypeInv /\ TypeInv'
  BY TypeNext DEF NameInv
<1>1. ASSUME NEW t \in Thread, Request(t), NEW u \in Thread PROVE Knows(job'[u], folders', files')
  <2>1. PICK j \in Jobs : GoodJob(j) /\ Fresh(j) /\ Start(t, j)
    BY <1>1, RequestStarts
  <2>2. UNCHANGED <<folders, files>> /\ job'[u] = IF u = t THEN j ELSE job[u]
    BY <2>1, <1>0 DEF Start, Become, TypeInv
  <2>3. j.pc \in {"unique", "insert"} => j.pc = AfterFind(j.op)
    BY <2>1 DEF Fresh, Located
  <2>4. j.op \in {"create", "link"} => j.pc # "insert"
    BY <2>3 DEF AfterFind
  <2>5. Tried(j, files) \/ j.pc = "insert"
    BY <2>1, NamespaceAssumption DEF Fresh, Tried
  <2>6. Knows(j, folders, files)
    BY <2>1, <2>4, <2>5 DEF Fresh, Knows
  <2> QED
    BY <2>2, <2>6 DEF NameInv
<1>2. ASSUME NEW t \in Thread, Step(t), NEW u \in Thread PROVE Knows(job'[u], folders', files')
  BY <1>2, KnowsOthers, KnowsOwn
<1>3. ASSUME UNCHANGED vars, NEW u \in Thread PROVE Knows(job'[u], folders', files')
  BY <1>3 DEF vars, NameInv
<1> QED
  BY <1>0, <1>1, <1>2, <1>3 DEF Next, NameInv

(* FirstFreeName for any number of threads, users, names and suffixes: the *)
(* name a job has looked for is free, and the first free one of a, a(1),   *)
(* a(2), ..., unless a request changed the names of the folder in between  *)
(* (make_unique_name, name_exists).                                        *)
THEOREM FirstFreeNameHolds == Spec => []FirstFreeName
<1>1. Init => NameInv
  <2> SUFFICES ASSUME Init PROVE NameInv
    OBVIOUS
  <2>1. \A t \in Thread : Knows(job[t], folders, files)
    BY DEF Init, Knows, Idle
  <2> QED
    BY <2>1, InitType DEF NameInv
<1>2. NameInv => FirstFreeName
  <2> SUFFICES ASSUME NameInv, NEW t \in Thread
               PROVE  LET j == job[t] IN
                      /\ j.pc = "insert" /\ j.op = "create" /\ ~j.over => ~Taken(folders, j.user, j.dir, j.name)
                      /\ j.pc = "insert" /\ j.op = "link" /\ ~j.over /\ j.n \notin Stamp =>
                             \E m \in 0..MaxSuffix :
                                 /\ Candidate(j.name, j.n) = Numbered(j.name, m)
                                 /\ ~Taken(files, j.user, j.dir, Numbered(j.name, m))
                                 /\ \A k \in 0..(m - 1) : Taken(files, j.user, j.dir, Numbered(j.name, k))
    BY DEF FirstFreeName
  <2>1. \A s, m : Numbered(s, m) = Candidate(s, m)
    BY DEF Numbered, Candidate
  <2>2. Knows(job[t], folders, files)
    BY DEF NameInv
  <2> QED
    BY <2>1, <2>2 DEF Knows, Tried
<1> QED
  BY <1>1, <1>2, NameNext, PTL DEF Spec

===============================================================================
