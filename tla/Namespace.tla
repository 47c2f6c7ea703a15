------------------------------- MODULE Namespace -------------------------------
(***************************************************************************)
(* Folders and names: the rows of folders and files as far as they say     *)
(* what lies where and under which name, and the requests that create,     *)
(* rename and delete folders and put files into them or remove them.  A    *)
(* DAO method is one transaction and one step; has_children is two SELECTs *)
(* that see different snapshots.  What the files contain is ContentStore.  *)
(*                                                                         *)
(* A name is a sequence: <<"a">> is a.txt and <<"a", 1>> is a(1).txt,      *)
(* whether a user or make_unique_name put the number there.                *)
(***************************************************************************)
EXTENDS Naturals, Sequences, FiniteSets

CONSTANTS
    Thread,     \* the IO threads that run handlers
    User,
    FolderName, \* the names users ask for
    FileName,
    FolderId, FileId,
    Root,       \* parent_id or folder_id IS NULL
    MaxSuffix,  \* the numbers make_unique_name tries, 9999 in the code (bound)
    Stamp,      \* what time(nullptr) returns when it has tried them all
    NameOrder,  \* ORDER BY name: the pairs of names of which the first comes first
    ListLimit   \* the rows of a listing, 200 in the code

ASSUME NamespaceAssumption ==
    /\ Root \notin FolderId /\ IsFiniteSet(FolderId)
    /\ ListLimit \in Nat /\ \A pair \in NameOrder : pair[1] # pair[2]
    /\ MaxSuffix \in Nat /\ \A s \in Stamp : s \in Nat /\ s > MaxSuffix

VARIABLES
    folders,  \* rows of folders
    files,    \* rows of files; parent is folder_id
    job,      \* what each thread is doing
    raced     \* history: folders whose deletion overlapped another request for them

vars == <<folders, files, job, raced>>

NoRow == [state |-> "free", owner |-> Root, parent |-> Root, name |-> <<>>]
Row(o, p, s) == [state |-> "live", owner |-> o, parent |-> p, name |-> s]
(* deleted_at is set.  Nothing looks at the name of such a row again, nor  *)
(* at the folder of a deleted file; entries may still refer to a folder.   *)
DeletedFolder(row) == [row EXCEPT !.state = "deleted", !.name = <<>>]
DeletedFile == [NoRow EXCEPT !.state = "deleted"]

(* dir is the folder the request is about: the parent of what it inserts,  *)
(* or the folder it renames or deletes.  n is the number make_unique_name  *)
(* is at, over says that a request for the same folder overtook this one.  *)
Idle == [pc |-> "idle", op |-> "none", user |-> Root, dir |-> Root, name |-> <<>>,
         was |-> <<>>, file |-> Root, n |-> 0, over |-> FALSE]

Init ==
    /\ folders = [i \in FolderId |-> NoRow]
    /\ files = [i \in FileId |-> NoRow]
    /\ job = [t \in Thread |-> Idle]
    /\ raced = {}

Become(t, j) == job' = [job EXCEPT ![t] = j]
Finish(t) == Become(t, Idle)

-------------------------------------------------------------------------------
(* What the SELECTs and the two partial unique indexes see. *)

Live(rows, i) == i \in DOMAIN rows /\ rows[i].state = "live"

(* name_exists, name_exists_in_folder. *)
Taken(rows, o, p, s) ==
    \E i \in DOMAIN rows : rows[i].state = "live" /\ rows[i].owner = o
                           /\ rows[i].parent = p /\ rows[i].name = s

(* idx_folders_owner_parent_name and idx_files_owner_folder_name: the      *)
(* statement that gives row i this place fails if another live row has it. *)
IndexAllows(rows, i, o, p, s) ==
    \A k \in DOMAIN rows \ {i} : ~(rows[k].state = "live" /\ rows[k].owner = o
                                   /\ rows[k].parent = p /\ rows[k].name = s)

(* FolderDao::find_by_id and the owner's check after it. *)
MutFinds(o, p) == Live(folders, p)
Finds(o, p) == Live(folders, p) /\ folders[p].owner = o

(* list_by_parent: the first rows by name, and no way to ask for the next. *)
LiveIn(o, p) == {i \in FolderId : Live(folders, i) /\ folders[i].owner = o /\ folders[i].parent = p}
Sooner(o, p, i) == {k \in LiveIn(o, p) : <<folders[k].name, folders[i].name>> \in NameOrder}
Listing(o, p) == {i \in LiveIn(o, p) : Cardinality(Sooner(o, p, i)) < ListLimit}

-------------------------------------------------------------------------------
(* A request comes in. *)

(* History: one deletes the folder the other is about. *)
Clashes(j) ==
    {p \in {j.dir} \ {Root} : \E t \in Thread :
        job[t].pc # "idle" /\ job[t].dir = p /\ "delete" \in {j.op, job[t].op}}

Start(t, j) ==
    /\ job[t].pc = "idle"
    /\ Become(t, j)
    /\ raced' = raced \cup Clashes(j)
    /\ UNCHANGED <<folders, files>>

(* What follows the lookup of the folder. *)
MutAfterFind(op) ==
    CASE op \in {"create", "rename"} -> "name_exists"
      [] op = "link" -> "unique"
      [] op = "upload" -> "insert"
      [] op = "delete" -> "has_files"
AfterFind(op) ==
    CASE op \in {"create", "rename"} -> "name_exists"
      [] op = "link" -> "unique"
      [] op = "upload" -> "insert"
      [] op = "delete" -> "has_folders"

(* handle_create, handle_single_upload, and share's save, which links in   *)
(* the root; a multipart upload is one job from init, which looks for the  *)
(* folder, to complete, which inserts the file.  Bound: only while a row   *)
(* is left for it.                                                         *)
Room(rows, ops) ==
    Cardinality({i \in DOMAIN rows : rows[i] = NoRow}) > Cardinality({t \in Thread : job[t].op \in ops})

EnterStart(t, op, o, p, s) ==
    /\ IF op = "create" THEN Room(folders, {"create"}) ELSE Room(files, {"upload", "link"})
    /\ Start(t, [Idle EXCEPT !.pc = IF p = Root THEN AfterFind(op) ELSE "find",
                             !.op = op, !.user = o, !.dir = p, !.name = s])

(* handle_delete and handle_rename of a folder. *)
DeleteStart(t, o, p) == Start(t, [Idle EXCEPT !.pc = "find", !.op = "delete", !.user = o, !.dir = p])

RenameStart(t, o, p, s) ==
    Start(t, [Idle EXCEPT !.pc = "find", !.op = "rename", !.user = o, !.dir = p, !.name = s])

(* FileHandler::handle_delete. *)
RemoveStart(t, o, f) ==
    Start(t, [Idle EXCEPT !.pc = "find_file", !.op = "remove", !.user = o, !.file = f])

-------------------------------------------------------------------------------
(* The steps of the handlers. *)

(* find_by_id, then 404 or on; rename keeps the name it has read. *)
Find(t) ==
    /\ job[t].pc = "find"
    /\ IF Finds(job[t].user, job[t].dir)
       THEN Become(t, [job[t] EXCEPT !.pc = AfterFind(job[t].op),
                                     !.was = IF job[t].op = "rename" THEN folders[job[t].dir].name ELSE @])
       ELSE Finish(t)
    /\ UNCHANGED <<folders, files, raced>>

(* Where the name is to be free: rename asks in the folder's own parent.   *)
Place(j) == IF j.op = "rename" THEN folders[j.dir].parent ELSE j.dir

NameExists(t) ==
    /\ job[t].pc = "name_exists"
    /\ LET j == job[t] IN
       IF Taken(folders, j.user, Place(j), j.name) /\ ~(j.op = "rename" /\ j.name = j.was)
       THEN Finish(t)
       ELSE Become(t, [j EXCEPT !.pc = IF j.op = "create" THEN "insert" ELSE "rename"])
    /\ UNCHANGED <<folders, files, raced>>

(* The names make_unique_name goes through, 0 being the name itself.       *)
MutCandidate(s, n) == IF n = 0 THEN s ELSE Append(s, n + 1)
Candidate(s, n) == IF n = 0 THEN s ELSE Append(s, n)

MakeUniqueName(t) ==
    /\ job[t].pc = "unique"
    /\ LET j == job[t] IN
       IF ~Taken(files, j.user, j.dir, Candidate(j.name, j.n))
       THEN Become(t, [j EXCEPT !.pc = "insert"])
       ELSE \/ j.n < MaxSuffix /\ Become(t, [j EXCEPT !.n = @ + 1])
            \/ /\ j.n = MaxSuffix
               /\ \E s \in Stamp : Become(t, [j EXCEPT !.pc = "insert", !.n = s])
    /\ UNCHANGED <<folders, files, raced>>

(* The request ends with a change of the names in p and, history, has      *)
(* overtaken those that look for a name there for the same kind of entry.  *)
FinishOvertaking(t, op, p) ==
    job' = [u \in Thread |-> IF u = t THEN Idle
                             ELSE IF job[u].op = op /\ job[u].dir = p
                             THEN [job[u] EXCEPT !.over = TRUE] ELSE job[u]]

(* FolderDao::insert, FileDao::insert and insert_link; where the index     *)
(* does not allow the row the request ends with an error.                  *)
InsertFolder(t) ==
    /\ job[t].pc = "insert" /\ job[t].op = "create"
    /\ LET j == job[t] IN
       IF IndexAllows(folders, Root, j.user, j.dir, j.name)
       THEN \E i \in FolderId :
               /\ folders[i] = NoRow
               /\ folders' = [folders EXCEPT ![i] = Row(j.user, j.dir, j.name)]
               /\ FinishOvertaking(t, "create", j.dir)
       ELSE Finish(t) /\ UNCHANGED folders
    /\ UNCHANGED <<files, raced>>

InsertFile(t) ==
    /\ job[t].pc = "insert" /\ job[t].op \in {"upload", "link"}
    /\ LET j == job[t]
           s == Candidate(j.name, j.n) IN
       IF IndexAllows(files, Root, j.user, j.dir, s)
       THEN \E i \in FileId :
               /\ files[i] = NoRow
               /\ files' = [files EXCEPT ![i] = Row(j.user, j.dir, s)]
               /\ FinishOvertaking(t, "link", j.dir)
       ELSE Finish(t) /\ UNCHANGED files
    /\ UNCHANGED <<folders, raced>>

(* FolderDao::rename changes nothing where the folder is deleted.          *)
Rename(t) ==
    /\ job[t].pc = "rename"
    /\ LET j == job[t] IN
       IF Live(folders, j.dir) /\ IndexAllows(folders, j.dir, folders[j.dir].owner, Place(j), j.name)
       THEN folders' = [folders EXCEPT ![j.dir].name = j.name] /\ FinishOvertaking(t, "create", Place(j))
       ELSE Finish(t) /\ UNCHANGED folders
    /\ UNCHANGED <<files, raced>>

(* has_children: a SELECT of folders, then one of files. *)
HasLive(rows, p) == \E i \in DOMAIN rows : rows[i].state = "live" /\ rows[i].parent = p

HasChildren(t) ==
    /\ job[t].pc \in {"has_folders", "has_files"}
    /\ LET j == job[t] IN
       \/ /\ j.pc = "has_folders"
          /\ IF HasLive(folders, j.dir) THEN Finish(t) ELSE Become(t, [j EXCEPT !.pc = "has_files"])
       \/ /\ j.pc = "has_files"
          /\ IF HasLive(files, j.dir) THEN Finish(t) ELSE Become(t, [j EXCEPT !.pc = "soft_delete"])
    /\ UNCHANGED <<folders, files, raced>>

SoftDelete(t) ==
    /\ job[t].pc = "soft_delete"
    /\ folders' = [folders EXCEPT ![job[t].dir] = DeletedFolder(@)]
    /\ IF Live(folders, job[t].dir)
       THEN FinishOvertaking(t, "create", folders[job[t].dir].parent) ELSE Finish(t)
    /\ UNCHANGED <<files, raced>>

(* require_owned_file and FileDao::soft_delete. *)
FindFile(t) ==
    /\ job[t].pc = "find_file"
    /\ IF Live(files, job[t].file) /\ files[job[t].file].owner = job[t].user
       THEN Become(t, [job[t] EXCEPT !.pc = "remove"]) ELSE Finish(t)
    /\ UNCHANGED <<folders, files, raced>>

Remove(t) ==
    /\ job[t].pc = "remove"
    /\ files' = [files EXCEPT ![job[t].file] = DeletedFile]
    /\ IF Live(files, job[t].file)
       THEN FinishOvertaking(t, "link", files[job[t].file].parent) ELSE Finish(t)
    /\ UNCHANGED <<folders, raced>>

-------------------------------------------------------------------------------
(* A user names the folders and files the listings have shown to some user. *)
Request(t) ==
    \E o \in User :
        \/ \E p \in FolderId \cup {Root} :
               \/ \E s \in FolderName : EnterStart(t, "create", o, p, s)
               \/ \E op \in {"upload", "link"}, s \in FileName : EnterStart(t, op, o, p, s)
        \/ \E p \in FolderId : folders[p] # NoRow /\ DeleteStart(t, o, p)
        \/ \E p \in FolderId, s \in FolderName : folders[p] # NoRow /\ RenameStart(t, o, p, s)
        \/ \E f \in FileId : files[f] # NoRow /\ RemoveStart(t, o, f)

Step(t) ==
    \/ Find(t) \/ NameExists(t) \/ MakeUniqueName(t) \/ InsertFolder(t) \/ InsertFile(t)
    \/ Rename(t) \/ HasChildren(t) \/ SoftDelete(t) \/ FindFile(t) \/ Remove(t)

Next == \E t \in Thread : Request(t) \/ Step(t)

Spec == Init /\ [][Next]_vars

-------------------------------------------------------------------------------
(* Properties *)

(* OwnTree: every live folder and file lies in the root or in a folder of  *)
(* its own owner, so that the owner's listings, which filter by owner,     *)
(* show it there (resolve_folder_id, handle_create).                       *)
OwnIn(rows) ==
    \A i \in DOMAIN rows : rows[i].state = "live" /\ rows[i].parent # Root =>
        /\ rows[i].parent \in FolderId
        /\ folders[rows[i].parent].state # "free"
        /\ folders[rows[i].parent].owner = rows[i].owner
OwnTree == OwnIn(folders) /\ OwnIn(files)

(* EntriesListed: the folder of every live entry is itself listed for the  *)
(* entry's owner, so that walking the listings leads to the entry, except  *)
(* where more folders lie beside it than a listing has rows, or where the  *)
(* request that deleted it overlapped another one for it.  Taken one after *)
(* the other, requests and multipart uploads never lose an entry           *)
(* (has_children, then soft_delete; list_by_parent).                       *)
Crowded(o, p) == Cardinality(LiveIn(o, p)) > ListLimit
ListedIn(rows) ==
    \A i \in DOMAIN rows : rows[i].state = "live" /\ rows[i].parent # Root =>
        LET p == rows[i].parent
            up == folders[p].parent
        IN  p \in Listing(rows[i].owner, up) \/ p \in raced
            \/ (Live(folders, p) /\ Crowded(rows[i].owner, up))
EntriesListed == ListedIn(folders) /\ ListedIn(files)

(* FirstFreeName: unless another request changed the names of the folder   *)
(* in the meantime, an insert that looked for a name first never meets the *)
(* unique index, and a link takes the first of the names a, a(1), a(2),    *)
(* ... that is free (make_unique_name, name_exists).                       *)
Numbered(s, m) == IF m = 0 THEN s ELSE Append(s, m)
FirstFreeName ==
    \A t \in Thread : LET j == job[t] IN
        /\ j.pc = "insert" /\ j.op = "create" /\ ~j.over => ~Taken(folders, j.user, j.dir, j.name)
        /\ j.pc = "insert" /\ j.op = "link" /\ ~j.over /\ j.n \notin Stamp =>
               \E m \in 0..MaxSuffix :
                   /\ Candidate(j.name, j.n) = Numbered(j.name, m)
                   /\ ~Taken(files, j.user, j.dir, Numbered(j.name, m))
                   /\ \A k \in 0..(m - 1) : Taken(files, j.user, j.dir, Numbered(j.name, k))

===============================================================================
