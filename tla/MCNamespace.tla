----------------------------- MODULE MCNamespace -----------------------------
(* Namespace on small instances: folders a and b, files a, a(1), ...       *)
EXTENDS Namespace, TLC
MCFolderName == {<<"a">>, <<"b">>}
MCFileName == {<<"a">>}
MCNameOrder == {<< <<"a">>, <<"b">> >>}
Alike == Permutations(Thread) \cup Permutations(User) \cup Permutations(FolderId) \cup Permutations(FileId)

(* Bound: one user has entries in the root; the other's requests name the  *)
(* folders and files of the first.                                         *)
RootEntries(rows) == {rows[i] : i \in {k \in DOMAIN rows : rows[k].owner # Root /\ rows[k].parent = Root}}
OneTree == Cardinality({row.owner : row \in RootEntries(folders) \cup RootEntries(files)}) <= 1

(* Bound: at most four rows, of any kind. *)
Used(rows) == Cardinality({i \in DOMAIN rows : rows[i] # NoRow})
Bounds == OneTree /\ Used(folders) + Used(files) <= 4
===============================================================================
