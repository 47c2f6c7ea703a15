------------------------------ MODULE ShareAccess ------------------------------
(***************************************************************************)
(* One share of one file: its row in file_shares, its copy in Redis        *)
(* (share:<token>), the owner's requests (create, revoke, delete the file) *)
(* and the requests of those who have the link (download, preview, save),  *)
(* each a sequence of transactions and Redis commands on an IO thread.     *)
(*                                                                         *)
(* The password check compares two values that never change and is left    *)
(* out.  save goes on in ContentStore once the share is resolved.          *)
(***************************************************************************)
EXTENDS Naturals, FiniteSets

CONSTANTS
    Client,        \* threads that serve the link's visitors
    MaxDownloads,  \* max_downloads of the share; 0 is no limit
    MaxCount,      \* no download starts once download_count is there (bound)
    None

ASSUME ShareAccessAssumption ==
    MaxDownloads \in Nat /\ MaxCount \in Nat /\ IsFiniteSet(Client) /\ None \notin Nat

VARIABLES
    row,      \* the file_shares row: none, active, revoked (is_revoked) or gone
    count,    \* download_count
    expired,  \* expires_at is in the past
    file,     \* the files row is live (deleted_at IS NULL)
    cached,   \* download_count in share:<token>, None where the key is not set
    opc,      \* the owner's request
    job,      \* the visitors' requests
    served,   \* history: downloads answered with the file
    failed,   \* history: downloads counted and answered with 404
    revoked   \* history: a revoke has been answered

vars == <<row, count, expired, file, cached, opc, job, served, failed, revoked>>

Idle == [pc |-> "idle", counted |-> FALSE, seen |-> 0, late |-> FALSE]

Init ==
    /\ row = "none" /\ count = 0 /\ expired = FALSE /\ file = TRUE /\ cached = None
    /\ opc = "idle" /\ job = [c \in Client |-> Idle]
    /\ served = 0 /\ failed = 0 /\ revoked = FALSE

-------------------------------------------------------------------------------
(* The owner: handle_create, handle_revoke, handle_delete, each in the     *)
(* steps "share_insert" -> "cache_new", "revoke" -> "cache_del" and        *)
(* "soft_delete" -> "revoke_by_file".  Bound: one share is created.        *)

OwnerStart(l) ==
    /\ opc = "idle"
    /\ l = "share_insert" => row = "none" /\ file
    /\ l = "soft_delete" => file
    /\ opc' = l
    /\ UNCHANGED <<row, count, expired, file, cached, job, served, failed, revoked>>

ShareInsert ==
    /\ opc = "share_insert" /\ opc' = "cache_new"
    /\ row' = "active"
    /\ UNCHANGED <<count, expired, file, cached, job, served, failed, revoked>>

CacheNew ==
    /\ opc = "cache_new" /\ opc' = "idle"
    /\ cached' = 0
    /\ UNCHANGED <<row, count, expired, file, job, served, failed, revoked>>

HasRow == row \in {"active", "revoked"}

(* find_by_token and revoke; without a row the answer is 404.              *)
Revoke ==
    /\ opc = "revoke"
    /\ IF HasRow THEN opc' = "cache_del" /\ row' = "revoked" ELSE opc' = "idle" /\ UNCHANGED row
    /\ UNCHANGED <<count, expired, file, cached, job, served, failed, revoked>>

CacheDel ==
    /\ opc = "cache_del" /\ opc' = "idle"
    /\ cached' = None /\ revoked' = TRUE
    /\ UNCHANGED <<row, count, expired, file, job, served, failed>>

SoftDelete ==
    /\ opc = "soft_delete" /\ opc' = "revoke_by_file"
    /\ file' = FALSE
    /\ UNCHANGED <<row, count, expired, cached, job, served, failed, revoked>>

RevokeByFile ==
    /\ opc = "revoke_by_file" /\ opc' = "idle"
    /\ row' = IF row = "active" THEN "revoked" ELSE row
    /\ UNCHANGED <<count, expired, file, cached, job, served, failed, revoked>>

(* purge_content deletes the share rows of a deleted file (ContentStore).  *)
PurgeRow ==
    /\ ~file /\ HasRow /\ opc = "idle"
    /\ row' = "gone"
    /\ UNCHANGED <<count, expired, file, cached, opc, job, served, failed, revoked>>

(* Time passes expires_at; the hourly revoke_expired; the cache entry's TTL. *)
ExpireShare ==
    /\ ~expired /\ expired' = TRUE
    /\ UNCHANGED <<row, count, file, cached, opc, job, served, failed, revoked>>

RevokeExpired ==
    /\ expired /\ row = "active" /\ row' = "revoked"
    /\ UNCHANGED <<count, expired, file, cached, opc, job, served, failed, revoked>>

(* Only handle_create sets a TTL; the SET of a download takes it away.     *)
CacheExpire ==
    /\ cached = 0 /\ cached' = None
    /\ UNCHANGED <<row, count, expired, file, opc, job, served, failed, revoked>>

-------------------------------------------------------------------------------
(* The visitors: handle_download, and resolve_share for it and handle_save. *)

Become(c, j) == job' = [job EXCEPT ![c] = j]

(* A visitor has the token only from an answered create.                   *)
Start(c, counted) ==
    /\ job[c].pc = "idle" /\ row # "none" /\ opc # "cache_new"
    /\ counted => count < MaxCount
    /\ Become(c, [Idle EXCEPT !.pc = "resolve", !.counted = counted, !.late = revoked])
    /\ UNCHANGED <<row, count, expired, file, cached, opc, served, failed, revoked>>

MutAdmitted(counted) ==
    row = "active" /\ ~expired /\ (counted /\ MaxDownloads > 0 => count <= MaxDownloads)
MutAdmittedRevoked(counted) ==
    HasRow /\ ~expired /\ (counted /\ MaxDownloads > 0 => count < MaxDownloads)
Admitted(counted) ==
    row = "active" /\ ~expired /\ (counted /\ MaxDownloads > 0 => count < MaxDownloads)

(* Only downloads are counted, neither previews nor saves.                 *)
Onwards(counted) == IF counted THEN "increment" ELSE "find_file"

(* find_by_token and the checks on what it returned.                       *)
Resolve(c) ==
    /\ job[c].pc = "resolve"
    /\ Become(c, IF ~Admitted(job[c].counted) THEN Idle
                 ELSE [job[c] EXCEPT !.seen = count, !.pc = Onwards(job[c].counted)])
    /\ UNCHANGED <<row, count, expired, file, cached, opc, served, failed, revoked>>

(* increment_download_count: download_count + 1, in the database.          *)
MutIncremented(j) == j.seen + 1
Incremented(j) == count + 1

Increment(c) ==
    /\ job[c].pc = "increment"
    /\ count' = IF HasRow THEN Incremented(job[c]) ELSE count
    /\ Become(c, [job[c] EXCEPT !.pc = "cache_get"])
    /\ UNCHANGED <<row, expired, file, cached, opc, served, failed, revoked>>

CacheGet(c) ==
    /\ job[c].pc = "cache_get"
    /\ Become(c, [job[c] EXCEPT !.pc = IF cached = None THEN "find_file" ELSE "cache_set"])
    /\ UNCHANGED <<row, count, expired, file, cached, opc, served, failed, revoked>>

CacheSet(c) ==
    /\ job[c].pc = "cache_set"
    /\ cached' = job[c].seen + 1
    /\ Become(c, [job[c] EXCEPT !.pc = "find_file"])
    /\ UNCHANGED <<row, count, expired, file, opc, served, failed, revoked>>

(* find_by_id, and the answer.                                             *)
FindFile(c) ==
    /\ job[c].pc = "find_file"
    /\ served' = IF job[c].counted /\ file THEN served + 1 ELSE served
    /\ failed' = IF job[c].counted /\ ~file THEN failed + 1 ELSE failed
    /\ Become(c, Idle)
    /\ UNCHANGED <<row, count, expired, file, cached, opc, revoked>>

-------------------------------------------------------------------------------
Owner ==
    \/ \E l \in {"share_insert", "revoke", "soft_delete"} : OwnerStart(l)
    \/ ShareInsert \/ CacheNew \/ Revoke \/ CacheDel \/ SoftDelete \/ RevokeByFile \/ PurgeRow
Clock == ExpireShare \/ RevokeExpired \/ CacheExpire
Visitor(c) ==
    \/ \E counted \in BOOLEAN : Start(c, counted)
    \/ Resolve(c) \/ Increment(c) \/ CacheGet(c) \/ CacheSet(c) \/ FindFile(c)

Next == Owner \/ Clock \/ \E c \in Client : Visitor(c)

Spec == Init /\ [][Next]_vars

-------------------------------------------------------------------------------
(* Properties *)

At(l) == {c \in Client : job[c].pc \in l}

(* OverrunBounded: the check of the limit and the increment are two        *)
(* transactions, but each thread can slip through between them only once:  *)
(* downloads never exceed the limit by as many as there are threads        *)
(* (resolve_share).                                                        *)
OverrunBounded ==
    MaxDownloads > 0 => count + Cardinality(At({"increment"})) < MaxDownloads + Cardinality(Client)

(* CountExact: while the row is there, download_count is the number of     *)
(* downloads answered plus those on their way, with no increment lost      *)
(* (increment_download_count).                                             *)
CountExact ==
    row # "gone" => count = served + failed
                            + Cardinality({c \in At({"cache_get", "cache_set", "find_file"}) : job[c].counted})

(* RevokeHolds: a request that comes in after a revoke was answered never  *)
(* gets to the file (resolve_share reads the row, never the cache).        *)
RevokeHolds ==
    \A c \in At({"increment", "cache_get", "cache_set", "find_file"}) : ~job[c].late

===============================================================================
