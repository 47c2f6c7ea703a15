--------------------------- MODULE ShareAccessProofs ---------------------------
(***************************************************************************)
(* The limit, the count and the revocation of a share, for any number of   *)
(* threads and any limit.                                                  *)
(***************************************************************************)
EXTENDS ShareAccess, FiniteSetTheorems, TLAPS

OwnerLabels == {"idle", "share_insert", "cache_new", "revoke", "cache_del", "soft_delete", "revoke_by_file"}
Labels == {"idle", "resolve", "increment", "cache_get", "cache_set", "find_file"}
Jobs == [pc : Labels, counted : BOOLEAN, seen : Nat, late : BOOLEAN]

TypeInv ==
    /\ row \in {"none", "active", "revoked", "gone"}
    /\ count \in Nat /\ served \in Nat /\ failed \in Nat
    /\ opc \in OwnerLabels
    /\ job \in [Client -> Jobs]
    /\ revoked \in BOOLEAN

Closed == row \in {"revoked", "gone"}

(* What the row has gone through where the owner's request stands.         *)
OwnerInv ==
    /\ opc = "share_insert" => row = "none"
    /\ opc = "cache_del" => Closed
    /\ revoked => Closed

(* What a visitor's request knows where it stands.                         *)
GoodJob(j) ==
    /\ j.pc # "idle" => row # "none"
    /\ j.pc \in {"increment", "cache_get", "cache_set"} => j.counted
    /\ j.late => revoked
    /\ j.pc \in {"increment", "cache_get", "cache_set", "find_file"} => ~j.late

JobInv == \A c \in Client : GoodJob(job[c])

Slipping == At({"increment"})
Underway == {c \in At({"cache_get", "cache_set", "find_file"}) : job[c].counted}

IInv == TypeInv /\ OwnerInv /\ JobInv /\ OverrunBounded /\ CountExact

-------------------------------------------------------------------------------
(* The two sets the counts range over are finite, being sets of threads.   *)
LEMMA FiniteThreads ==
    /\ IsFiniteSet(Slipping) /\ Cardinality(Slipping) \in Nat
    /\ IsFiniteSet(Underway) /\ Cardinality(Underway) \in Nat
    /\ Cardinality(Client) \in Nat
<1>1. Slipping \subseteq Client /\ Underway \subseteq Client
  BY DEF Slipping, Underway, At
<1> QED
  BY <1>1, ShareAccessAssumption, FS_Subset, FS_CardinalityType

(* What the two counted properties say, with the sets named.               *)
LEMMA CountsNamed ==
    /\ OverrunBounded <=>
         (MaxDownloads > 0 => count + Cardinality(Slipping) < MaxDownloads + Cardinality(Client))
    /\ CountExact <=> (row # "gone" => count = served + failed + Cardinality(Underway))
BY DEF OverrunBounded, CountExact, Slipping, Underway

(* At start there is no share and no visitor. *)
LEMMA InitIInv == Init => IInv
<1> SUFFICES ASSUME Init PROVE IInv
  OBVIOUS
<1> USE ShareAccessAssumption
<1>1. TypeInv /\ OwnerInv
  BY DEF Init, TypeInv, OwnerInv, Closed, OwnerLabels, Labels, Jobs, Idle
<1>2. JobInv
  BY DEF Init, JobInv, GoodJob, Idle
<1>3. Slipping = {} /\ Underway = {}
  BY DEF Init, Idle, Slipping, Underway, At
<1>4. OverrunBounded /\ CountExact
  BY <1>3, FS_EmptySet, FiniteThreads, CountsNamed DEF Init
<1> QED
  BY <1>1, <1>2, <1>4 DEF IInv

-------------------------------------------------------------------------------
(* A step that is no visitor's leaves the requests and the counts alone,   *)
(* and keeps the invariant where it respects the life of the row: a row    *)
(* once created stays created, once closed stays closed, once gone stays   *)
(* gone.                                                                   *)
LEMMA QuietStep ==
    ASSUME IInv, UNCHANGED <<count, job, served, failed>>,
           TypeInv', OwnerInv',
           row # "none" => row' # "none",
           row = "gone" => row' = "gone",
           revoked => revoked'
    PROVE  IInv'
<1>1. JobInv'
  BY DEF IInv, JobInv, GoodJob
<1>2. Slipping' = Slipping /\ Underway' = Underway
  BY DEF Slipping, Underway, At
<1>3. OverrunBounded' /\ CountExact'
  BY <1>2, CountsNamed DEF IInv, OverrunBounded, CountExact, Slipping, Underway, At
<1> QED
  BY <1>1, <1>3 DEF IInv

(* The owner's requests and the clock keep the invariant. *)
LEMMA OwnerStep == ASSUME IInv, Owner \/ Clock \/ UNCHANGED vars PROVE IInv'
<1> USE DEF IInv, TypeInv, OwnerInv, Closed, OwnerLabels, HasRow
<1>1. ASSUME NEW l \in {"share_insert", "revoke", "soft_delete"}, OwnerStart(l) PROVE IInv'
  BY <1>1, QuietStep DEF OwnerStart
<1>2. CASE ShareInsert
  BY <1>2, QuietStep DEF ShareInsert
<1>3. CASE CacheNew
  BY <1>3, QuietStep DEF CacheNew
<1>4. CASE Revoke
  BY <1>4, QuietStep DEF Revoke
<1>5. CASE CacheDel
  BY <1>5, QuietStep DEF CacheDel
<1>6. CASE SoftDelete
  BY <1>6, QuietStep DEF SoftDelete
<1>7. CASE RevokeByFile
  BY <1>7, QuietStep DEF RevokeByFile
<1>8. CASE PurgeRow
  BY <1>8, QuietStep DEF PurgeRow
<1>9. CASE ExpireShare
  BY <1>9, QuietStep DEF ExpireShare
<1>10. CASE RevokeExpired
  BY <1>10, QuietStep DEF RevokeExpired
<1>11. CASE CacheExpire
  BY <1>11, QuietStep DEF CacheExpire
<1>12. CASE UNCHANGED vars
  BY <1>12, QuietStep DEF vars
<1> QED
  BY <1>1, <1>2, <1>3, <1>4, <1>5, <1>6, <1>7, <1>8, <1>9, <1>10, <1>11, <1>12 DEF Owner, Clock

-------------------------------------------------------------------------------
(* How a visitor's step moves its thread between the two sets.             *)
LEMMA Moves ==
    ASSUME TypeInv, NEW c \in Client, NEW j \in Jobs, Become(c, j)
    PROVE  /\ job' \in [Client -> Jobs]
           /\ \A d \in Client : job'[d] = IF d = c THEN j ELSE job[d]
           /\ Slipping' = IF j.pc = "increment" THEN Slipping \cup {c} ELSE Slipping \ {c}
           /\ Underway' = IF j.pc \in {"cache_get", "cache_set", "find_file"} /\ j.counted
                          THEN Underway \cup {c} ELSE Underway \ {c}
<1>1. job' \in [Client -> Jobs] /\ \A d \in Client : job'[d] = IF d = c THEN j ELSE job[d]
  BY DEF TypeInv, Become
<1>2. Slipping' = IF j.pc = "increment" THEN Slipping \cup {c} ELSE Slipping \ {c}
  BY <1>1 DEF Slipping, At
<1>3. Underway' = IF j.pc \in {"cache_get", "cache_set", "find_file"} /\ j.counted
                  THEN Underway \cup {c} ELSE Underway \ {c}
  BY <1>1 DEF Underway, At
<1> QED
  BY <1>1, <1>2, <1>3

(* A thread is added to a finite set or taken out of it.                   *)
LEMMA AddOrRemove ==
    ASSUME NEW S, IsFiniteSet(S), NEW x
    PROVE  /\ x \in S => Cardinality(S \cup {x}) = Cardinality(S)
                         /\ Cardinality(S \ {x}) = Cardinality(S) - 1
           /\ x \notin S => Cardinality(S \cup {x}) = Cardinality(S) + 1
                            /\ Cardinality(S \ {x}) = Cardinality(S)
<1>1. CASE x \in S
  <2>1. S \cup {x} = S
    BY <1>1
  <2> QED
    BY <1>1, <2>1, FS_RemoveElement
<1>2. CASE x \notin S
  <2>1. S \ {x} = S
    BY <1>2
  <2> QED
    BY <1>2, <2>1, FS_AddElement
<1> QED
  BY <1>1, <1>2

(* A visitor's step that leaves the database alone keeps the types, the    *)
(* owner's part and what the requests know, where its own request is good. *)
LEMMA VisitorStep ==
    ASSUME IInv, NEW c \in Client, NEW j \in Jobs, Become(c, j), GoodJob(j),
           UNCHANGED <<row, opc, revoked>>,
           count' \in Nat, served' \in Nat, failed' \in Nat
    PROVE  TypeInv' /\ OwnerInv' /\ JobInv'
<1> USE DEF IInv
<1>1. TypeInv'
  BY Moves DEF TypeInv
<1>2. OwnerInv'
  BY DEF OwnerInv, Closed
<1>3. JobInv'
  <2> SUFFICES ASSUME NEW d \in Client PROVE GoodJob(job[d])'
    BY DEF JobInv
  <2>1. job'[d] = IF d = c THEN j ELSE job[d]
    BY Moves
  <2>2. GoodJob(job[d])
    BY DEF JobInv
  <2> QED
    BY <2>1, <2>2 DEF GoodJob
<1> QED
  BY <1>1, <1>2, <1>3

(* Start: the thread enters neither set. *)
LEMMA StartStep == ASSUME IInv, NEW c \in Client, NEW counted \in BOOLEAN, Start(c, counted) PROVE IInv'
<1> DEFINE j == [Idle EXCEPT !.pc = "resolve", !.counted = counted, !.late = revoked]
<1>1. j \in Jobs /\ j.pc = "resolve" /\ j.counted = counted /\ j.late = revoked
  BY DEF IInv, TypeInv, Idle, Jobs, Labels
<1>2. Become(c, j) /\ UNCHANGED <<row, opc, revoked, count, served, failed>> /\ row # "none" /\ job[c].pc = "idle"
  BY DEF Start
<1> HIDE DEF j
<1>3. GoodJob(j)
  BY <1>1, <1>2 DEF GoodJob
<1>4. TypeInv' /\ OwnerInv' /\ JobInv'
  BY <1>1, <1>2, <1>3, VisitorStep DEF IInv, TypeInv
<1>5. c \notin Slipping /\ c \notin Underway
  BY <1>2 DEF Slipping, Underway, At
<1>6. Slipping' = Slipping /\ Underway' = Underway
  BY <1>1, <1>2, <1>5, Moves, SMTT(30) DEF IInv
<1>7. OverrunBounded' /\ CountExact'
  BY <1>2, <1>6, CountsNamed DEF IInv, OverrunBounded, CountExact, Slipping, Underway
<1> QED
  BY <1>4, <1>7 DEF IInv

(* Resolve: a download let through has seen a count below the limit, and   *)
(* its own thread was not among those that slip.                           *)
LEMMA ResolveStep == ASSUME IInv, NEW c \in Client, Resolve(c) PROVE IInv'
<1> USE ShareAccessAssumption
<1> DEFINE j == IF ~Admitted(job[c].counted) THEN Idle
                ELSE [job[c] EXCEPT !.seen = count, !.pc = Onwards(job[c].counted)]
<1>0. job[c] \in Jobs /\ count \in Nat /\ served \in Nat /\ failed \in Nat /\ GoodJob(job[c])
  BY DEF IInv, TypeInv, JobInv
<1>1. /\ j \in Jobs
      /\ \/ j = Idle
         \/ /\ Admitted(job[c].counted) /\ j.counted = job[c].counted /\ j.late = job[c].late
            /\ j.pc = Onwards(job[c].counted)
  BY <1>0 DEF Idle, Jobs, Labels, Onwards
<1>2. Become(c, j) /\ UNCHANGED <<row, opc, revoked, count, served, failed>> /\ job[c].pc = "resolve"
  BY DEF Resolve
<1>a. Idle.pc = "idle" /\ Idle.late = FALSE /\ Idle.counted = FALSE
  BY DEF Idle
<1> HIDE DEF j
<1>3. GoodJob(j)
  BY <1>0, <1>1, <1>2, <1>a DEF GoodJob, Admitted, Onwards, IInv, OwnerInv, Closed
<1>4. TypeInv' /\ OwnerInv' /\ JobInv'
  BY <1>0, <1>1, <1>2, <1>3, VisitorStep
<1>5. c \notin Slipping /\ c \notin Underway
  BY <1>2 DEF Slipping, Underway, At
<1>6. Underway' = Underway
  <2>1. ~(j.pc \in {"cache_get", "cache_set", "find_file"} /\ j.counted)
    BY <1>1, <1>a DEF Onwards
  <2> QED
    BY <1>1, <1>2, <1>5, <2>1, Moves DEF IInv
<1>7. CountExact'
  BY <1>2, <1>6, CountsNamed DEF IInv, CountExact, Slipping, Underway
<1>8. OverrunBounded'
  <2>1. CASE j.pc # "increment"
    <3>1. Slipping' = Slipping
      BY <1>1, <1>2, <1>5, <2>1, Moves DEF IInv
    <3> QED
      BY <1>2, <3>1 DEF IInv, OverrunBounded, Slipping
  <2>2. CASE j.pc = "increment"
    <3>1. Slipping' = Slipping \cup {c}
      BY <1>1, <1>2, <2>2, Moves DEF IInv
    <3>2. Slipping' \subseteq Client
      BY <3>1 DEF Slipping, At
    <3>3. Cardinality(Slipping') <= Cardinality(Client) /\ Cardinality(Slipping') \in Nat
      BY <3>2, FS_Subset, FS_CardinalityType
    <3>4. MaxDownloads > 0 => count < MaxDownloads
      BY <1>1, <1>a, <2>2 DEF Admitted, Onwards
    <3>5. Cardinality(Client) \in Nat
      BY FS_CardinalityType
    <3>6. MaxDownloads > 0 => count + Cardinality(Slipping') < MaxDownloads + Cardinality(Client)
      BY <1>0, <3>3, <3>4, <3>5
    <3> QED
      BY <1>2, <3>6 DEF OverrunBounded, Slipping
  <2> QED
    BY <2>1, <2>2
<1> QED
  BY <1>4, <1>7, <1>8 DEF IInv

(* Increment: the thread leaves those that slip and is counted. *)
LEMMA IncrementStep == ASSUME IInv, NEW c \in Client, Increment(c) PROVE IInv'
<1> USE ShareAccessAssumption
<1> DEFINE j == [job[c] EXCEPT !.pc = "cache_get"]
<1>0. job[c] \in Jobs /\ count \in Nat /\ served \in Nat /\ failed \in Nat /\ GoodJob(job[c])
  BY DEF IInv, TypeInv, JobInv
<1>1. j \in Jobs /\ j.counted = job[c].counted /\ j.late = job[c].late /\ j.pc = "cache_get"
  BY <1>0 DEF Jobs, Labels
<1>2. Become(c, j) /\ UNCHANGED <<row, opc, revoked, served, failed>> /\ job[c].pc = "increment"
  BY DEF Increment
<1>3. count' = IF HasRow THEN count + 1 ELSE count
  BY DEF Increment, Incremented
<1> HIDE DEF j
<1>4. GoodJob(j) /\ j.counted /\ row # "none"
  BY <1>0, <1>1, <1>2 DEF GoodJob
<1>5. TypeInv' /\ OwnerInv' /\ JobInv'
  BY <1>0, <1>1, <1>2, <1>3, <1>4, VisitorStep
<1>6. c \in Slipping /\ c \notin Underway
  BY <1>2 DEF Slipping, Underway, At
<1>7. Slipping' = Slipping \ {c} /\ Underway' = Underway \cup {c}
  BY <1>1, <1>2, <1>4, Moves DEF IInv
<1>8. Cardinality(Slipping') = Cardinality(Slipping) - 1 /\ Cardinality(Underway') = Cardinality(Underway) + 1
  BY <1>6, <1>7, FiniteThreads, AddOrRemove
<1>9. OverrunBounded'
  <2>1. MaxDownloads > 0 => count + Cardinality(Slipping) < MaxDownloads + Cardinality(Client)
    BY CountsNamed DEF IInv
  <2>2. MaxDownloads > 0 => count' + Cardinality(Slipping') < MaxDownloads + Cardinality(Client)
    BY <1>0, <1>3, <1>8, <2>1, FiniteThreads
  <2> QED
    BY <2>2 DEF OverrunBounded, Slipping
<1>10. CountExact'
  <2>1. row # "gone" => count = served + failed + Cardinality(Underway)
    BY CountsNamed DEF IInv
  <2>2. row # "gone" => HasRow
    BY <1>4 DEF IInv, TypeInv, HasRow
  <2>3. row' # "gone" => count' = served' + failed' + Cardinality(Underway')
    BY <1>0, <1>2, <1>3, <1>8, <2>1, <2>2, FiniteThreads
  <2> QED
    BY <2>3 DEF CountExact, Underway
<1> QED
  BY <1>5, <1>9, <1>10 DEF IInv

(* CacheGet and CacheSet: the thread stays where it is counted. *)
LEMMA CacheStep == ASSUME IInv, NEW c \in Client, CacheGet(c) \/ CacheSet(c) PROVE IInv'
<1>0. job[c] \in Jobs /\ count \in Nat /\ served \in Nat /\ failed \in Nat /\ GoodJob(job[c])
  BY DEF IInv, TypeInv, JobInv
<1>1. PICK l \in {"cache_set", "find_file"} :
         /\ Become(c, [job[c] EXCEPT !.pc = l])
         /\ UNCHANGED <<row, opc, revoked, count, served, failed>>
         /\ job[c].pc \in {"cache_get", "cache_set"}
  BY DEF CacheGet, CacheSet
<1> DEFINE j == [job[c] EXCEPT !.pc = l]
<1>2. j \in Jobs /\ j.counted = job[c].counted /\ j.late = job[c].late /\ j.pc = l
  BY <1>0 DEF Jobs, Labels
<1>3. Become(c, j)
  BY <1>1
<1> HIDE DEF j
<1>4. GoodJob(j) /\ j.counted /\ job[c].counted
  BY <1>0, <1>1, <1>2 DEF GoodJob
<1>5. TypeInv' /\ OwnerInv' /\ JobInv'
  BY <1>0, <1>1, <1>2, <1>3, <1>4, VisitorStep
<1>6. c \notin Slipping /\ c \in Underway
  BY <1>1, <1>4 DEF Slipping, Underway, At
<1>7. Slipping' = Slipping /\ Underway' = Underway
  BY <1>2, <1>3, <1>4, <1>6, Moves DEF IInv
<1>8. OverrunBounded' /\ CountExact'
  BY <1>1, <1>7, CountsNamed DEF IInv, OverrunBounded, CountExact, Slipping, Underway
<1> QED
  BY <1>5, <1>8 DEF IInv

(* FindFile: a counted download moves from underway to served or failed. *)
LEMMA FindFileStep == ASSUME IInv, NEW c \in Client, FindFile(c) PROVE IInv'
<1>0. job[c] \in Jobs /\ count \in Nat /\ served \in Nat /\ failed \in Nat /\ GoodJob(job[c])
  BY DEF IInv, TypeInv, JobInv
<1>1. Idle \in Jobs /\ Idle.pc = "idle" /\ Idle.late = FALSE /\ Idle.counted = FALSE
  BY DEF Idle, Jobs, Labels
<1>2. Become(c, Idle) /\ UNCHANGED <<row, opc, revoked, count>> /\ job[c].pc = "find_file"
  BY DEF FindFile
<1>3. /\ served' \in Nat /\ failed' \in Nat
      /\ served' + failed' = IF job[c].counted THEN served + failed + 1 ELSE served + failed
  BY <1>0 DEF FindFile
<1>4. GoodJob(Idle)
  BY <1>1 DEF GoodJob
<1>5. TypeInv' /\ OwnerInv' /\ JobInv'
  BY <1>0, <1>1, <1>2, <1>3, <1>4, VisitorStep
<1>6. c \notin Slipping /\ (c \in Underway <=> job[c].counted)
  BY <1>2 DEF Slipping, Underway, At
<1>7. Slipping' = Slipping /\ Underway' = Underway \ {c}
  <2>1. Slipping' = IF Idle.pc = "increment" THEN Slipping \cup {c} ELSE Slipping \ {c}
    BY <1>1, <1>2, Moves DEF IInv
  <2>2. Underway' = IF Idle.pc \in {"cache_get", "cache_set", "find_file"} /\ Idle.counted
                    THEN Underway \cup {c} ELSE Underway \ {c}
    BY <1>1, <1>2, Moves DEF IInv
  <2> QED
    BY <1>1, <1>6, <2>1, <2>2
<1>8. Cardinality(Underway') = IF job[c].counted THEN Cardinality(Underway) - 1 ELSE Cardinality(Underway)
  BY <1>6, <1>7, FiniteThreads, AddOrRemove
<1>9. OverrunBounded'
  BY <1>2, <1>7 DEF IInv, OverrunBounded, Slipping
<1>10. CountExact'
  <2>1. row # "gone" => count = served + failed + Cardinality(Underway)
    BY CountsNamed DEF IInv
  <2>2. row' # "gone" => count' = served' + failed' + Cardinality(Underway')
    <3>1. CASE job[c].counted
      <4>1. Cardinality(Underway') = Cardinality(Underway) - 1 /\ served' + failed' = served + failed + 1
        BY <1>3, <1>8, <3>1
      <4>2. Cardinality(Underway') \in Nat /\ Cardinality(Underway) \in Nat
        BY <1>7, FiniteThreads, FS_RemoveElement, FS_CardinalityType, FS_Subset
      <4>3. row' = row /\ count' = count
        BY <1>2
      <4>4. (served + failed + 1) + (Cardinality(Underway) - 1) = served + failed + Cardinality(Underway)
        BY <1>0, <4>2
      <4> QED
        BY <2>1, <4>1, <4>3, <4>4
    <3>2. CASE ~job[c].counted
      BY <1>0, <1>2, <1>3, <1>8, <2>1, <3>2, FiniteThreads
    <3> QED
      BY <3>1, <3>2
  <2> QED
    BY <2>2 DEF CountExact, Underway
<1> QED
  BY <1>5, <1>9, <1>10 DEF IInv

(* Every step keeps the invariant. *)
LEMMA NextIInv == IInv /\ [Next]_vars => IInv'
<1> SUFFICES ASSUME IInv, [Next]_vars PROVE IInv'
  OBVIOUS
<1>1. ASSUME NEW c \in Client, Visitor(c) PROVE IInv'
  BY <1>1, StartStep, ResolveStep, IncrementStep, CacheStep, FindFileStep DEF Visitor
<1>2. CASE Owner \/ Clock \/ UNCHANGED vars
  BY <1>2, OwnerStep
<1> QED
  BY <1>1, <1>2 DEF Next

(* The inductive invariant holds in every reachable state. *)
LEMMA IInvHolds == Spec => []IInv
BY InitIInv, NextIInv, PTL DEF Spec

-------------------------------------------------------------------------------
(* LimitOverrunBounded: however many visitors pass resolve_share before    *)
(* one of them reaches increment_download_count, a share with a limit is   *)
(* downloaded fewer than limit plus threads times.                         *)
THEOREM LimitOverrunBounded == Spec => []OverrunBounded
<1>1. IInv => OverrunBounded
  BY DEF IInv
<1> QED
  BY IInvHolds, <1>1, PTL

(* DownloadCountExact: download_count + 1 in the database loses no         *)
(* download, whatever the cached count says.                               *)
THEOREM DownloadCountExact == Spec => []CountExact
<1>1. IInv => CountExact
  BY DEF IInv
<1> QED
  BY IInvHolds, <1>1, PTL

(* RevocationHolds: no request that starts after the answer to a revoke    *)
(* gets past resolve_share, though the cached copy may live on.            *)
THEOREM RevocationHolds == Spec => []RevokeHolds
<1>1. IInv => RevokeHolds
  BY DEF IInv, JobInv, GoodJob, RevokeHolds, At
<1> QED
  BY IInvHolds, <1>1, PTL
===============================================================================
