# SolarDrive in TLA+

SolarDrive is a network drive: a C++ HTTP/WebSocket server on its own Reactor
library, with PostgreSQL for metadata, Redis for sessions and caches, and a
content-addressed chunk store on disk. This directory specifies its concurrent
core in TLA+, checks the specifications with TLC on small instances, and proves
the most important invariants with TLAPS for instances of any size.

Paths below are relative to `src/src/`.

## 1. The system

### Parts, their state and their operations

| Part | Source | State | Operations |
|---|---|---|---|
| Content store and GC | `metadata/content_dao`, `metadata/content_gc`, `storage/object_store` | rows of `content_objects`; one file per chunk | `ensure_in_txn`, `put`/`put_chunked`, `remove`, `purge_content`, `try_collect_content`, `collect_orphans` |
| Files | `api/file_upload_ops`, `api/file_handler`, `metadata/file_dao` | rows of `files` (live, or deleted with a tombstone); Redis keys `file:hash:*` | single upload, instant upload (link), delete |
| Multipart upload | `api/multipart_upload_handler` | Redis hash `multipart:<id>` with an expiry | init, part, status, complete, abort |
| Shares | `api/share_handler`, `metadata/share_dao` | rows of `file_shares`; Redis key `share:<token>` | create, revoke, resolve, download, preview, save, `revoke_expired` |
| Event loop | `network/event_loop`, `network/event_loop_thread` | task queue, eventfd, stop flag | `loop`, `queue_in_loop`, `run_in_loop`, `stop` |
| Timers | `network/timer_queue`, `network/timer` | set of `Timer*`, timerfd, two sets of cancelled timers | `add_timer`, `cancel`, `handle_read` |
| Database pool | `metadata/db_pool` | queue of idle connections, mutex, condition variable | `acquire`, `release` (`~Guard`) |
| TCP server | `network/tcp_server`, `tcp_connection`, `acceptor`, `channel`, `epoll_poller` | connection map, one state machine per connection | accept, read, write, close, stop |
| WebSocket | `ws/*` | registry of sessions under one mutex | upgrade, push, remove |
| HTTP | `http/*` | parser per connection, write-complete callback | parse, route, respond |
| Connection buffer | `network/buffer.h` | a vector and two indices | append, `read_from_fd`, retrieve, `make_space`, shrink |
| Folders and names | `metadata/folder_dao`, `api/folder_handler`, `auth/access_control` | rows of `folders`; place and name of `files` rows | list, create, rename, delete; `make_unique_name` |
| Rate limiter | `cache/rate_limiter`, `cache/redis_client` | a Redis sorted set per address, with an expiry | `allow` |
| Authentication | `auth/*`, `api/auth_handler` | rows of `users`; the signing secret; tokens clients hold | register, login, `generate`, `verify`, `authenticate` |
| Metrics, logging, configuration | `monitor/*`, `network/log`, `config/*` | counters | |

### How the parts interact

`main()` runs the acceptor, the timers and the hourly task (`revoke_expired`,
`collect_orphans(200)`) on the main loop. Accepted connections go round-robin to
the IO loops; an HTTP handler runs from start to end on the IO thread of its
connection. Handlers share nothing in memory but the database pool, the Redis
client and the WebSocket registry. They meet in PostgreSQL, in Redis and on disk:
a DAO method is one transaction (READ COMMITTED), a Redis command is one step,
and a handler is a sequence of such steps with no transaction around them.

### What is hard about it

* **The purge.** `purge_content` is the one transaction of many statements, and
  it unlinks files before it commits. Uploads deduplicate against rows and files
  that it is deleting, links refer to the row, deletes and shares come in between.
* **Check, then act, in two transactions.** The download limit, the reference
  count, the existence of a chunk and the name of a file are read in one step
  and relied upon in another.
* **Field-by-field sessions.** A multipart session is read and written one
  `HGET`/`HSET` at a time by requests on different threads.
* **Crashes.** Files and Redis keys survive a crash half written.
* **Cross-thread task queues.** Lost wakeups, stop before start, cancel before add.
* **Object lifetime.** `TimerId`s outlive their timers; a loop may be destroyed
  while another thread is in `stop()`; a connection is closed by one thread,
  forgotten by another and destroyed by the first again.
* **Streams.** TCP cuts requests and frames anywhere; the parser, the frame codec
  and a buffer that moves its bytes must not notice.
* **Time read early.** The rate limiter stamps a request before the script that
  counts it runs, and Redis expires the key on its own clock.
* **Stopping from a signal handler.** The handler runs in whichever thread the
  system picks, on top of what that thread is doing, and waits for other threads.

PROJECT.json lists each of these at its line under `hazards`, with the
properties that would catch it going wrong.

## 2. The modules

| Module | Models | Composed with |
|---|---|---|
| `ContentStore` | content rows, file rows, share rows, chunk files, the purge, the hourly task | |
| `ContentStoreProofs` | theorems about `ContentStore` | extends it |
| `Namespace` | folders, and the places and names of files | same rows as `ContentStore`, another view |
| `NamespaceProofs` | theorems about `Namespace` | extends it |
| `Admission` | rate limiter, tokens, register and login | extends `Base64Url` |
| `Base64Url` | the token's encoding as operators on bytes | |
| `HttpStream` | one connection as bytes: client, TCP, parser, responses, WebSocket frames | extends `Buffer` |
| `Buffer` | the connection buffer as operators on a record | |
| `RequestProofs` | theorems about `HttpStream`, `Buffer`, `Admission` and `Base64Url` | extends `HttpStream` and `Admission` |
| `MultipartUpload` | one upload session and the requests on it | |
| `MultipartUploadProofs` | theorems about `MultipartUpload` | extends it |
| `ShareAccess` | one share, its Redis copy, its owner and its visitors | |
| `ShareAccessProofs` | theorems about `ShareAccess` | extends it |
| `EventLoop` | one loop, its thread, its callers | implements `TaskExecutor` |
| `TaskExecutor` | abstract: a FIFO queue of tasks, each run once | |
| `TcpServer` | connections from accept to destruction, HTTP responses, the WebSocket registry, stop by a signal | |
| `TcpServerProofs` | theorems about `TcpServer` | extends it |
| `TimerQueue` | timers of one loop, inside and outside its thread | |
| `TimerQueueProofs` | theorems about `TimerQueue` | extends it |
| `DbPool` | `acquire`/`release` with mutex and condition variable | |
| `ThreadingProofs` | theorems about `DbPool` and `EventLoop`, the refinement included | extends both |
| `MC...` | symmetry sets, bounds and constant values for TLC | extend their module |

Every definition that stands for code is listed under `map` in PROJECT.json with
the lines it stands for. Operators whose names begin with `Mut` are deliberate
mistakes (a guard dropped, a loop that ends one short, a reset forgotten); no
action uses them. They belong to the `mutants` of PROJECT.json: with the mapped
definition replaced by its mistaken form, TLC finds the named property violated,
so each property is known to depend on the code it is about.

### ContentStore

A thread's `job` holds its program counter and local variables. One action is one
SQL statement or one file-system call. A single-transaction DAO method is atomic;
`purge_content` is not: what its open transaction has deleted is in `txShares`,
`txFiles` and `txContent` of its job, invisible to others until `Commit`, and
`ContentLocked`, `FileLocked` and `ShareLocked` make others wait where PostgreSQL
would: an INSERT that references the row, an UPDATE or DELETE of it. Where
PostgreSQL would raise a foreign-key error the action ends the request, or, in
the hourly task, the process (`ThrowPurge`: nothing between the timer callback
and `main` catches it).

`ObjectStore::put` is three steps (`PutExists`, `PutOpen`, `PutWrite`), so a chunk
may be `partial`; `linked` says whether the name of the file being written still
leads to it, since `unlink` of an open file does not stop its writer. Failures of
the environment (`Fault`) are a crash, an `unlink` or a commit that fails, and a
short write, which `put` does not notice. Names of files are abstracted to one
nondeterministic failure (`InsertNameTaken`), and hashes are the identity of the
bytes they are of. History are a job's `seen`, the rows that were there when the
purge asked `chunk_hash_in_use`; `spoilt`, the chunks a race or a failure has taken
(an unlink counts only under an upload that relies on the chunk or a row that is not
in `seen`, so a purge that overlooks a row is not excused); and `regime`, which is
`serial` until a request or the hourly task starts while another thread is busy.

### Namespace

A row has an owner, a parent (the folder, or `Root` for NULL) and a name; a DAO
method is one step, and `has_children` two, because its SELECTs see different
snapshots. `IndexAllows` is the partial unique index. The handlers are: create,
rename and delete a folder; insert a file under the name asked for (`upload`, with
no look at the name, as in `handle_single_upload`); link a file under a name from
`make_unique_name` (instant upload and save of a share); remove a file. A multipart
upload resolves its folder at init and inserts at complete: it is one job with that
span. `Listing` is `list_by_parent`: the first `ListLimit` folders by name, and no way
to ask for the next. Names are sequences, so that a user may also ask for the name that
`make_unique_name` would build. `raced` and `over` are history: they name the
overlaps under which the properties do not promise anything.

### HttpStream and Buffer

Bytes are numbers. `Buffer` gives each method of `buffer.h` as an operator on
`[buffer, read_index, write_index]`, with the extra buffer of `read_from_fd`.
`ParseChar` has one case for each state of `parse_char`; names and values of headers
are one byte long but for numbers, which suffices to tell a known header from an
unknown one. `Decode` and `Encode` keep the three forms of a length; `Short` and
`Base` scale them down so that payloads of four bytes take them all. The client has
a script of messages, TCP delivers any prefix of what is on its way, and the context
(`http` or `ws`) is looked at once for each read, as in `main`'s message callback.
A response is all written, waits in part, or fails.

### Admission and Base64Url

A request goes through `allow`, `authenticate` and the handlers of `/auth`. The
stamp is taken in `Allow`, the script runs in `Eval`, and other threads and the
clock come in between. `link` tells a missing connection (`ctx_` is null, all is let
through) from a lost one (every command fails and `connected()` stays true).
`Base64Url` works on the bytes of the user name and the two that follow it, the
part of the payload that differs between users: what precedes it has 96 bytes, a
multiple of three, so the groups are those of the whole payload. Signatures are
ideal: a token remembers the secret it was signed with.

### MultipartUpload

`Load` is one `HGET`, `Save` one `HSET`, in the order of the code; a field that is
missing is read as the default `load_from_redis` gives it. Any command may fail
(`Fails`): `hget` then says nullopt, which is the answer for a missing field, and what
`hset`, `expire` and `del` return is not looked at, so the request goes on. `failed`
remembers the failures that the properties except. `OutOfRange` is the
access past the end of a vector that was read as missing; the process dies there.
`manner` says how clients behave, so that what holds only for orderly clients is
stated for them: `serial`, `patient` (parts in parallel, complete and abort alone)
or `any`.

### ShareAccess

The owner's requests and the visitors' are sequences of one transaction or Redis
command each. `late` marks a request that began after a revoke had been answered.

### EventLoop and TaskExecutor

The eventfd is a Boolean, since only whether it is readable matters. `Stop` and
`Wake` are two steps, as in `EventLoop::stop`. `early` marks the tasks whose wakeup
the drain at the start of `loop()` may swallow and those the loop posts to itself,
for which none is sent. `TaskExecutor`'s queue is `batch \o pending`.

### TcpServer

The main thread and each IO thread have a `script`: what the functions on their
stacks have still to do. `Channel::handle_event`, a request handler or a task puts
steps on it (`close`, `read`, `send`, `push`, `remove`, ...) and each step may be
replaced by the steps it calls; a signal puts `stop_in_loop` on top of whatever the
main thread is doing. One action is what a thread does between two points where
another can see it or make it wait: the mutex of `WsSessionManager`, the queues of
the loops, the promises `stop_in_loop` waits for. The main loop's batch of tasks is
explicit (`mbatch`), because tasks behind a stop run after it. Messages are
abstracted to what their handler does: answer and keep or close the connection,
push progress first, upgrade, or nothing yet. `bad` records the use of a closed
socket, a second `connection_destroyed` and a task posted to a destroyed loop.

### TimerQueue

Calls from other threads go through `tasks`, calls from the loop's thread act at
once, from a callback or from elsewhere, on any timer that was ever created. `alarm` is
the time from which the timerfd is readable, as `time_from_now` makes it: the rest cut
to whole microseconds (`Whole`), nothing at all if none is left (an `it_value` of 0
disarms), and `Pause` for a time that is past. `misused` records every use or deletion
of a deleted `Timer`; what is read there may be the old contents or others, so
`cancel_in_loop` of such a timer either returns or goes on. `cancelled`, `late`, `held`
and `setAt` are history: which timers were cancelled at all, after their deletion, or
from a callback when they were not in `timers_`, and when the timerfd was last set.

### DbPool

`Wait` gives the mutex up and sleeps in one step, `Spurious` wakes a thread for no
reason, and `Notify` comes after the mutex was released, as in the code.

## 3. What TLC checks

| Run | Bounds | Shows |
|---|---|---|
| `content` | 2 handlers and the hourly task, 3 files, 3 contents one at a time, 2 once threads have overlapped | foreign keys (`ReferentialIntegrity`), `OwnBytes` and `PurgeOnlyOrphans` survive every interleaving with the purge's transaction; when requests do not overlap, live files stay readable (`SerialFilesReadable`) and purges give back the chunks nobody needs (`SerialPurgeReclaims`) |
| `content_live` | 1 handler and the hourly task, 2 files, 2 contents, LIMIT 1, one fault | data is lost only through the known windows (`DamageExplained`); nobody waits for ever (`RequestsFinish`); orphans are collected although the handler that made them died (`OrphansCollected`) |
| `content_race` (violated) | as `content`, 2 contents | `LiveFilesReadable` fails: the purge unlinks a chunk an upload has just deduplicated against |
| `namespace` | 2 handlers, 2 users, 2 folders, 3 files, 4 rows in all, 2 folder names and 1 file name, numbers up to 1, listings of one row | every entry is in a folder of its own owner (`OwnTree`), the listings lead to it (`EntriesListed`), names that were looked for are free and the first free one (`FirstFreeName`), but for the overlaps the properties name |
| `stream` | 37 scripts of up to four messages, a buffer of 6 bytes and an extra one of 9, every cut of the stream | `BufferExact`, `RequestsFramed`, `FramesExact`, `ClosingHolds` |
| `admission` | 2 threads, 2 addresses, limit 2 in a window of 2 ticks, 4 points of time, 2 names, 2 secrets, one fault | the window is overrun by at most one request for each thread (`WindowBound`) and refuses only when full (`RefusedOnlyFull`); `TokensExact` |
| `token_roundtrip` (violated) | 1 thread, the same names | `TokensRoundTrip` fails: a token just issued is refused because its payload is encoded with '_' |
| `multipart` | 2 requests in flight, 2 parts, 2 files, one crash, every manner; commands fail for orderly clients | `WholeOrEmpty` for any clients, `PatientOneFile` and `AckedKept` for orderly ones |
| `share` | 3 visitors, limit 2, 6 downloads | `OverrunBounded`, `CountExact`, `RevokeHolds` |
| `threading` | the loop: 2 callers, 3 tasks; the pool: 5 threads, 2 connections | `FirstInFirstOut` (refinement), `NoLostWakeup`, `StopEnds`, `TasksRun`; `Conserved`, `NoLostNotify` |
| `timer` | 2 timers, one repeating, 4 points of time, two to a microsecond | `MisuseExplained`, `Armed`, `CancelledNeverRuns`, `TimersFire`, for any callers |
| `server` | 2 connections, one IO thread, one signal, a push or broadcast only when the IO loop's queue is empty | `SocketSafe`, `EndInSight`, `RegistryClean`, and `ServerStops`: the signal ends the server, or meets one of the two lock cycles |

**Why the bounds are enough to be interesting.** The two contents have the chunk
lists `<<c1, c2>>` and `<<c2>>`: one chunk shared, one not, and lists of length
one and two. Three files allow a link, a delete and a new upload of the same
bytes at once. Rows are never reused, as UUIDs are not, so the number of ids
bounds the length of a history; requests that insert start only while an id is
left for them. Two requests in flight are what it takes to tear a session; a
third one adds no new pair of conflicting commands. Five threads on two
connections leave threads asleep while others overtake them. In `server` the two
connections share a loop, so one's handler acts on the other in the same round of
events, while the main thread sends to both from outside; a second IO thread adds
no code path, and the invariants also hold with two (4 million states, without
`ServerStops`). In `namespace` one user has entries in the root and the other names
the folders and files of the first, which is all that owners can do to each other.
`stream`'s buffer is so small that every script makes it grow, compact and shrink,
and its scripts have requests with and without query and body, both line ends, an
empty header, a header whose case the parser does not know, closing and keep-alive
responses in either order, and frames of all lengths, masked and not. In
`admission` the limiter is explored with requests that need no account, and
accounts and tokens where there is no Redis: `Authenticate` reads nothing the
limiter keeps and the limiter nothing of the token. `WindowBound` is tight: with
one less, TLC finds the overrun. With listings of one row and two folders `namespace`
has entries behind a listing's end. In `multipart` a command fails in requests of
serial and patient clients, at any of their steps; a crash and a failure that the
properties except do not come together, and `status`, which only reads, is sent by
serial clients (`Focus`). In `timer` a clock of two units to the microsecond is enough
to have a rest of less than one, and two timers to have one expire behind the other's
callback; the clock goes on past its bound while a due timer waits for the timerfd. In
`threading` the loop and the pool share no state, and one is explored while the other
stands at its start. `timer` stops the clock, `stream` ends with its
script and `server` ends, or hangs in a lock cycle: they are checked without
deadlock detection. Every other run is checked for deadlock.

**Symmetry** is used for ids, workers, requests, visitors, users, addresses and secrets, in runs without
liveness properties only.

**Fairness.** A thread in the middle of a request, of the loop or of a DAO method
keeps running (`WF` of its step): threads are preemptively scheduled and none of
the steps blocks except on the locks the models contain. The hourly task comes
again (`run_every`). Time passes. Nothing is assumed of clients, of I/O events or
of crashes. A loop runs its tasks and looks at its stop flag after every poll,
however many events there are: `SF` of `RunTask`, `MainSwap` and `LoopExit` in
`TcpServer`. `StopEnds` needs neither I/O nor the poll timeout; `TasksRun` carries
the poll timeout (`kPollTimeoutMs`) as an explicit hypothesis, because the wakeup
of an early task can be lost.

## 4. What is proved

Every invariant, action property and refinement that a passing run checks is also a
theorem. The theorems hold for any sets of threads, rows,
hashes, chunks and connections, any limits, names and byte strings that satisfy the
`ASSUME`s of the modules; TLC evaluates those on each run. They say that names are
distinct (`None` is no thread, `Main` no IO thread), that a content has at least one
chunk, that bounds are natural numbers, that bytes are numbers and what a client has to
send is made of bytes, and, where a property counts, that the threads and connections
of a process are finitely many. In the larger modules each action has a lemma of its own.

**`ContentStoreProofs`.** `TypeCorrect` (`Spec => []TypeOK`) and `IntegrityHolds`
(`Spec => []ReferentialIntegrity`), then the properties of the disk.
`TypeOK` alone is not inductive: that a purge walks a chunk list in range needs to
know which hash it walks, and that the hash of a row does not change. `TypeInv`
adds `RowsHashed` (a row that was ever inserted has a hash) and `GoodJob` (what a
program counter implies about the job's locals: a thread with the content row
deleted is in the chunk loop or at the commit and has a content that was inserted,
every orphan still queued was inserted, a thread that names a file has one).
`ReferentialIntegrity` is not inductive either: a commit removes rows that were
chosen several statements earlier. `LockInv` adds `JobLocks` (the tombstones in
`txFiles` are still tombstones, their shares are in `txShares`, and when
`txContent` is set they are all the files of that content) and `Exclusive` (no two
open transactions have deleted the same row). The argument is the one PostgreSQL's
locks make: between the DELETE and the commit no statement can add a reference,
because it would need the locked row. `OnlyOrphansPurged` (what a commit removes were
tombstones, all of them) follows from `JobLocks`. `UploadsOwnBytes` (`OwnBytes`) follows
a request from the row it found, by one of three SELECTs or an INSERT, to the files row
it inserts statements later: the hash of a row never changes and a row that a purge has
removed is not used again.

`LossExplained` (`DamageExplained`: the only unlinks it excuses are of chunks that an
upload in flight relies on, or of rows committed after the purge had looked) needs `DiskInv`, which says where the chunks of
every content can be. A content row has all its chunks on disk, or in `spoilt`, unless
a purge has deleted the row and not committed yet (`RowsLaid`); an upload has laid down
what its chunk loop has passed, and all of it when it comes to insert the row (`JobDisk`);
a chunk that is half written has its writer (`PartialWritten`); and a purge works with
the chunk list of the row it deletes (`PurgeOf`). `SerialReadable` and `SerialReclaims`
rest on `SerialInv`: as long as the regime is serial one thread at a time is busy
(`OneBusy`), and without faults nothing is in `spoilt`, what `chunk_hash_in_use` found
is still so at the `unlink`, and the chunks a purge has passed are gone or needed by
another row (`SerialPurge`).

**`ThreadingProofs`, the pool.** `PoolTypeCorrect` and `ConnectionsConserved`. The inductive invariant is `TypeOK /\ Conserved`: that a
connection is pushed back once rests on the mutex being held by the one thread
between lock and unlock, which is part of `TypeOK`. `NotifyNeverLost`
(`NoLostNotify`) counts: while a thread sleeps there are at least as many threads on
their way (about to notify, woken, or at the predicate) as idle connections. That
inequality is the property itself and is inductive beside `TypeOK`; the work is in
the lemmas that say how each step moves a thread in and out of the two sets.

**`NamespaceProofs`.** `OwnTreeHolds`, `EntriesListedHolds` and
`FirstFreeNameHolds`: the three properties of the run `namespace` for any number of
threads, users, folders, files and names, and for any bound on the numbers that
`make_unique_name` tries. All rest on `TypeInv`, which says at which points of
which handler a job can be, and on lemmas that say what any step does to a folder
row (`FolderStays`, `FolderLives`, `NewFolder`, `NewFile`) and to the jobs of other
threads (`OthersSame`). `OwnInv` adds `Found`: a job past the lookup of its folder
knows that the row is there and whose it is, for good, as nothing moves a folder.
`ListInv` adds what a job remembers from an earlier transaction: that the folder
is live (`StillLive`), that it has no entries (`SeenEmpty`). Each stays true or the
folder is in `raced`, because only the insert and the soft_delete of two jobs for
that folder could disturb it, and `RacesSeen` says that such a pair was recorded
when the later of them began. A live folder that its listing does not show has at least
`ListLimit` others before it, and is then one of more than a listing has rows. `NameInv` adds what a job knows of the names it has
tried (`Tried`); it stays true, or the step that changed the folder's names has
marked the job as overtaken (`Overtaken`).

**`ShareAccessProofs`.** `LimitOverrunBounded`, `DownloadCountExact` and
`RevocationHolds`, for any limit and any finite number of threads. The two counting
properties are inductive together with `TypeInv`, `OwnerInv` (what the row has gone
through where the owner's request stands) and `JobInv` (a request beyond
`resolve_share` is not a late one, one that counts is marked so). The overrun is
bounded because each visitor between `resolve_share` and the UPDATE is a thread of its
own, and only those that found the count below the limit got there.

**`ThreadingProofs`, the loop.** `WakeupNeverLost` from `Announced`: a task that waits and is not
early is announced by a readable eventfd or a caller about to write to it, or the loop
is about to swap the queue. `LoopIsExecutor` (`Spec => FirstInFirstOut`) is the
refinement step by step: `Post` and `LoopPost` are `Submit`, `RunTask` is `Execute`, and
`Swap` stutters because `BatchLocal` says that the batch is empty outside
`do_pending_tasks`.

**`TimerQueueProofs`.** `AlarmArmed`, `TimersMisuse` and `CancelIsFinal`, for any timers,
delays, intervals and lengths of a microsecond, and for any callers. All rest on
`BaseInv` (types, where `handle_read` is, only existing timers are queued). `AlarmArmed`
is inductive with it: each way to set the timerfd leaves it right for the earliest timer
(`WholeCuts` bounds what the cut takes), and what does not set it leaves the earliest
timer where it was or takes it away. `CareInv` says of every timer that it is
`Somewhere` (on its way to the loop, in `timers_`, expired, running, cancelled by a
callback, or deleted), that one which was never cancelled too late or in the hands of
`handle_read` is `Owned` (in one of these places only, and not misused), and that one
which was cancelled is `Stopped` (no longer in `timers_`; and in the expired batch only
together with `canceling_`); and of the calls in the task queue that those for one timer
are at most an add and then a cancel (`TaskOrder`).

**`MultipartUploadProofs`.** `FilesWholeOrEmpty` for any clients, `PatientGetsOneFile` and
`AckedPartsKept` for those the properties name, for any number of requests, parts and
versions of a part, and any crashes and failing commands but for those the properties
name. `TypeInv` says which fields a request can have in
hand at each of its steps: a list of hashes is empty or has one place for each part.
`PatientInv` adds that for clients who wait, the session has its full list or is gone
(`FullKey`; an HSET or HGET of a part that fails leaves the list as it was, or ends the
request), that complete and abort run alone (`Alone`), and that after the first file
the key is gone or about to be deleted (`OneFile`). `SerialInv` follows an acknowledged
part through load, put and save of the next request. `NilAssumption` says that an
absent field is not a list of hashes or of flags.

**`TcpServerProofs`.** `SocketsSafe`, `EndAlwaysInSight` and `RegistryStaysClean`, for any
number of connections and IO threads. The invariant treats the steps that can end a
connection as tokens. `EndOf`: of `connection_destroyed`, and of the clean-up that ends
in it, there is at most one, in the queue or on the script of the connection's own loop;
while it is there the socket is open and the map has forgotten the connection; and
`connection_established` comes before it, because the queue is first in, first out.
`RemoveOf`: of `remove_connection` there is at most one in the whole server, for a
connection that is closed, and until the stop it finds the connection in the map; so
`remove_connection_in_loop` and `stop_in_loop` never both queue an end. `SightOf`: a closed
connection always has one of these tokens. `MainInv` gives the shape of the main
thread's script: what is left of one `stop_in_loop` at most, on top of what it
interrupted, and from it when `started_` is false although the IO loops still exist.
`RegistryInv` keeps a registered connection connected, in `zombie`, or with its
`remove_session` to come. Most steps are `Quiet`: they move none of the tokens, and one
lemma (`QuietInv`) covers what they keep.

**`RequestProofs`, what its proofs share.** Properties of streams, encodings and counts
need induction over data and facts about functions defined by recursion. The library's
induction theorems have a predicate as a parameter, which the provers cannot
instantiate. Here the predicate is a *set*: of naturals (`NatSetInduction`, and `Along`
for `0..n`) or of finite sets (`FiniteSetInduction`), and the principle follows from
`WFMin`, whose parameters are sets. A function `f[i \in 0..n] == ...` is a `CHOOSE`;
`RecursionExists` shows that some function satisfies its equation, hence the chosen one
does, and induction gives its values.

**`RequestProofs`, the buffer.** `BufferKeepsStream` (`Spec => []BufferExact`). The
invariant is `BufferExact` beside the types of what is on its way. The work is in one
lemma for each operation of `buffer.h`: `make_space` keeps the readable bytes whether it
moves them or resizes (`MakeSpace`), `append` and `read_from_fd`, with or without the
extra buffer, put the new bytes behind the readable ones (`AppendAppends`,
`ReadAppends`), `shrink` keeps them (`ShrinkKeeps`), `retrieve` drops the first ones
(`RetrieveDrops`), and `Decode` never asks for more than there are (`DecodeUsed`).

**`RequestProofs`, requests in a stream.** `RequestsKept` (`Spec => []RequestsFramed`),
for any script, any headers and bodies, and any cut of the stream. `Layout` and
`HeaderAt` say at which byte of a request its target, version, headers and body are.
`At` relates the parser to a position: being behind the first `k` bytes of a request
determines its state, the headers it has stored (`TakenHeaders`: as sent, with a carriage
return for an empty value) and how much of the current name, value or body it holds.
`ParseStep`, one lemma for each part of a request, moves it one byte on; at the last byte
it has the whole request (`Parsed`). `FeedGoes` is the induction over the bytes of one
`feed`. The invariant `FramingInv` ties this to the connection: buffer and wire are
consecutive stretches of what the script says (`InOrder`, with `EndsOf` for the ends of
its messages), the requests handed over are the first ones of the script (`Heard`), and
the parser stands in the next one as far as it was fed (`Stands`). A request is meant by
the theorem if it and those before it are `WellFormed` (delimiters only between the
parts, a body as long as the header that announces it says) and none before it asks for
an upgrade.

**`RequestProofs`, frames behind an upgrade.** `FramesKept` (`Spec => []FramesExact`),
for any script of well-formed requests, the last of which may ask for the upgrade, and
frames behind them with any opcode and payload, masked or not. First the codec: masking a byte twice
with the same key gives it back (`XorTwice`, bit by bit), the bytes of a 16 or 64 bit
length add up to it (`BigEndianOf`), `Encodes` says at which byte of a frame its parts
are, and `DecodeIs` that `Decode` finds nothing in a beginning of these bytes and exactly
the frame in all of them, whatever follows. `Only`, with a lemma for one element more,
pairs the frames that were sent with those that ask for an answer. The invariant
`SocketsInv` adds to `FramingInv` where the change of the protocol takes place: the
requests handed over are at most the script's, and when all are, the parser is new and
the bytes fed end with the last (`Served`); as long as the context is `http` no frame was
sent, and once it is `ws` the bytes consumed end with the last frame handled
(`Upgraded`); the frames handled are the first of the script (`Handled`) and their
answers are sent in order, all of them while the connection is up (`Answered`). That
nothing of a frame reaches the parser is `NothingBehind`: the client waits for the 101,
so up to then the stream ends with the last request.

**`RequestProofs`, announced closes.** `CloseAnnounced` (`Spec => []ClosingHolds`) is
inductive beside the types of `sent`, `conn` and `stalled`; `SendsOutcome` and
`ResponseSent` say what `send_in_loop` does to the three.

**`RequestProofs`, the limiter.** `WindowsBounded` and `RefusalsEarned`, for any limit,
window and clock and any finite set of threads. `WindowBound` compares a sum over the stamps
of one window with the limit, and neither is inductive: a stamp is taken before the
script runs, the script trims and counts what is stored then, and the key expires as a
whole. `AdmitInv` says of each window that it is `Whole` (the sorted set still has every
request let through with a stamp in it, and they are no more than the limit) or `Over`
(it has ended, and only threads that hold a stamp in it can still be let through), and
with `Stored` that what the sorted set has was let through, by now, and that its key is
not dropped before it has left every window. Lemmas about sums over finite sets (`SumRemove`,
`SumSubset`, `SumIncrement`) carry the counting.

**`RequestProofs`, tokens.** `TokensJudged` (`AdmitSpec => []TokensExact`). That
`base64url_decode` undoes `base64url_encode` on texts without '-' and '_' is an induction
over the groups of three bytes, with the last one short or not, for any length. The invariant says that each token a client or a request holds was
made by `generate`.

**Only model-checked.**

* Liveness, which is beyond this prover: `RequestsFinish`, `OrphansCollected`, `StopEnds`,
  `TasksRun`, `TimersFire`, `ServerStops`.

## 5. Disagreements between the code and what it says of itself

Two are kept as runs and described under `findings`: a live file whose chunk was
purged (`content_race`), and a token just issued that is refused (`token_roundtrip`):
`base64url_decode` turns '-' and '_' into '+' and '/' and then looks them up in a table
that knows '-' and '_' only (`jwt.cpp:67`, `jwt.cpp:78`). A user name with a Chinese
character whose last UTF-8 byte is BE or BF can be enough.

Reading the code for the models showed more, which the passing runs respect as
limits of what they claim:

* `load_from_redis` reads field by field: when the key is deleted after `file_name`
  and `user_id` were read, `chunk_count` is 0, the check of the parts passes, and
  complete inserts a file of no parts (`multipart_upload_handler.cpp:427`), against
  line 195, "校验全部分片已上传" (checks that all parts were uploaded). A failed HGET of
  `chunk_count` does the same to a single, orderly client. `WholeOrEmpty` allows the empty
  file, and `PatientOneFile` excepts the lost HGET; whole files without exception are
  violated.
* `save_to_redis` ignores what `hset` returns, and the part is answered with 200 although
  the session does not have it (`multipart_upload_handler.cpp:384`), against line 135,
  "更新会话中对应 part 的 hash 与 uploaded 标记" (updates the part's hash and flag).
  `AckedKept` is about parts whose own HSETs succeeded; without that TLC finds it
  violated. A DEL that fails at line 447 leaves the session, and a second complete
  makes a second file.
* `cancel_in_loop` reads `sequence()` through the pointer of a timer that may have
  fired and been deleted (`timer_queue.cpp:166`), against `timer.h:6`, "sequence_ 防止 id
  复用误取消". A timer cancelled by a callback while it is expired or running, a one-shot
  timer that cancels itself for example, is deleted at line 131 and again at line 142,
  against the comment at line 134, "回调期间 cancel 的定时器延后在此统一 erase + delete"
  (timers cancelled during callbacks are deleted here, later). `MisuseExplained` names
  both; with either case taken out of it TLC finds it violated. `main` cancels no timer.
* `time_from_now` cuts the rest to whole microseconds (`timer_queue.cpp:24`): the timerfd
  may fire up to a microsecond early, `handle_read` then finds nothing due and sets it
  again for a rest that is cut to 0, which disarms it. The timer does not run, and
  as later ones are not earlier than it, adding them does not set the timerfd either: only
  its cancellation does. That is against `event_loop.h:72`, "delay 秒后执行一次
  callback." (runs callback once after delay seconds). `Armed` allows a disarmed timerfd
  for exactly this rest, and `TimersFire` is about an armed one; without that hypothesis
  TLC finds it violated.
* `rate_limiter.h` says that without Redis requests are let through. That holds for a
  Redis that was absent at start; after a lost connection `connected()` stays true,
  the `EVAL` has no reply, and every limited request is answered with 429 until the
  process restarts (`redis_client.cpp:184`).
* The sliding window lets through up to one request more than the limit for each
  thread, since stamps reach the script late and the key expires by the later clock.
* A folder deleted while a request is about to insert into it (or while a multipart
  upload to it is going on) keeps a live entry no listing leads to
  (`folder_handler.cpp:124`), although line 125 and the prompt in `web/app.js:313` want
  the folder empty: that deleted folders are empty is violated. A rename of a folder deleted meanwhile answers success.
* Header names are compared with their case: behind `content-length` the body is
  parsed as the next request. An empty header value is read as a carriage return.
  Both are in `HttpStream`, and `RequestsFramed` is stated for requests whose length is
  spelled as the parser knows it, and for values that are not empty.
* `WsHandler::feed` takes one frame for each read event: a ping that arrived together
  with another frame is answered only when more bytes come (`ws_handler.cpp:11`).
* Requests behind a closing response in the same read are executed, unanswered if the
  connection is closed already.
* A chunk written partly before a crash is taken for complete by the next upload
  (`object_store.cpp:94`); `DamageExplained` counts it as a known window.
* Two purges running at once can leave a shared chunk on disk with no row leading
  to it, since each still sees the other's row (`content_gc.cpp:69`);
  `SerialPurgeReclaims` is checked for one purge at a time.
* A file linked and deleted between the purge's two DELETEs makes the second fail
  its foreign key; in the hourly task that ends the process (`content_gc.cpp:63`).
* Of two parts uploaded in parallel the later save can undo the earlier one, and a
  save after an abort brings the session back (`multipart_upload_handler.cpp:180`);
  `AckedKept` is stated for serial clients.
* A crash between the HSETs of `part_hashes` and `uploaded` makes `status` and
  `complete` disagree.
* A push that fails to write closes its connection while it holds the registry's
  mutex, and `remove_session` then waits for that mutex in the same thread
  (`ws_session.cpp:73`); a signal that interrupts `broadcast_metrics` makes the main
  thread wait, with the mutex, for IO threads that want it (`main.cpp:265`). These
  are the two cases of `LockCycle` that `ServerStops` excepts.
* A `remove_connection` task behind the stop in the main loop's batch posts to an
  IO loop that the stop has destroyed (`tcp_server.cpp:112`): `TcpServer` reaches
  it, and `bad` then holds `"dead loop"`.
* A connection whose 101 response could not be sent is registered after
  `remove_session` has run, and stays (`ws_upgrade.cpp:128`): `zombie`.
* A response that keeps the connection replaces the callback of one that was to
  close it and is still being written (`http_response.cpp:22`).
* Downloads can exceed `max_downloads` (`share_handler.cpp:132-141`), by the bound
  `OverrunBounded` gives; the count in Redis can stay behind the row's.
* `EventLoop::stop` writes to the eventfd after setting `stop_`, when the loop may
  already be destroyed (`event_loop.cpp:98`).
* After the last timer the timerfd, whose interval is one nanosecond, stays
  readable (`timer_queue.cpp:220`).

## 6. What is not modelled

* The Redis client shares one hiredis context between threads without a lock. Its
  outcomes cannot be enumerated; every statement about Redis keys assumes that a
  single command is atomic.
* HMAC and SHA-256 (ideal in `Admission`), JSON, route matching, static files,
  logging, metrics and configuration: pure functions or output.
* Numbers in headers that are not numbers: `stoull` throws out of the loop.
* Of listings, that of files (`list_by_folder`: the 200 newest, by time); of downloads
  of own files, everything: they only read.
* Of timers, the queue's destructor and the reuse of a deleted timer's address by a new
  one.
* Of multipart sessions, the fields no branch looks at (`mime_type`, `folder_id`,
  `total_size`): one of them lost by a failed HGET is replaced by its default, and saved
  so by the next part; a lost `folder_id` puts the file into the root.
* Some error paths are folded into others with the same outcome: the throw of
  `ensure_in_txn` when the racing row is gone again (`content_dao.cpp:50`) into the
  foreign-key failure that would follow; `find_by_token` and `revoke` of a share into one
  step; a read of 0 bytes or an error (`tcp_connection.cpp:190`) out of `HttpStream`, as
  `TcpServer` has them. A script of the limiter that ran although its reply was lost is
  not a case of `EvalLost`, and a frame length that wraps around in 64 bits
  (`websocket.cpp:46`) is not sent.
* Of connections: the mode without IO threads, the high water mark, the bytes of the
  output buffer, and the mutexes inside the loops' queues and the logger, which a
  signal handler may also find locked.

## 7. What is left

The liveness properties have no theorem. Of the system, sections 5 and 6 say what the
models leave out; the shared hiredis context is the one hazard in PROJECT.json without a
property.

Runs are few on purpose: one for each part of the system, and a violated one only where
it shows something no other run does; findings without a run stay in section 5.
