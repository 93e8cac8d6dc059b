# A specification of sql.mjs

sql.mjs runs SQLite, compiled to WebAssembly, in a browser: no worker, no shared memory,
coroutines by asyncify, and file systems written in JavaScript.  This directory holds TLA+
modules of the parts of it that are hard to test, the TLC runs that check them on small
instances, and proofs, checked by TLAPS, for instances of every size.

Paths like `src/pool.js` are relative to the root of the repository.  Whatever runs between two
awaits of JavaScript code runs without interruption, so in all modules **one action is the code
between two awaits**, and `pc` names the await a call is at.

## Inventory

| component | state | operations | interacts with |
|---|---|---|---|
| Connection pool, `src/pool.js` | `#conn_count`, `#conns`, `#waiters`, `options.initialized` | `borrow` (`get_conn`, `make_conn`, `return_conn`) | opens `Conn`s, awaits `sqlite_initialized`, runs `ROLLBACK;` |
| File, `src/vfs/file.js` | `#lock`, `#res_lock`; `#blob`, `#size`, `#writable`, `#dirty`, `#atomic` | `lock`, `unlock`, `check_reserved_lock`; `read`, `write`, `sync`, `trunc`, `file_control`, `close` | Web Locks of the browser, shared by all tabs; a `FileSystemFileHandle` |
| Asyncify, `src/asyncify.js` | `value`, `stack` (shared by all coroutines), the free list `stacks` | `import_stub`, `export_stub`, `get_stack` | every call into and out of the wasm module |
| Connections and statements, `src/conn.js` | `Conn.ptr`, `Statement.#ptr`, the generators | `open`, `close`, `stmts`, `sql`, `finalize`, `bind` | SQLite, `borrow_mem`, a `FinalizationRegistry` |
| Memory, `src/memory.js` | `leaked`, the allocations of `borrow_mem` | `borrow_mem`, `leaky`, `handle_error` | malloc and free of the module |
| Values, `src/value.js` | `pointers`, `Pointer.refs` | `bind`, `result`, `release`, `value_to_js` | SQLite calls `release` when it drops a pointer |
| Custom VFS bridge, `src/vfs/custom.js`, `c_src/main.c` | `vfs_impls`, `file_impls` | the `x...` methods, `register_vfs` | SQLite above, VFS objects below; results may be promises |
| Local VFS, `src/vfs/local.js` | handles in IndexedDB | `traverse`, `open`, `delete`, `access`, `mount` | makes `File`s, all with one lock name |
| HTTP VFS, `src/vfs/http.js` | url and size | `open`, `read` | the network |
| Functions, `src/func/*.js` | registered functions, blob handles | `xFunc`, `blob_io`, `backup`, `eval` | SQLite calls back into JavaScript |
| Loading, `src/sqlite.js`, `src/util.js`, `src/index.js` | `sqlite_initialized` | - | - |
| SQLite, pages, build, tests | - | - | not modelled |

What is hard in this code: two calls between the awaits of a third one (pool, locks, conn),
a lock exchange that releases before it acquires, a time-out racing a hand-over, state that is
shared by coroutines, promises nobody awaits, and failures halfway through a call.  The list
`hazards` of `PROJECT.json` names each place.

What makes each component correct:

* **Pool**: a connection is with one caller at a time and clean when it gets there; the limit is
  kept; waiting calls are served in order; every call settles; nothing is lost.
* **File**: the levels SQLite believes it has are compatible between files; reads under SHARED see
  the committed content; lock calls settle; levels that were given up are given up; reads see writes, and
  what is synced or committed is durable, all of it or nothing.
* **Asyncify**: each suspended call is rewound from its own frames with its own result; stacks are
  neither shared nor lost; the module is never entered while it unwinds or rewinds.
* **Connections**: a statement is finalized once, after its last use; memory outlives its use.
* **Values**: a pointer is resolvable while SQLite holds it and destroyed once; each block has one owner.
* **Functions**: whatever a function or its promise gives, its call has one outcome and leaks nothing.
* **Blob I/O**: every byte is copied once and in order; the buffer is not used after it is freed (it is, in one case); a call ends.
* **VFS bridge**: what SQLite believes open is open, what it does not is closed; every call returns.
* **Local VFS**: a pathname means one file, whatever is mounted; only that file is opened, removed or created; every
  search ends (the last two have exceptions).

## Modules

| module | of | what it is |
|---|---|---|
| `Lending` | - | abstract: a bounded set of things lent to one holder at a time |
| `ConnPool` | `src/pool.js` | the pool; implements `Lending` |
| `SqliteLock` | `vendor/sqlite3.h` | abstract: the lock levels SQLite needs, and versions written under EXCLUSIVE |
| `WebLocks` | `navigator.locks` | external: requests, first in first out, shared or exclusive |
| `FileLock` | `src/vfs/file.js` | lock, unlock and the snapshot they protect, over `WebLocks`; implements `SqliteLock` |
| `Pages` | - | a file as a sequence of pages |
| `DurableFile` | `vendor/sqlite3.h` | abstract: a file that reads answer and syncs make durable, with batches and crashes |
| `FileIO` | `src/vfs/file.js` | reading, writing, syncing, batches; implements `DurableFile` |
| `Asyncify` | `src/asyncify.js` | coroutines, stacks and the two shared variables |
| `Statements` | `src/conn.js` | a connection, its queries, their statements and the memory they borrow |
| `Values` | `src/value.js` | values, the cells of SQLite they go to, Pointers and their references |
| `ScalarFunctions` | `src/func/basics.js` | statements that call a registered function, over `Values` |
| `BorrowMem` | `src/memory.js` | the layout of one borrowed block, as operators |
| `BlobIO` | `src/func/blob_io.js` | a function that copies streams, composed with `ScalarFunctions` and `BorrowMem` |
| `CustomVfs` | `src/vfs/custom.js`, `c_src/main.c` | the bridge between SQLite and VFSs written in JavaScript |
| `LocalVfs` | `src/vfs/local.js`, `src/vfs/http.js` | mount points, the search for a pathname, and the VFSs behind `CustomVfs` |
| `ArrayLemmas` | - | lemmas on `Head`, `Tail`, `Last`, `Front`, `Append`, and the least number of a set |
| `ConnPoolProofs`, `FileLockProofs`, `FileIOProofs`, `AsyncifyProofs`, `StatementsProofs` | - | theorems about the module of that name |
| `FunctionsProofs` | - | theorems about `BlobIO` and what it extends: `BorrowMem`, `Values`, `ScalarFunctions` |
| `VfsProofs` | - | theorems about `LocalVfs` and what it extends: `CustomVfs` |
| `MCConnPool`, `MCFileLock`, `MCFileIO`, `MCAsyncify`, `MCStatements`, `MCBlobIO`, `MCVfs` | - | constants for TLC |

### ConnPool

`Calls` are calls of `borrow`; `pc[t]` is the await each is at, or how it settled.  A connection is
named by the value of `#conn_count` when `make_conn` was entered for it, so `slot[t]` is both the
capacity a call has taken and the connection it gets.  `#waiters` holds calls: resolving a
waiter and the continuation of `borrow` in that call are one step, because nothing observes the
time between them; a call that has timed out is no longer `waiting`, and a connection handed to it
goes nowhere.  Of two calls that wait for the engine, the second finds that
`options.initialized` is the promise of the first, calls it, and fails with a TypeError that costs
its capacity (`CallNonFunction`); `InitializedFirst` says that at least nothing is initialized twice
over connections that are in use.  `inside[t]` is the call whose func makes the call `t` and
awaits it: `t` can start only while that func runs, and that func returns only when `t` has settled
(`Called`, `Nesting`).  `func` is arbitrary SQL: it begins and ends transactions (`in_tx`).  `MayFail` says
which of the things outside the pool may reject.  `options` is chosen in `Init`: `max_delay` matters by
its sign only, since a time-out may happen at any moment, and `initialized` is a function
or a promise, which the promise of the function's call replaces.

### FileLock, WebLocks, SqliteLock

Each element of `Files` is a `File` object, in the same tab or another one, and `conn` says which of them
belong to the same connection (`ATTACH`): SQLite makes one call at a time on those.  All have the same
lock name, as those of the local VFS have, whatever their handles (`src/vfs/local.js:100` passes the database
of handles for it).
`level` is what SQLite believes: it rises when `lock()` returns true and drops when `unlock()` is
called.  PENDING is not asked for by SQLite through `xLock`, and `lock(3)` and `lock(4)` are the
same code.  `blob` is the version of the content the snapshot `#blob` shows; `Read` and `Commit` are as much of
the I/O as decides which version that is.  `WebLocks` is written from how `file.js` uses it: one
lock per database with FIFO requests, one exclusive lock that is asked for `ifAvailable` and
answered at once.  The refinement maps `level` and `disk` to `SqliteLock`; the exchanges are
stuttering steps there.

### FileIO, DurableFile

One `File` of a database, while its connection has the lock.  Contents are sequences of pages and
offsets count pages: SQLite reads and writes a database by whole pages once it has the lock.
`stream` is `#writable` with what it will make of the file, or `Broken` when one of its methods has
rejected: the file system loses all that was written to it, and later calls reject too.  `blob` is the
snapshot.  An action is a whole call, because SQLite makes one call at a time and only `close()`
changes the file.  `phase` and `pending` are SQLite's side, from the words of `vendor/sqlite3.h` on batches: it
reads only pages of the file, writes no gaps, begins a batch when nothing is pending, rolls it back when
something in it fails, reads nothing between a commit of a batch and the next lock (see
`lock_atomic` for what happens if it does), and unlocks when it has synced or a call has failed (not under
`PRAGMA synchronous=OFF`, and not when a rollback fails in the middle of a spilled transaction: then
`#writable` would stay open without the lock, with pages nobody may see).
`getFile` does not fail here; `FileLock` has that.  The refinement maps `content` to the stream, if there
is a working one, else to the file.

### Asyncify

`Tasks` are calls of wrapped exports.  `running` is the native stack of exports; only the innermost
takes steps.  The instrumented module is external and does what asyncify documents: frames go
to the stack on unwinding and come back on rewinding, up to the import that started it.  `frames`
records whose they are.  Imports return, throw, return a promise, or call exports.

### Statements

`Queries` are iterations over `conn.sql` with the statements of one text; a query is a chain of two
generators, `stmts` and the iterator of a `Statement`, and `pc` says where the chain is suspended: in a
call into SQLite, at a yield (`row`), or forgotten by its consumer (`abandoned`).  A consumer that breaks
off, an error and the last row each run the two `finally` clauses in the same step, innermost first.
`sqlite3_reset` and `sqlite3_finalize` are called without await.  When SQLite asks the VFS to unlock and the
VFS answers with a promise, they return at once and go on later: `late` holds what is still to come.
That a suspended `finalize` makes `handle_error` throw (its result is a promise) is part of the step.
When `sqlite3_open_v2` itself throws, `open` has no handle yet and closes none; no state changes, so that is
no action of its own (`OpenFails` is the failure after it has given a handle).
On SQLite's side there are handles, which become zombies when they are closed with statements
alive, and statements; they are external.  The values that are bound and read are left out.

### Values, ScalarFunctions

A value is a Pointer, `plain` (needs no memory), `bytes` (text or bytes, which need a block), an
`error`, or an `object` that nothing handles.  A cell is where SQLite keeps one: the parameter of a
statement or the result of its function.  `pointers` has the `refs` of each Pointer in the map, `heap`
counts the blocks.  A statement has one parameter and one column, which is enough for a Pointer to be held
by several cells, overwritten by itself and by another.  When SQLite drops a cell it calls `release`; for a
Pointer that has been destroyed (it was bound again after its last reference had gone) that throws out of
the call of SQLite, and the statement is `torn`: SQLite has not emptied that cell, so finalizing the statement
throws at it again, and its cells stay.
`Answer` is `Resultable.result`; where nothing catches what it throws (`Unguarded`: after a promise, or
for an exception of the function) the step itself throws or rejects (`thrown`), while a value that is
returned is handled inside the `try` (`Guarded`).  After a step that has thrown, `conn.js` resets and finalizes
the statement as after any other.  `DestroyedWhenUnheld` is about Pointers in the map: one that has been
destroyed and is bound again is in a cell and not in the map.  `Statement.bind` passes `undefined` for the statement, so that SQLite
refuses it and releases what it has been given at once (`BindToNothing`).

### BlobIO, BorrowMem

`BlobIO` has the steps of `blob_io` between its awaits, for the statements of `ScalarFunctions` that call
it, so that its stream is a parameter like any other and its result a result.  Streams have the bytes
1, 2, ... and a `BYOB` read gives any number of them that fits the view, none when the stream ends;
the view that comes back is the room for the next read.  A blob belongs to the call, and its cells are
numbered; SQLite may refuse any read or write of it.  `locked` has the streams with a reader or a writer:
nothing but the end of the region releases a reader, and nothing a writer, so a second call on
such a stream fails.  `reading` is a `sqlite3_blob_read` in progress, which is `orphan` when the writer
has rejected meanwhile: it then goes on into memory that is freed (`BufferBorrowed`, checked as an invariant of
this instance, gives the trace).  `BorrowMem` lays the
arguments out, as a function of their sizes; `borrowed` has those of each call.

### CustomVfs, LocalVfs

`CustomVfs` is one `sqlite3_file` for each connection, and what the two boilers do with a method that
returns, throws or gives a promise, and with a handler that throws: at once that is an error, after a
promise it is not caught, and the connection is in a call that has no end (`Torn`).  `live` counts
the `File` objects `open` has given and nothing has closed; `impls` is `file_impls`, also with the
`undefined` that an `open` without a result leaves there; `methods` is `pMethods`, which is all that SQLite knows.
`LocalVfs` adds the VFSs: of a user, whose methods give anything; `local`, step by step; and `http`, whose
missing methods are errors.  A pathname is a sequence of names, a mount point a prefix.  `Search` is
the cursor, in one step since an IndexedDB transaction sees one state; `Descend` and `RemoveEntry` are one step
each, so that other connections create and remove files in between.

`traverse` differs from its comments in two ways.  A file that is mounted is found only under its key, a slash, and
its name (`Exact`), and then the handler of the cursor returns without resolving the promise and without
continuing: the call is `stuck` (`MeetsFile`), no step of the model leaves that, and no later mount or failure of
IndexedDB reaches it.  `CallsEnd` excepts a call that is stuck in front of its own file, and no other.
Subdirectories are never entered, since `getFileHandle` rejects for a directory and what follows `??` is not
reached, and an `open` with `SQLITE_OPEN_CREATE` of a path with a missing subdirectory creates a file in its
place and fails: the run `sub_handles` shows that.  `ResolvesRight` and `CallsEnd` are stated so that they hold
of this code and would still hold of one that does what its comments say.

## Runs

| run | instance | shows |
|---|---|---|
| `pool` | 4 calls, 2 connections, no call made by a func, two in two others, or two one in the other; `max_delay` of each sign, `initialized` a function or a promise, all failures | exclusive, clean, ordered loans of initialized connections; the ledger of lost capacity; `ConnPool` implements `Lending`; every call settles, unless it waits for capacity that was lost or all connections are with calls that wait for one more |
| `file_lock` | 3 files, of 3 connections or of 2, 1 commit, `getFile` may fail | compatible levels, current snapshots, one exchange at a time; `FileLock` implements `SqliteLock`; every lock call settles, unless a connection waits for its own lock (`SelfDeadlock`) |
| `lock_reserved` | 2 files | **violated**: RESERVED is not released by `unlock` from RESERVED |
| `lock_atomic` | 2 files | **violated**: the snapshot survives `COMMIT_ATOMIC_WRITE` |
| `file_io` | 3 pages of 2 values, any method but `getFile` may reject | marks cover what is old in the snapshot, the size is right; `FileIO` implements `DurableFile` unless it is stuck |
| `file_batch_mode` | 2 pages | **violated**: a batch that could not open the stream is never left |
| `asyncify` | 3 exports, 3 stacks, 5 promises | stacks, frames and results stay with their call; every export settles |
| `statements` | 2 queries of 2 statements, 2 opens, unlock may suspend | memory outlives its use, statements are finalized, handles are owned, zombies end |
| `functions` | 2 statements, one of `blob_io`; a stream to read and one to write; blobs of 3 bytes, streams of 2, buffers of 1 and 2 | references and blocks are those of the cells; Pointers are destroyed when no cell holds them; streams are copied in order and once, past the end of the region by less than the buffer; a chunk fits its Span, which shares no byte with another; every call of `blob_io` ends |
| `vfs` | 2 connections of any VFS; 2 mount points; a directory and a file that are mounted, names that are files, directories or nothing | `file_impls` and SQLite agree on what is open, files are closed once; the longest mount point wins, and nothing above the last name of a pathname is opened or removed; every call returns, unless it is torn or its search has met a mounted file at exactly its pathname |
| `statement_finalized` | the same as `statements` | **violated**: a suspended reset goes on after finalize |
| `sub_handles` | the same as `vfs` | **violated**: a traversal gives up at a directory before its last name, and makes a file where it may create and a directory is missing |

Bounds.  Four calls on two connections are the fewest with two waiters behind two borrowers, so
that order, time-out and hand-over can meet.  Three files are the fewest with a writer, a reader in
its way and a third one queued behind; one commit tells an old snapshot from a new one
(two were tried too, with the same result).  Three
exports give a nesting and a bystander; three stacks and five promises let the free list grow, be
reused and run out (`malloc` may also fail at any time).

Three pages are the fewest where one is written, one is cut off and one is neither; two values tell old
from new.

Two queries of two statements on a connection that is opened twice are the fewest where one query
goes on with its next statement on another handle while the other keeps the first handle a zombie.

One call of `blob_io` at a time suffices for a second one to find the stream locked, since locks outlive
their call.  Blobs of three bytes with buffers of one and two have chunks that fill the buffer, do not, and
pass the end; two Pointers are the fewest where a live one is bound over one that was destroyed.

Two connections are the fewest where one removes the file another one has found.  The mount
points are `/` and `/a/`, so that one is a prefix of the other; one pathname is below both, the
other is the exact match of a file.  The numbers of references, blocks and bytes are bounded by the cells
and the sizes; nothing else counts.

Deadlock is checked for `file_io`.  A run of the others may end, when all calls have settled or, in
`file_lock`, when the two connections wait for a lock that one of them keeps: there `CHECK_DEADLOCK` is off,
and the liveness properties say when a call may wait forever.

## Fairness

(`FileIO` states safety only.)

* `ConnPool`: continuations run, timers fire, the promises outside settle, and `func` returns when the calls
  of `borrow` it has made have settled (weak fairness).  None of the others depends on another `borrow`.
* `FileLock`: the lock manager grants what it can and continuations run (weak fairness).  SQLite ends its
  transactions, `unlock(0)`, again and again (strong fairness, since it is not possible while a
  lock call is in progress).
* `Asyncify`: promises settle (weak fairness); a continuation that is possible again and again runs, and
  an export that could return again and again does: C code does not call imports
  forever.  Strong, because the native stack is in use in between.
* `Statements`: calls into SQLite return and suspended ones go on (weak fairness), a statement has
  finitely many rows (`StepDone`, strong), and a consumer that reads a row reads on, breaks off or forgets
  the query.  The garbage collector promises nothing: `Collect` is not fair.
* `BlobIO`: SQLite and the streams answer each request, in whatever way (weak fairness of all steps of
  a call together).  Nobody has to make a call, settle another promise or free memory.
* `LocalVfs`: the promises of the browser and of a user's VFS settle (weak fairness of `Settle`).  A search that
  has met its file awaits a promise that nobody can settle, so `Settle` has no step for a stuck call, and
  `CallsEnd` would see a search that hangs for any other reason.

## What is proved

For every number of calls, connections, files, exports, queries, statements and Pointers, and for
every size of a blob, a stream, a buffer and a pathname: every safety property of the passing runs, that is
all of their invariants and action properties and the three refinements.  Each module has one inductive
invariant, which TLC has also checked on the instances of the runs.

`ConnPoolProofs`: `PoolInv` is inductive.  None of `ExclusiveLoan`, `WaitOnlyWhenFull` and
`CleanLoan` is by itself: that a hand-over keeps a loan exclusive needs that exactly the calls in
a holding step have a slot (`SlotIffHolding`), that a new connection is new needs that no name
is above `conn_count` (`Counted`), and that order is kept needs that whoever waits is queued
(`Queued`).  From it follow the three invariants, the action properties `CleanStart` and
`NoOvertaking`, and that each step of the pool is a step of `Lending` or a stutter
(`PoolImplementsLending`).  `CapacityLedger` compares the sizes of two sets that steps change; each step is
shown to add one element to both or to none, which for a connection handed to a call that has timed
out needs that this call is in `#waiters` once (`QueuedOnce`).  `Calls` may be infinite: that the calls
that cost capacity are finitely many is part of the invariant (`LedgerInv`).

`FileLockProofs`: `LockInv` is inductive.  It says for each await which Web Locks the file holds
(`AtPhase`), that only files at such an await are queued, once (`QueuedOnce`), that one file has the
reserved lock, and that an exclusive lock is alone.  The heart of it: whoever exchanges its lock holds the
reserved one throughout, so there is one exchange at a time, and no other exclusive request.  From it follow
compatible levels, the truth of `#lock`, the refinement of `SqliteLock`, and, when all commits go through
`sync()`, that snapshots are current.  `CheckIsAlwaysTrue` is a defect of the code, shown for every instance: asked
under SHARED or more, `check_reserved_lock` is always true, because `navigator.locks.query()` takes no name
and reports the caller's own lock.  `vendor/sqlite3.h:773-776` wants it true only when somebody has RESERVED;
SQLite takes each hot journal for one of a live transaction and never rolls it back.

`FileIOProofs`: `FileInv` is inductive, whatever rejects.  That unmarked pages can be read from the snapshot
is not inductive by itself: when a stream breaks, what SQLite has written falls back to the file, so the
snapshot must be the file (`SnapshotIsDisk`), and when a lock is taken no stream may be left over
(`PendingIsWritten`).  All of it is claimed for a file that is not stuck in batch mode, and `BatchIsAtomic`
shows that a batch in progress is not.  From it follow `UnmarkedIsCurrent`, `SizeIsRight`, and that each step
which neither starts nor ends stuck is a step of `DurableFile` or a stutter.

`AsyncifyProofs`: `AsyncInv` is inductive.  `StackOwnership` says that no stack is in two places at once, which
holds only because what is in transit in the shared `stack` belongs to the export that is on its way
out or in (`SharedVariables`), because such an export is the innermost one of the native stack, and
those around it wait in an import (`Nested`), and because a stack with the frames of a call is never in the
free list (`FramesKept`).  That the result a rewound import takes from `value` is its own follows from
`SharedVariables` at the step before.

`StatementsProofs`: `StatementInv` is inductive: the three invariants of the run, with what the generator knows of its
statement at each await (`StatementInUse`): the one it binds and steps is alive, and nothing is late for
it.  `SynchronousUnlock` is the other side of the run `statement_finalized`: with `AsyncUnlock` false, no call
is ever late, and no statement is reset after it was finalized; the asynchronous unlock is the only cause.

`VfsProofs`: `VfsInv` is inductive.  `FileImplsMatch` speaks of connections between calls; while one is suspended,
`SuspendedMatch` says what the boilers have done before they await and SQLite has not yet been
told.  `LongestMountResolves` shows that the cursor of `Search` (`Best`) stops at the longest mount point for
pathnames of any length, which is an induction: the least length for which it fails cannot exist.
That a call is suspended at all does not mean that it goes on: a stuck one keeps the invariant.

`FunctionsProofs`: `BlobInv` is inductive.  For the counts (`CellsInv`): a step changes the cells of one statement,
`Delta` says by how much that changes the number of cells with a given content, and each action pays
exactly that into `refs` and `heap`, or one more when `release` throws and tears the statement (`Moves`, `Pays`,
`CellsStep`).  That needs that a statement has a result only between its row and its reset, and that only finitely
many statements have been used, since `Stmts` may be infinite.  `DestroyedWhenUnheld` comes out of the same
lemma.  For the copies: at each await `InPlace` relates offset, chunk and what has been copied,
and `Progress` the position in the stream to the offset.  They hold under interleaving because a
stream that is read is locked and has one reader (`OneReader`), so no other call advances it; `ChangesKeep` is that
argument, once for all steps.  `BorrowedSpansAreApart` is about the layout alone: the recursion of `AllocSize` has a
solution for any arguments, and its sizes grow; with it, `ChunksFitBuffers`.  That the buffer is still borrowed while SQLite fills it
does not hold of this code: when the writer rejects during a suspended `sqlite3_blob_read`, the buffer is freed under it.
`BufferBorrowedUnlessRejected` shows that this is the only case: it holds in every behaviour in which
no writer rejects then.

What a recursive function computes, and what holds of all prefixes of a pathname, is proved from the fact that a
non-empty set of numbers has a least element (`NatMin` in `ArrayLemmas`), since the library's induction theorems cannot
be instantiated here.

Assumptions: the `ASSUME`s on the constants of each module.  Those that only keep model values and names
apart are `TasksAssumption` (no export is called "nobody"), `PtrsAssumption` (no Pointer is one of the
names of other values) and, in `LocalAssumption`, that pathnames are sequences of names.  Besides, for
`SnapshotsAreCurrent`, `CommitKinds` is at most `{"sync"}` (the run `lock_atomic` shows why), for `SynchronousUnlock`,
`AsyncUnlock` is false, and for `BufferBorrowedUnlessRejected`, no writer rejects while SQLite reads for it.

Model-checked only: liveness (`EveryCallSettles`, `CallsSettle`, `EveryExportSettles`, `ZombiesEnd`, `BlobIOEnds`, `CallsEnd`), which is out of
reach of the provers, as is ENABLED; and the five violations, which are counterexamples of TLC.
`CleanLoan` and `StatementInUse` are proved and not checked by a run of their own: `CleanStart` says the first
where it matters, and the second is a part of the inductive invariant.

## Not modelled, and the plan

In this order:

1. Proofs: the other side of the remaining violations, as `SynchronousUnlock` is of `statement_finalized`
   (a batch whose stream opens is left), and an abstract specification of what the bridge promises SQLite, which `CustomVfs` implements.
2. Journals: `File` objects that are never locked (`#size` is undefined, so `size()` throws), and `FileIO`
   composed with `FileLock`, for a rollback that fails and a hot journal after a crash.

Not modelled, with no plan to:

* What SQLite does when it is used against its contract: a handle freed under a suspended `prepare`,
  a blob closed under a suspended read.  The models show where that happens and not what follows.
* Addresses: views of wasm memory that a growth of the memory detaches (`xWrite`, and the stream
  that `blob_io` writes to), and the terminator `xFullPathname` leaves out when it truncates a path.
* The commit that `sqlite3_blob_close` may make, whose result `blob_io` ignores.
* The map of leaked strings, which only grows; `register_vfs`, `Filename`, `Conn.vfs` and `Conn.file`,
  which keep no state that changes; the conversions of numbers and text.
* The contents of http files, and the claim that they are immutable; permissions of
  local files (`access` compares a promise with `'granted'`, so that SQLite sees a file as read-only).
* `src/func/backup.js`, which does not work: once it is imported each `Conn.open` throws, because the
  `backup` that `define_backup` registers is not defined.  Aggregates are empty.
* `src/index.js`, `src/sqlite.js`, `src/util.js`: loading, of which `sqlite_initialized` is in `ConnPool`.

SQLite itself, the pages under `docs`, `shell` and `index.html`, and the build are left out: the
first is not in the repository, the others have no protocol.
