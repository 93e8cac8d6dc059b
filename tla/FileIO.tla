-------------------------------- MODULE FileIO --------------------------------
(***************************************************************************)
(* The other half of src/vfs/file.js: reading and writing the file of a    *)
(* database.  Writes go to a FileSystemWritableFileStream (#writable), a   *)
(* copy of the file that replaces it when the stream is closed; reads come *)
(* from a File (#blob), a snapshot.  #dirty holds the offsets that have    *)
(* been written since, for read() to know when the snapshot is old.        *)
(*                                                                         *)
(* SQLite makes one call at a time, and while it has the lock nobody else  *)
(* writes the file (FileLock), so an action is a whole call.  A call that  *)
(* is cut short by a crash leaves the same as a crash before or after it:  *)
(* only close() changes the file, and at once.                             *)
(***************************************************************************)
EXTENDS Pages

CONSTANTS
  Data,       \* what a page can hold
  MaxPages,   \* bound on the length of the file
  MayFail     \* the methods of the file system that may reject

ASSUME MaxPagesAssumption == MaxPages \in Nat \ {0}
ASSUME MayFailAssumption ==
  MayFail \subseteq {"createWritable", "write", "truncate", "close"}

VARIABLES
  disk,       \* the content of the file
  blob,       \* #blob: the content of the snapshot, or None
  stream,     \* #writable: the content written to it, None, or Broken
  dirty,      \* #dirty
  size,       \* #size, in pages
  atomic,     \* #atomic
  phase,      \* what SQLite is doing with the file
  pending,    \* whether SQLite has written what it has not synced
  reply       \* the last call, and what it returned

fileVars == <<disk, blob, stream, dirty, size, atomic>>
vars == <<fileVars, phase, pending, reply>>

None == <<"none">>
Broken == <<"broken">>    \* a stream one of whose methods has rejected
Undefined == -1

Offsets == 0..(MaxPages - 1)
Contents == UNION {[1..n -> Data] : n \in 0..MaxPages}
Calls == {"open", "lock", "unlock", "read", "write", "trunc", "sync",
          "begin", "commit", "rollback"}
Results == {"ok", "error", "short"} \cup Data
Phases == {"unlocked", "locked", "batch", "failed", "committed"}

ASSUME NoContentAssumption == None \notin Seq(Data) /\ Broken \notin Seq(Data)

Init ==
  /\ disk \in Contents
  /\ blob = None
  /\ stream = None
  /\ dirty = {}
  /\ size = Undefined
  /\ atomic = FALSE
  /\ phase = "unlocked"
  /\ pending = "no"
  /\ reply = <<"open", "ok">>

HasStream == stream \notin {None, Broken}

(* The file as SQLite has written it, and as read() finds it.              *)
Written == IF HasStream THEN stream ELSE disk
Snapshot == IF blob = None THEN disk ELSE blob

Reply(call, result) == reply' = <<call, result>>

-----------------------------------------------------------------------------
(* lock(1), the end of it; and unlock, which does no I/O.  SQLite unlocks  *)
(* when it has synced, or when a call has failed and it gives up.          *)
Lock ==
  /\ phase = "unlocked"
  /\ blob' = disk
  /\ size' = Len(disk)
  /\ phase' = "locked"
  /\ Reply("lock", "ok")
  /\ UNCHANGED <<disk, stream, dirty, atomic, pending>>

Unlock ==
  /\ phase \in {"locked", "committed"}
  /\ pending # "yes"
  /\ phase' = "unlocked"
  /\ pending' = "no"
  /\ Reply("unlock", "ok")
  /\ UNCHANGED fileVars

-----------------------------------------------------------------------------
(***************************************************************************)
(* write and trunc: the stream is created when there is none.              *)
(***************************************************************************)
(* createWritable rejects, or the stream does not work any more.           *)
CannotWrite(call) ==
  /\ stream = Broken \/ (stream = None /\ "createWritable" \in MayFail)
  /\ UNCHANGED fileVars
  /\ pending' = "failed"
  /\ Reply(call, "error")

(* A method of the stream rejects.                                         *)
Breaks(call) ==
  /\ stream' = Broken
  /\ pending' = "failed"
  /\ Reply(call, "error")
  /\ UNCHANGED <<disk, blob, dirty, size, atomic>>

(* SQLite goes on to roll a batch back when a write in it fails.           *)
AfterFailure == IF phase = "batch" THEN "failed" ELSE phase

MayWrite(p) == phase \in {"locked", "batch"} /\ p <= Len(Written)

(* Mutant: the offset is not marked.                                       *)
WriteUnmarked(p, d) ==
  /\ MayWrite(p)
  /\ stream # Broken
  /\ stream' = Put(Written, p, d)
  /\ size' = IF size > p + 1 THEN size ELSE p + 1
  /\ pending' = "yes"
  /\ Reply("write", "ok")
  /\ UNCHANGED <<disk, blob, dirty, atomic, phase>>

(* Mutant: the length written is added to the size.                        *)
WriteAddsToSize(p, d) ==
  /\ MayWrite(p)
  /\ stream # Broken
  /\ stream' = Put(Written, p, d)
  /\ dirty' = dirty \cup {p}
  /\ size' = size + 1
  /\ pending' = "yes"
  /\ Reply("write", "ok")
  /\ UNCHANGED <<disk, blob, atomic, phase>>

Write(p, d) ==
  /\ MayWrite(p)
  /\ stream # Broken
  /\ stream' = Put(Written, p, d)
  /\ dirty' = dirty \cup {p}
  /\ size' = IF size > p + 1 THEN size ELSE p + 1
  /\ pending' = "yes"
  /\ Reply("write", "ok")
  /\ UNCHANGED <<disk, blob, atomic, phase>>

WriteFails(p) ==
  /\ MayWrite(p)
  /\ \/ CannotWrite("write")
     \/ stream # Broken /\ "write" \in MayFail /\ Breaks("write")
  /\ phase' = AfterFailure

MayTruncate(n) == phase \in {"locked", "committed"} /\ n <= Len(Written)

(* Mutant: the size is left.                                               *)
TruncKeepsSize(n) ==
  /\ MayTruncate(n)
  /\ stream # Broken
  /\ stream' = Cut(Written, n)
  /\ dirty' = {offset \in dirty : offset <= n}
  /\ pending' = "yes"
  /\ Reply("trunc", "ok")
  /\ UNCHANGED <<disk, blob, size, atomic, phase>>

Trunc(n) ==
  /\ MayTruncate(n)
  /\ stream # Broken
  /\ stream' = Cut(Written, n)
  /\ dirty' = {offset \in dirty : offset <= n}
  /\ size' = n
  /\ pending' = "yes"
  /\ Reply("trunc", "ok")
  /\ UNCHANGED <<disk, blob, atomic, phase>>

TruncFails(n) ==
  /\ MayTruncate(n)
  /\ \/ CannotWrite("trunc")
     \/ stream # Broken /\ "truncate" \in MayFail /\ Breaks("trunc")
  /\ UNCHANGED phase

-----------------------------------------------------------------------------
(***************************************************************************)
(* sync, and read                                                          *)
(***************************************************************************)
(* The stream is closed: the file has its content.                         *)
Flush ==
  /\ disk' = stream
  /\ stream' = None
  /\ dirty' = {}

(* Closing the stream rejects, now or because it is broken.                *)
CloseRejects ==
  /\ stream = Broken \/ (HasStream /\ "close" \in MayFail)
  /\ stream' = Broken
  /\ UNCHANGED <<disk, blob, dirty, size, atomic>>

(* Mutant: the snapshot survives the sync.                                 *)
SyncKeepsBlob ==
  /\ phase \in {"locked", "committed"}
  /\ IF atomic \/ stream = None
     THEN UNCHANGED <<disk, stream, dirty, phase>>
     ELSE HasStream /\ Flush /\ phase' = "locked"
  /\ pending' = "no"
  /\ Reply("sync", "ok")
  /\ UNCHANGED <<blob, size, atomic>>

Sync ==
  /\ phase \in {"locked", "committed"}
  /\ IF atomic \/ stream = None
     THEN UNCHANGED <<disk, stream, dirty, blob, phase>>
     ELSE /\ HasStream
          /\ Flush
          /\ blob' = None
          /\ phase' = "locked"
  /\ pending' = "no"
  /\ Reply("sync", "ok")
  /\ UNCHANGED <<size, atomic>>

SyncFails ==
  /\ phase \in {"locked", "committed"}
  /\ ~atomic
  /\ CloseRejects
  /\ pending' = "failed"
  /\ Reply("sync", "error")
  /\ UNCHANGED phase

MayRead(p) == phase = "locked" /\ p < Len(Written)

(* A page that has been written is read from the file, after a sync.       *)
ReadDirty(p) ==
  /\ MayRead(p)
  /\ p \in dirty
  /\ HasStream /\ ~atomic
  /\ Flush
  /\ blob' = stream
  /\ Reply("read", PageOf(stream, p))
  /\ UNCHANGED <<size, atomic, phase, pending>>

(* Any other page is read from the snapshot, as is every one while sync    *)
(* does nothing.                                                           *)
Read(p) ==
  /\ MayRead(p)
  /\ p \notin dirty \/ atomic \/ stream = None
  /\ p < Len(Snapshot)
  /\ blob' = Snapshot
  /\ Reply("read", PageOf(Snapshot, p))
  /\ UNCHANGED <<disk, stream, dirty, size, atomic, phase, pending>>

(* The snapshot ends before the page: SQLITE_IOERR_SHORT_READ.             *)
ReadShort(p) ==
  /\ MayRead(p)
  /\ p \notin dirty \/ atomic \/ stream = None
  /\ p >= Len(Snapshot)
  /\ blob' = Snapshot
  /\ Reply("read", "short")
  /\ UNCHANGED <<disk, stream, dirty, size, atomic, phase, pending>>

ReadFails(p) ==
  /\ MayRead(p)
  /\ p \in dirty
  /\ ~atomic
  /\ CloseRejects
  /\ Reply("read", "error")
  /\ UNCHANGED <<phase, pending>>

-----------------------------------------------------------------------------
(***************************************************************************)
(* file_control: SQLite begins a batch when nothing is pending, writes     *)
(* page 1 at least, and rolls back when a write or the commit fails.       *)
(***************************************************************************)
Begin ==
  /\ phase = "locked"
  /\ pending = "no"
  /\ atomic' = TRUE
  /\ phase' = "batch"
  /\ Reply("begin", "ok")
  /\ UNCHANGED <<disk, blob, stream, dirty, size, pending>>

(* The snapshot is left: the next lock(1) or sync() replaces it.           *)
Commit ==
  /\ phase = "batch"
  /\ pending = "yes"
  /\ HasStream
  /\ Flush
  /\ atomic' = FALSE
  /\ phase' = "committed"
  /\ pending' = "no"
  /\ Reply("commit", "ok")
  /\ UNCHANGED <<blob, size>>

CommitFails ==
  /\ phase = "batch"
  /\ pending = "yes"
  /\ CloseRejects
  /\ phase' = "failed"
  /\ Reply("commit", "error")
  /\ UNCHANGED pending

Rollback ==
  /\ phase = "failed"
  /\ stream # None
  /\ stream' = None
  /\ dirty' = {}
  /\ atomic' = FALSE
  /\ blob' = disk
  /\ size' = Len(disk)
  /\ phase' = "locked"
  /\ pending' = "no"
  /\ Reply("rollback", "ok")
  /\ UNCHANGED disk

(* There is no stream to abort: file_control throws, SQLite ignores it.    *)
RollbackFails ==
  /\ phase = "failed"
  /\ stream = None
  /\ phase' = "locked"
  /\ pending' = "no"
  /\ Reply("rollback", "error")
  /\ UNCHANGED fileVars

-----------------------------------------------------------------------------
(* Another connection commits; the tab is closed, and opened again.        *)
Others ==
  /\ phase = "unlocked"
  /\ disk' \in Contents
  /\ UNCHANGED <<blob, stream, dirty, size, atomic, phase, pending, reply>>

Crash ==
  /\ blob' = None
  /\ stream' = None
  /\ dirty' = {}
  /\ size' = Undefined
  /\ atomic' = FALSE
  /\ phase' = "unlocked"
  /\ pending' = "no"
  /\ Reply("open", "ok")
  /\ UNCHANGED disk

Next ==
  \/ Lock \/ Unlock \/ Sync \/ SyncFails
  \/ Begin \/ Commit \/ CommitFails \/ Rollback \/ RollbackFails
  \/ Others \/ Crash
  \/ \E p \in Offsets : \/ Read(p) \/ ReadDirty(p) \/ ReadShort(p) \/ ReadFails(p)
                        \/ WriteFails(p) \/ \E d \in Data : Write(p, d)
  \/ \E n \in 0..MaxPages : Trunc(n) \/ TruncFails(n)

Spec == Init /\ [][Next]_vars

-----------------------------------------------------------------------------
(* The variables keep their types.                                         *)
TypeOK ==
  /\ disk \in Contents
  /\ blob \in Contents \cup {None}
  /\ stream \in Contents \cup {None, Broken}
  /\ dirty \subseteq Offsets
  /\ size \in {Undefined} \cup 0..MaxPages
  /\ atomic \in BOOLEAN
  /\ phase \in Phases
  /\ pending \in {"no", "yes", "failed"}
  /\ reply \in Calls \X Results

(* #atomic was not reset at the end of a batch: sync() does nothing.       *)
Stuck == atomic /\ phase \notin {"batch", "failed"}

(* vendor/sqlite3.h:1139: ROLLBACK_ATOMIC_WRITE "takes the file descriptor *)
(* out of batch write mode so that all subsequent write operations are     *)
(* independent", as COMMIT_ATOMIC_WRITE does, successful or not.           *)
BatchModeEnds == ~Stuck

(* #dirty holds every offset at which the snapshot is not what SQLite has  *)
(* written, through any sequence of writes, truncations, syncs, failures   *)
(* and locks: read() may take the snapshot for all others.                 *)
UnmarkedIsCurrent ==
  phase = "locked" /\ ~Stuck =>
    \A p \in Offsets \ dirty :
      p < Len(Written) => p < Len(Snapshot) /\ PageOf(Snapshot, p) = PageOf(Written, p)

(* #size, which write and trunc compute and lock and ROLLBACK_ATOMIC_WRITE *)
(* read, is the length of the file as SQLite has written it.               *)
SizeIsRight == phase = "locked" /\ ~Stuck /\ stream # Broken => size = Len(Written)

File == INSTANCE DurableFile WITH
          content <- Written, durable <- disk,
          locked <- phase # "unlocked", batch <- phase \in {"batch", "failed"}

(* The stream, the snapshot and the marks implement a durable file: reads  *)
(* see writes, what sync and commit answer for is on disk, what is rolled  *)
(* back or not synced never gets there, after a crash too.  Only a file    *)
(* that is stuck in batch mode (BatchModeEnds) does something else.        *)
WorksLikeDurableFile ==
  File!Init /\ [][Stuck \/ Stuck' \/ File!Next]_(File!vars)
================================================================================
