------------------------------- MODULE FileLock -------------------------------
(***************************************************************************)
(* The locking half of src/vfs/file.js: how SQLite's five lock levels are  *)
(* built from two Web Locks, and which snapshot of the file (#blob) the    *)
(* holder of each level reads.                                             *)
(*                                                                         *)
(* An element of Files is one File object.  It belongs to a connection,    *)
(* which may have several (ATTACH), and SQLite makes one call at a time on *)
(* the files of a connection.  An action is the code between two awaits.   *)
(* level is what SQLite believes: it rises when lock() returns true and    *)
(* drops when unlock() is called.                                          *)
(***************************************************************************)
EXTENDS WebLocks, Integers

CONSTANTS
  Attachments,      \* which files may have the same connection
  MaxWrites,        \* bound on the writes SQLite commits
  CommitKinds,      \* how it commits: "sync", "atomic" (COMMIT_ATOMIC_WRITE)
  GetFileMayFail    \* whether FileSystemFileHandle.getFile may reject

ASSUME AttachmentsAssumption == Attachments \subseteq [Files -> Files]
ASSUME MaxWritesAssumption == MaxWrites \in Nat
ASSUME CommitKindsAssumption == CommitKinds \subseteq {"sync", "atomic"}
ASSUME GetFileMayFailAssumption == GetFileMayFail \in BOOLEAN

VARIABLES
  conn,       \* the connection of each file, named by one of its files
  mode,       \* #lock: "none", or the mode of the Lock object
  blob,       \* #blob: the version of the snapshot, or NoBlob
  disk,       \* the version of the file's content
  level,      \* SQLite's idea of the lock level
  pc,         \* the await the file's current call is at
  want,       \* the level that call asks for, 0 between calls
  failed      \* lock() has thrown and SQLite has not backed out yet

fileVars == <<conn, mode, blob, disk, level, pc, want, failed>>
vars == <<lockVars, fileVars>>

NoBlob == -1
Versions == 0..MaxWrites
Levels == {0, 1, 2, 4}
Awaits == {"await_shared", "await_file", "await_reserved", "await_exclusive",
           "await_downgrade"}

Init ==
  /\ LocksInit
  /\ conn \in Attachments
  /\ mode = [f \in Files |-> "none"]
  /\ blob = [f \in Files |-> NoBlob]
  /\ disk = 0
  /\ level = [f \in Files |-> 0]
  /\ pc = [f \in Files |-> "idle"]
  /\ want = [f \in Files |-> 0]
  /\ failed = [f \in Files |-> FALSE]

Goto(f, step) == pc' = [pc EXCEPT ![f] = step]

Call(f, step, l) ==
  /\ Goto(f, step)
  /\ want' = [want EXCEPT ![f] = l]

Return(f) ==
  /\ Goto(f, "idle")
  /\ want' = [want EXCEPT ![f] = 0]

(* lock() returns true.                                                    *)
Locked(f, l) ==
  /\ Return(f)
  /\ level' = [level EXCEPT ![f] = l]

-----------------------------------------------------------------------------
(* Which calls SQLite makes.  After an error it only backs out.            *)
MayLock(f, l) ==
  /\ pc[f] = "idle"
  /\ ~failed[f]
  /\ <<level[f], l>> \in {<<0, 1>>, <<1, 2>>, <<1, 4>>, <<2, 4>>}

MayUnlock(f, l) == pc[f] = "idle" /\ l <= level[f]

(***************************************************************************)
(* lock(level)                                                             *)
(***************************************************************************)
LockShared(f) ==
  /\ MayLock(f, 1)
  /\ mode[f] = "none"
  /\ Request(f, "shared")
  /\ Call(f, "await_shared", 1)
  /\ UNCHANGED <<conn, held, res, mode, blob, disk, level, failed>>

SharedGranted(f) ==
  /\ pc[f] = "await_shared"
  /\ held[f] = "shared"
  /\ mode' = [mode EXCEPT ![f] = "shared"]
  /\ Goto(f, "await_file")
  /\ UNCHANGED <<conn, lockVars, blob, disk, level, want, failed>>

(* Mutant: the snapshot is only taken when there is none.                  *)
GotFileKeepsBlob(f) ==
  /\ pc[f] = "await_file"
  /\ blob' = [blob EXCEPT ![f] = IF blob[f] = NoBlob THEN disk ELSE blob[f]]
  /\ Locked(f, 1)
  /\ UNCHANGED <<conn, lockVars, mode, disk, failed>>

GotFile(f) ==
  /\ pc[f] = "await_file"
  /\ blob' = [blob EXCEPT ![f] = disk]
  /\ Locked(f, 1)
  /\ UNCHANGED <<conn, lockVars, mode, disk, failed>>

(* getFile rejects: lock() throws with #lock set and #blob as it was.      *)
GetFileFails(f) ==
  /\ GetFileMayFail
  /\ pc[f] = "await_file"
  /\ Return(f)
  /\ failed' = [failed EXCEPT ![f] = TRUE]
  /\ UNCHANGED <<conn, lockVars, mode, blob, disk, level>>

AskReserved(f, l) ==
  /\ l \in {2, 4}
  /\ MayLock(f, l)
  /\ ~res[f]
  /\ Call(f, "await_reserved", l)
  /\ UNCHANGED <<conn, lockVars, mode, blob, disk, level, failed>>

(* The exclusive request is queued before the shared lock is released.     *)
ExchangeLocks(f) ==
  /\ mode[f] = "shared"
  /\ Request(f, "exclusive")
  /\ Release(f)
  /\ Call(f, "await_exclusive", 4)
  /\ UNCHANGED level

(* Mutant: the reserved lock is taken to be all that lock(4) needs too.    *)
WithReservedOnly(f, l) == Locked(f, l) /\ UNCHANGED <<held, queue>>

(* Reserved is all that lock(2) needs, lock(4) goes on.                    *)
WithReserved(f, l) ==
  \/ l = 2 /\ Locked(f, 2) /\ UNCHANGED <<held, queue>>
  \/ l = 4 /\ ExchangeLocks(f)

(* Mutant: the null of an unavailable lock is not noticed.                 *)
GotReservedUnchecked(f) ==
  /\ pc[f] = "await_reserved"
  /\ res' = [res EXCEPT ![f] = TRUE]
  /\ WithReserved(f, want[f])
  /\ UNCHANGED <<conn, mode, blob, disk, failed>>

GotReserved(f) ==
  /\ pc[f] = "await_reserved"
  /\ ReservedAvailable
  /\ res' = [res EXCEPT ![f] = TRUE]
  /\ WithReserved(f, want[f])
  /\ UNCHANGED <<conn, mode, blob, disk, failed>>

(* Mutant: the request is made without ifAvailable.                        *)
ReservedBusyWaits(f) ==
  /\ pc[f] = "await_reserved"
  /\ ~ReservedAvailable
  /\ UNCHANGED vars

ReservedBusy(f) ==
  /\ pc[f] = "await_reserved"
  /\ ~ReservedAvailable
  /\ Return(f)
  /\ UNCHANGED <<conn, lockVars, mode, blob, disk, level, failed>>

(* #res_lock is set already: by lock(2), or left over by unlock().         *)
StillReserved(f, l) ==
  /\ MayLock(f, l)
  /\ res[f]
  /\ WithReserved(f, l)
  /\ UNCHANGED <<conn, res, mode, blob, disk, failed>>

ExclusiveGranted(f) ==
  /\ pc[f] = "await_exclusive"
  /\ held[f] = "exclusive"
  /\ mode' = [mode EXCEPT ![f] = "exclusive"]
  /\ Locked(f, 4)
  /\ UNCHANGED <<conn, lockVars, blob, disk, failed>>

(***************************************************************************)
(* unlock(level)                                                           *)
(***************************************************************************)
(* Mutant: #res_lock goes before the shared lock is back.                  *)
UnlockExclusiveReleases(f, l) ==
  /\ l \in {0, 1}
  /\ MayUnlock(f, l)
  /\ mode[f] = "exclusive"
  /\ res' = [res EXCEPT ![f] = FALSE]
  /\ Request(f, "shared")
  /\ Release(f)
  /\ Call(f, "await_downgrade", l)
  /\ level' = [level EXCEPT ![f] = l]
  /\ UNCHANGED <<conn, mode, blob, disk, failed>>

UnlockExclusive(f, l) ==
  /\ l \in {0, 1}
  /\ MayUnlock(f, l)
  /\ mode[f] = "exclusive"
  /\ Request(f, "shared")
  /\ Release(f)
  /\ Call(f, "await_downgrade", l)
  /\ level' = [level EXCEPT ![f] = l]
  /\ UNCHANGED <<conn, res, mode, blob, disk, failed>>

(* Mutant: the new Lock object is not assigned to #lock.                   *)
DowngradedForgets(f) ==
  /\ pc[f] = "await_downgrade"
  /\ held[f] = "shared"
  /\ res' = [res EXCEPT ![f] = FALSE]
  /\ \/ want[f] = 0 /\ Release(f)
     \/ want[f] = 1 /\ UNCHANGED held
  /\ Return(f)
  /\ UNCHANGED <<conn, queue, mode, blob, disk, level, failed>>

(* The shared lock is back: #res_lock goes, and for NONE the shared lock.  *)
Downgraded(f) ==
  /\ pc[f] = "await_downgrade"
  /\ held[f] = "shared"
  /\ res' = [res EXCEPT ![f] = FALSE]
  /\ \/ want[f] = 0 /\ Release(f) /\ mode' = [mode EXCEPT ![f] = "none"]
     \/ want[f] = 1 /\ UNCHANGED held /\ mode' = [mode EXCEPT ![f] = "shared"]
  /\ Return(f)
  /\ UNCHANGED <<conn, queue, blob, disk, level, failed>>

(* Mutant: unlock goes down one level whatever the argument.               *)
UnlockSharedByOne(f, l) ==
  /\ MayUnlock(f, l)
  /\ mode[f] = "shared"
  /\ \/ l = 0 /\ Release(f) /\ mode' = [mode EXCEPT ![f] = "none"]
     \/ l = 1 /\ UNCHANGED <<held, mode>>
  /\ level' = [level EXCEPT ![f] = level[f] - 1]
  /\ failed' = [failed EXCEPT ![f] = FALSE]
  /\ UNCHANGED <<conn, queue, res, blob, disk, pc, want>>

(* From a shared #lock nothing touches #res_lock.                          *)
UnlockShared(f, l) ==
  /\ MayUnlock(f, l)
  /\ mode[f] = "shared"
  /\ \/ l = 0 /\ Release(f) /\ mode' = [mode EXCEPT ![f] = "none"]
     \/ l = 1 /\ UNCHANGED <<held, mode>>
  /\ level' = [level EXCEPT ![f] = l]
  /\ failed' = [failed EXCEPT ![f] = FALSE]
  /\ UNCHANGED <<conn, queue, res, blob, disk, pc, want>>

(* What check_reserved_lock() answers; SQLite asks under SHARED.           *)
ReportsReserved == SomethingHeld

(***************************************************************************)
(* The I/O half, as far as it decides which snapshot is read: read() takes *)
(* a snapshot when there is none; what is written becomes the content of   *)
(* the file in sync(), which drops the snapshot, or in the file control    *)
(* COMMIT_ATOMIC_WRITE, which does not.                                    *)
(***************************************************************************)
Read(f) ==
  /\ pc[f] = "idle"
  /\ level[f] >= 1
  /\ blob[f] = NoBlob
  /\ blob' = [blob EXCEPT ![f] = disk]
  /\ UNCHANGED <<conn, lockVars, mode, disk, level, pc, want, failed>>

Commit(f, kind) ==
  /\ kind \in CommitKinds
  /\ pc[f] = "idle"
  /\ level[f] = 4
  /\ disk < MaxWrites
  /\ disk' = disk + 1
  /\ blob' = IF kind = "sync" THEN [blob EXCEPT ![f] = NoBlob] ELSE blob
  /\ UNCHANGED <<conn, lockVars, mode, level, pc, want, failed>>

-----------------------------------------------------------------------------
(* The continuations of calls in progress.                                 *)
Resume(f) ==
  \/ SharedGranted(f) \/ GotFile(f) \/ GetFileFails(f)
  \/ GotReserved(f) \/ ReservedBusy(f) \/ ExclusiveGranted(f) \/ Downgraded(f)

LockCall(f) ==
  LockShared(f) \/ \E l \in {2, 4} : AskReserved(f, l) \/ StillReserved(f, l)

UnlockCall(f) == \E l \in {0, 1} : UnlockExclusive(f, l) \/ UnlockShared(f, l)

(* No file of f's connection is in a call.                                 *)
MayCall(f) == \A g \in Files : conn[g] = conn[f] => pc[g] = "idle"

EndTransaction(f) == MayCall(f) /\ (UnlockExclusive(f, 0) \/ UnlockShared(f, 0))

GrantRequest == Grant /\ UNCHANGED fileVars

Next ==
  \/ \E f \in Files :
       \/ Resume(f)
       \/ /\ MayCall(f)
          /\ \/ LockCall(f) \/ UnlockCall(f) \/ Read(f)
             \/ \E kind \in CommitKinds : Commit(f, kind)
  \/ GrantRequest

Spec == Init /\ [][Next]_vars

(* The manager grants what it can, promises that are settled run their     *)
(* continuations, and SQLite does not keep a lock forever: whoever holds   *)
(* one ends its transaction, by unlock(0), again and again.                *)
Fairness ==
  /\ WF_vars(GrantRequest)
  /\ \A f \in Files :
       /\ WF_vars(Resume(f))
       /\ SF_vars(EndTransaction(f))

FairSpec == Spec /\ Fairness

-----------------------------------------------------------------------------
(* The variables keep their types.                                         *)
TypeOK ==
  /\ held \in [Files -> {"none"} \cup Modes]
  /\ queue \in Seq(Requests)
  /\ res \in [Files -> BOOLEAN]
  /\ conn \in Attachments
  /\ mode \in [Files -> {"none"} \cup Modes]
  /\ blob \in [Files -> {NoBlob} \cup Versions]
  /\ disk \in Versions
  /\ level \in [Files -> Levels]
  /\ pc \in [Files -> {"idle"} \cup Awaits]
  /\ want \in [Files -> Levels]
  /\ failed \in [Files -> BOOLEAN]

(* Two Web Locks are enough for SQLite's levels: whatever calls interleave *)
(* at the awaits of lock() and unlock(), the levels SQLite believes it has *)
(* are compatible, although an upgrade and a downgrade both go through a   *)
(* moment at which the file holds neither mode of lock_name.               *)
DatabaseLock == INSTANCE SqliteLock WITH version <- disk

CompatibleLevels ==
  \A f, g \in Files : f # g => DatabaseLock!Compatible(level[f], level[g])

LocksLikeSqlite == DatabaseLock!Spec

(* Outside an exchange of locks #lock is the lock the manager has granted, *)
(* so that the release() of a later call releases what is really held.     *)
LockIsHeld ==
  \A f \in Files : pc[f] \in {"idle", "await_file", "await_reserved"} => mode[f] = held[f]

(* Whoever has SHARED or more reads the committed content: no write of     *)
(* another file slips in between getFile() and the reads, or into the gap  *)
(* of an upgrade or a downgrade.  For COMMIT_ATOMIC_WRITE that is what     *)
(* vendor/sqlite3.h:1124 asks: it "causes all write operations since the   *)
(* previous successful call to SQLITE_FCNTL_BEGIN_ATOMIC_WRITE to be       *)
(* performed atomically", so the file read afterwards holds them.          *)
SnapshotIsCurrent ==
  \A f \in Files : level[f] >= 1 => blob[f] \in {NoBlob, disk}

(* Only one file at a time can be on its way to EXCLUSIVE, or back: two    *)
(* exchanges at once would wait for one another, or let a writer in.       *)
OneExchange ==
  \A f, g \in Files :
    /\ pc[f] \in {"await_exclusive", "await_downgrade"}
    /\ pc[g] \in {"await_exclusive", "await_downgrade"}
    => f = g

(* What the invariants above rest on: which locks a file has at each await,*)
(* and who can be in the queue.                                            *)
AtPhase(f) ==
  /\ pc[f] = "idle" =>
       /\ mode[f] = held[f]
       /\ level[f] = 4 <=> mode[f] = "exclusive"
       /\ level[f] \in {1, 2} => mode[f] = "shared"
       /\ level[f] \in {2, 4} => res[f]
  /\ pc[f] = "await_shared" =>
       mode[f] = "none" /\ held[f] # "exclusive" /\ level[f] = 0
  /\ pc[f] = "await_file" =>
       mode[f] = "shared" /\ held[f] = "shared" /\ level[f] = 0
  /\ pc[f] = "await_reserved" =>
       mode[f] = "shared" /\ held[f] = "shared" /\ level[f] = 1 /\ want[f] \in {2, 4}
  /\ pc[f] = "await_exclusive" =>
       mode[f] = "shared" /\ held[f] # "shared" /\ level[f] \in {1, 2} /\ res[f]
  /\ pc[f] = "await_downgrade" =>
       /\ mode[f] = "exclusive" /\ held[f] # "exclusive" /\ res[f]
       /\ level[f] \in {0, 1} /\ want[f] = level[f]

QueuedOnce ==
  /\ \A i \in DOMAIN queue :
       /\ held[queue[i].file] = "none"
       /\ \/ queue[i].mode = "exclusive" /\ pc[queue[i].file] = "await_exclusive"
          \/ /\ queue[i].mode = "shared"
             /\ pc[queue[i].file] \in {"await_shared", "await_downgrade"}
  /\ \A i, j \in DOMAIN queue : queue[i].file = queue[j].file => i = j

OneReserved == \A f, g \in Files : res[f] /\ res[g] => f = g

ExclusiveIsAlone ==
  \A f, g \in Files : f # g /\ held[f] = "exclusive" => held[g] = "none"

LockInv ==
  /\ TypeOK /\ OneReserved /\ ExclusiveIsAlone /\ QueuedOnce
  /\ \A f \in Files : AtPhase(f)

(* local.js:100: the files of a connection have the same lock name, so one *)
(* waits for a lock that another one keeps it from, for ever.              *)
SelfDeadlock ==
  \E f, g \in Files : \E i \in DOMAIN queue :
    /\ f # g /\ conn[f] = conn[g]
    /\ queue[i].file = f /\ held[g] # "none"
    /\ held[g] = "exclusive" \/ \E j \in 1..i : queue[j].mode = "exclusive"

(* Every lock() and unlock() settles, the exchange for an exclusive lock   *)
(* included, however many readers come and go meanwhile, unless a          *)
(* connection has come to wait for itself.                                 *)
CallsSettle == \A f \in Files : pc[f] # "idle" ~> (pc[f] = "idle" \/ SelfDeadlock)

(* vendor/sqlite3.h:770: "xUnlock() downgrades the database file lock to   *)
(* either SHARED or NONE."  A file that SQLite has brought down to SHARED  *)
(* or NONE must not keep the others from RESERVED.                         *)
ReservedIsReleased ==
  \A f \in Files : pc[f] = "idle" /\ level[f] <= 1 => ~res[f]

(* file.js:92, against vendor/sqlite3.h:773, by which xCheckReservedLock   *)
(* "returns true if such a lock exists and false otherwise": a file that   *)
(* asks while it has SHARED or more is answered true, whoever has RESERVED.*)
AlwaysReported ==
  \A f \in Files : pc[f] = "idle" /\ level[f] >= 1 => ReportsReserved
===============================================================================
