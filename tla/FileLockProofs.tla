---------------------------- MODULE FileLockProofs ----------------------------
(***************************************************************************)
(* What holds of the locks of src/vfs/file.js for every set of files and   *)
(* every interleaving of their calls.                                      *)
(***************************************************************************)
EXTENDS FileLock, ArrayLemmas

-----------------------------------------------------------------------------
(* Types.                                                                  *)

LEMMA InitType == Init => TypeOK
  BY MaxWritesAssumption, EmptySeq
     DEF Init, LocksInit, TypeOK, Modes, Levels, Versions, Awaits

LEMMA RequestType ==
  ASSUME TypeOK, NEW f \in Files, NEW m \in Modes, Request(f, m)
  PROVE  queue' \in Seq(Requests)
<1>1. [file |-> f, mode |-> m] \in Requests
  BY DEF Requests
<1> QED
  BY <1>1, AppendLast DEF Request, TypeOK

LEMMA WithReservedType ==
  ASSUME TypeOK, NEW f \in Files, NEW l, WithReserved(f, l)
  PROVE  /\ held' \in [Files -> {"none"} \cup Modes]
         /\ queue' \in Seq(Requests)
         /\ level' \in [Files -> Levels]
         /\ pc' \in [Files -> {"idle"} \cup Awaits]
         /\ want' \in [Files -> Levels]
<1>1. CASE l = 2 /\ Locked(f, 2) /\ UNCHANGED <<held, queue>>
  BY <1>1 DEF Locked, Return, Goto, TypeOK, Levels
<1>2. CASE l = 4 /\ ExchangeLocks(f)
  <2>1. queue' \in Seq(Requests)
    BY <1>2, RequestType DEF ExchangeLocks, Modes
  <2> QED
    BY <1>2, <2>1 DEF ExchangeLocks, Release, Call, Goto, TypeOK, Levels, Awaits
<1> QED
  BY <1>1, <1>2 DEF WithReserved

LEMMA NextType == TypeOK /\ [Next]_vars => TypeOK'
<1> SUFFICES ASSUME TypeOK, [Next]_vars PROVE TypeOK'
  OBVIOUS
<1>1. CASE UNCHANGED vars
  BY <1>1 DEF TypeOK, vars, lockVars, fileVars
<1>2. ASSUME NEW f \in Files, LockCall(f) PROVE TypeOK'
  <2>1. CASE LockShared(f)
    <3>1. queue' \in Seq(Requests)
      BY <2>1, RequestType DEF LockShared, Modes
    <3> QED
      BY <2>1, <3>1 DEF LockShared, Call, Goto, TypeOK, Levels, Awaits
  <2>2. ASSUME NEW l \in {2, 4}, AskReserved(f, l) PROVE TypeOK'
    BY <2>2 DEF AskReserved, Call, Goto, TypeOK, Levels, Awaits, lockVars
  <2>3. ASSUME NEW l \in {2, 4}, StillReserved(f, l) PROVE TypeOK'
    BY <2>3, WithReservedType DEF StillReserved, TypeOK
  <2> QED
    BY <1>2, <2>1, <2>2, <2>3 DEF LockCall
<1>3. ASSUME NEW f \in Files, UnlockCall(f) PROVE TypeOK'
  <2>1. ASSUME NEW l \in {0, 1}, UnlockExclusive(f, l) PROVE TypeOK'
    <3>1. queue' \in Seq(Requests)
      BY <2>1, RequestType DEF UnlockExclusive, Modes
    <3> QED
      BY <2>1, <3>1 DEF UnlockExclusive, Release, Call, Goto, TypeOK, Levels, Awaits
  <2>2. ASSUME NEW l \in {0, 1}, UnlockShared(f, l) PROVE TypeOK'
    BY <2>2 DEF UnlockShared, Release, TypeOK, Levels
  <2> QED
    BY <1>3, <2>1, <2>2 DEF UnlockCall
<1>4. ASSUME NEW f \in Files, Resume(f) PROVE TypeOK'
  <2>1. CASE SharedGranted(f)
    BY <2>1 DEF SharedGranted, Goto, TypeOK, Awaits, Modes, lockVars
  <2>2. CASE GotFile(f)
    BY <2>2 DEF GotFile, Locked, Return, Goto, TypeOK, Levels, lockVars
  <2>3. CASE GetFileFails(f)
    BY <2>3 DEF GetFileFails, Return, Goto, TypeOK, Levels, lockVars
  <2>4. CASE GotReserved(f)
    BY <2>4, WithReservedType DEF GotReserved, TypeOK
  <2>5. CASE ReservedBusy(f)
    BY <2>5 DEF ReservedBusy, Return, Goto, TypeOK, Levels, lockVars
  <2>6. CASE ExclusiveGranted(f)
    BY <2>6 DEF ExclusiveGranted, Locked, Return, Goto, TypeOK, Levels, Modes, lockVars
  <2>7. CASE Downgraded(f)
    BY <2>7 DEF Downgraded, Release, Return, Goto, TypeOK, Levels, Modes
  <2> QED
    BY <1>4, <2>1, <2>2, <2>3, <2>4, <2>5, <2>6, <2>7 DEF Resume
<1>5. ASSUME NEW f \in Files, Read(f) PROVE TypeOK'
  BY <1>5 DEF Read, TypeOK, lockVars
<1>6. ASSUME NEW f \in Files, NEW kind \in CommitKinds, Commit(f, kind) PROVE TypeOK'
  <2>1. disk' \in Versions
    BY <1>6, MaxWritesAssumption DEF Commit, TypeOK, Versions
  <2>2. blob' \in [Files -> {NoBlob} \cup Versions]
    BY <1>6 DEF Commit, TypeOK
  <2> QED
    BY <1>6, <2>1, <2>2 DEF Commit, TypeOK, lockVars
<1>7. CASE GrantRequest
  <2>1. /\ Head(queue) \in Requests /\ Tail(queue) \in Seq(Requests)
    BY <1>7, HeadTail DEF GrantRequest, Grant, TypeOK
  <2> QED
    BY <1>7, <2>1 DEF GrantRequest, Grant, TypeOK, Requests, fileVars
<1> QED
  BY <1>1, <1>2, <1>3, <1>4, <1>5, <1>6, <1>7 DEF Next

(* At every moment of every run the variables of file.js keep their types. *)
THEOREM TypeCorrect == Spec => []TypeOK
  BY InitType, NextType, PTL DEF Spec

-----------------------------------------------------------------------------
(* The inductive invariant.  An action of a file changes the variables of  *)
(* that file only, so what has to be shown is what it does to the queue,   *)
(* to #res_lock, to who holds lock_name and to its own phase.              *)

Protocol ==
  OneReserved /\ ExclusiveIsAlone /\ QueuedOnce /\ \A f \in Files : AtPhase(f)

NotQueued(f) == \A i \in DOMAIN queue : queue[i].file # f

OnlyTouches(f) ==
  \A g \in Files \ {f} :
    /\ held'[g] = held[g] /\ res'[g] = res[g] /\ mode'[g] = mode[g]
    /\ level'[g] = level[g] /\ pc'[g] = pc[g] /\ want'[g] = want[g]

LEMMA QueueElements ==
  ASSUME TypeOK
  PROVE  \A i \in DOMAIN queue : queue[i].file \in Files /\ queue[i].mode \in Modes
<1>1. \A i \in DOMAIN queue : queue[i] \in Requests
  BY ElementOfSeq, LenProperties DEF TypeOK
<1> QED
  BY <1>1 DEF Requests

(* Only a call that waits for lock_name is in the queue, and only until it *)
(* is granted.                                                             *)
LEMMA WhoIsNotQueued ==
  ASSUME QueuedOnce, NEW f \in Files,
         \/ held[f] # "none"
         \/ pc[f] \in {"idle", "await_file", "await_reserved"}
  PROVE  NotQueued(f)
  BY DEF QueuedOnce, NotQueued

LEMMA QueueUntouched ==
  ASSUME TypeOK, QueuedOnce, NEW f \in Files, NotQueued(f), OnlyTouches(f), queue' = queue
  PROVE  QueuedOnce'
  BY QueueElements DEF QueuedOnce, NotQueued, OnlyTouches

LEMMA QueueGrows ==
  ASSUME TypeOK, QueuedOnce, NEW f \in Files, NotQueued(f), OnlyTouches(f),
         NEW m \in Modes, Request(f, m), held'[f] = "none",
         \/ m = "exclusive" /\ pc'[f] = "await_exclusive"
         \/ m = "shared" /\ pc'[f] \in {"await_shared", "await_downgrade"}
  PROVE  QueuedOnce'
<1> DEFINE n == Len(queue)
<1>1. /\ n \in Nat /\ DOMAIN queue = 1..n
      /\ DOMAIN queue' = 1..(n+1)
      /\ \A i \in 1..n : queue'[i] = queue[i]
      /\ queue'[n+1] = [file |-> f, mode |-> m]
  <2>1. [file |-> f, mode |-> m] \in Requests /\ queue \in Seq(Requests)
    BY DEF Requests, TypeOK
  <2> QED
    BY <2>1, AppendLast, LenProperties DEF Request
<1>2. queue'[n+1].file = f /\ queue'[n+1].mode = m
  BY <1>1
<1> HIDE DEF n
<1>3. \A i \in DOMAIN queue' : i = n+1 \/ (i \in DOMAIN queue /\ queue'[i] = queue[i])
  BY <1>1
<1>4. \A i \in DOMAIN queue :
        /\ queue[i].file \in Files \ {f}
        /\ held'[queue[i].file] = held[queue[i].file]
        /\ pc'[queue[i].file] = pc[queue[i].file]
  BY QueueElements DEF NotQueued, OnlyTouches
<1>5. ASSUME NEW i \in DOMAIN queue'
      PROVE  /\ held'[queue'[i].file] = "none"
             /\ \/ queue'[i].mode = "exclusive" /\ pc'[queue'[i].file] = "await_exclusive"
                \/ /\ queue'[i].mode = "shared"
                   /\ pc'[queue'[i].file] \in {"await_shared", "await_downgrade"}
  <2>1. CASE i = n+1
    BY <1>2, <2>1
  <2>2. CASE i \in DOMAIN queue /\ queue'[i] = queue[i]
    BY <1>4, <2>2 DEF QueuedOnce
  <2> QED
    BY <1>3, <2>1, <2>2
<1>6. ASSUME NEW i \in DOMAIN queue', NEW j \in DOMAIN queue',
             queue'[i].file = queue'[j].file
      PROVE  i = j
  BY <1>2, <1>3, <1>4, <1>6 DEF QueuedOnce
<1> QED
  BY <1>5, <1>6 DEF QueuedOnce

(* Nobody else's phase mentions a variable of f.                           *)
LEMMA OtherPhases ==
  ASSUME \A g \in Files : AtPhase(g), NEW f \in Files, OnlyTouches(f), AtPhase(f)'
  PROVE  \A g \in Files : AtPhase(g)'
<1> SUFFICES ASSUME NEW g \in Files, g # f PROVE AtPhase(g)'
  OBVIOUS
<1>1. AtPhase(g)
  OBVIOUS
<1>2. /\ held'[g] = held[g] /\ res'[g] = res[g] /\ mode'[g] = mode[g]
      /\ level'[g] = level[g] /\ pc'[g] = pc[g] /\ want'[g] = want[g]
  BY DEF OnlyTouches
<1> QED
  BY <1>1, <1>2 DEF AtPhase

(* A file that does not take more than it had keeps the exclusions.        *)
LEMMA Exclusions ==
  ASSUME OneReserved, ExclusiveIsAlone, NEW f \in Files, OnlyTouches(f),
         res'[f] => res[f] \/ ReservedAvailable,
         held'[f] = held[f] \/ held'[f] = "none"
  PROVE  OneReserved' /\ ExclusiveIsAlone'
<1>1. OneReserved'
  BY DEF OneReserved, OnlyTouches, ReservedAvailable
<1>2. ExclusiveIsAlone'
  <2> SUFFICES ASSUME NEW g \in Files, NEW h \in Files, g # h, held'[g] = "exclusive"
               PROVE  held'[h] = "none"
    BY DEF ExclusiveIsAlone
  <2>1. held[g] = "exclusive" /\ held[h] = "none"
    BY DEF ExclusiveIsAlone, OnlyTouches
  <2> QED
    BY <2>1 DEF OnlyTouches
<1> QED
  BY <1>1, <1>2

LEMMA Assemble ==
  ASSUME Protocol, NEW f \in Files, OnlyTouches(f), QueuedOnce', AtPhase(f)',
         res'[f] => res[f] \/ ReservedAvailable,
         held'[f] = held[f] \/ held'[f] = "none"
  PROVE  Protocol'
<1>1. OneReserved' /\ ExclusiveIsAlone'
  BY Exclusions DEF Protocol
<1>2. \A g \in Files : AtPhase(g)'
  BY OtherPhases DEF Protocol
<1> QED
  BY <1>1, <1>2 DEF Protocol

LEMMA InitProtocol == Init => Protocol
  BY DEF Init, LocksInit, Protocol, OneReserved, ExclusiveIsAlone, QueuedOnce, AtPhase

LEMMA ProtocolLockShared ==
  ASSUME TypeOK, Protocol, NEW f \in Files, LockShared(f)
  PROVE  Protocol'
<1>1. pc[f] = "idle" /\ level[f] = 0 /\ mode[f] = "none" /\ held[f] = "none"
  BY DEF LockShared, MayLock, Protocol, AtPhase
<1>2. OnlyTouches(f)
  BY DEF LockShared, Call, Goto, OnlyTouches, TypeOK
<1>3. QueuedOnce'
  <2>1. NotQueued(f) /\ held'[f] = "none" /\ pc'[f] = "await_shared"
    BY <1>1, WhoIsNotQueued DEF Protocol, LockShared, Call, Goto, TypeOK
  <2> QED
    BY <1>2, <2>1, QueueGrows DEF LockShared, Protocol, Modes
<1>4. AtPhase(f)'
  BY <1>1 DEF LockShared, Call, Goto, AtPhase, TypeOK
<1> QED
  BY <1>2, <1>3, <1>4, Assemble DEF LockShared

(* The exchange that lock(4) makes once #res_lock is set.                  *)
LEMMA ProtocolWithReserved ==
  ASSUME TypeOK, Protocol, NEW f \in Files, NEW l \in {2, 4},
         \/ pc[f] = "idle" /\ level[f] \in {1, 2}
         \/ pc[f] = "await_reserved",
         WithReserved(f, l), mode' = mode,
         res' = [res EXCEPT ![f] = TRUE], res[f] \/ ReservedAvailable
  PROVE  Protocol'
<1>1. /\ mode[f] = "shared" /\ held[f] = "shared" /\ level[f] \in {1, 2}
      /\ NotQueued(f)
  <2>1. /\ mode[f] = "shared" /\ held[f] = "shared" /\ level[f] \in {1, 2}
    BY DEF Protocol, AtPhase
  <2> QED
    BY <2>1, WhoIsNotQueued DEF Protocol
<1>2. res'[f]
  BY DEF TypeOK
<1>3. CASE l = 2 /\ Locked(f, 2) /\ UNCHANGED <<held, queue>>
  <2>1. OnlyTouches(f)
    BY <1>3 DEF Locked, Return, Goto, OnlyTouches, TypeOK
  <2>2. QueuedOnce'
    BY <1>1, <1>3, <2>1, QueueUntouched DEF Protocol
  <2>3. AtPhase(f)'
    BY <1>1, <1>2, <1>3 DEF Locked, Return, Goto, AtPhase, TypeOK
  <2> QED
    BY <1>3, <2>1, <2>2, <2>3, Assemble
<1>4. CASE l = 4 /\ ExchangeLocks(f)
  <2>1. OnlyTouches(f) /\ held'[f] = "none" /\ pc'[f] = "await_exclusive"
    BY <1>4 DEF ExchangeLocks, Release, Call, Goto, OnlyTouches, TypeOK
  <2>2. QueuedOnce'
    BY <1>1, <1>4, <2>1, QueueGrows DEF Protocol, ExchangeLocks, Modes
  <2>3. AtPhase(f)'
    BY <1>1, <1>2, <1>4, <2>1 DEF ExchangeLocks, AtPhase
  <2> QED
    BY <2>1, <2>2, <2>3, Assemble
<1> QED
  BY <1>3, <1>4 DEF WithReserved

LEMMA ProtocolReserve ==
  ASSUME TypeOK, Protocol, NEW f \in Files,
         \/ \E l \in {2, 4} : AskReserved(f, l) \/ StillReserved(f, l)
         \/ GotReserved(f)
         \/ ReservedBusy(f)
  PROVE  Protocol'
<1>1. ASSUME NEW l \in {2, 4}, AskReserved(f, l) PROVE Protocol'
  <2>1. /\ pc[f] = "idle" /\ level[f] \in {1, 2} /\ ~res[f]
    BY <1>1 DEF AskReserved, MayLock
  <2>2. mode[f] = "shared" /\ held[f] = "shared" /\ level[f] = 1 /\ NotQueued(f)
    <3>1. mode[f] = "shared" /\ held[f] = "shared" /\ level[f] = 1
      BY <2>1 DEF Protocol, AtPhase
    <3> QED
      BY <2>1, <3>1, WhoIsNotQueued DEF Protocol
  <2>3. OnlyTouches(f)
    BY <1>1 DEF AskReserved, Call, Goto, OnlyTouches, TypeOK, lockVars
  <2>4. QueuedOnce'
    BY <1>1, <2>2, <2>3, QueueUntouched DEF Protocol, AskReserved, lockVars
  <2>5. AtPhase(f)'
    BY <1>1, <2>2 DEF AskReserved, Call, Goto, AtPhase, TypeOK, lockVars
  <2> QED
    BY <1>1, <2>3, <2>4, <2>5, Assemble DEF AskReserved, lockVars
<1>2. ASSUME NEW l \in {2, 4}, StillReserved(f, l) PROVE Protocol'
  <2>1. pc[f] = "idle" /\ level[f] \in {1, 2} /\ res[f]
    BY <1>2 DEF StillReserved, MayLock
  <2>2. res' = [res EXCEPT ![f] = TRUE]
    BY <1>2, <2>1 DEF StillReserved, TypeOK
  <2> QED
    BY <1>2, <2>1, <2>2, ProtocolWithReserved DEF StillReserved
<1>3. CASE GotReserved(f)
  <2>1. want[f] \in {2, 4}
    BY <1>3 DEF GotReserved, Protocol, AtPhase
  <2> QED
    BY <1>3, <2>1, ProtocolWithReserved DEF GotReserved
<1>4. CASE ReservedBusy(f)
  <2>1. pc[f] = "await_reserved" /\ NotQueued(f)
    BY <1>4, WhoIsNotQueued DEF ReservedBusy, Protocol
  <2>2. OnlyTouches(f)
    BY <1>4 DEF ReservedBusy, Return, Goto, OnlyTouches, TypeOK, lockVars
  <2>3. QueuedOnce'
    BY <1>4, <2>1, <2>2, QueueUntouched DEF Protocol, ReservedBusy, lockVars
  <2>4. AtPhase(f)'
    BY <1>4, <2>1 DEF ReservedBusy, Return, Goto, Protocol, AtPhase, TypeOK, lockVars
  <2> QED
    BY <1>4, <2>2, <2>3, <2>4, Assemble DEF ReservedBusy, lockVars
<1> QED
  BY <1>1, <1>2, <1>3, <1>4

(* A granted lock becomes #lock.                                           *)
LEMMA ProtocolGranted ==
  ASSUME TypeOK, Protocol, NEW f \in Files,
         SharedGranted(f) \/ ExclusiveGranted(f) \/ GotFile(f) \/ GetFileFails(f)
  PROVE  Protocol'
<1>1. held[f] # "none" /\ UNCHANGED lockVars
  BY DEF SharedGranted, ExclusiveGranted, GotFile, GetFileFails, Protocol, AtPhase
<1>2. OnlyTouches(f)
  BY DEF SharedGranted, ExclusiveGranted, GotFile, GetFileFails, Locked, Return, Goto,
         OnlyTouches, TypeOK, lockVars
<1>3. QueuedOnce'
  BY <1>1, <1>2, WhoIsNotQueued, QueueUntouched DEF Protocol, lockVars
<1>4. AtPhase(f)'
  <2>1. AtPhase(f)
    BY DEF Protocol
  <2>2. CASE SharedGranted(f)
    BY <2>1, <2>2 DEF SharedGranted, Goto, AtPhase, TypeOK, lockVars
  <2>3. CASE ExclusiveGranted(f)
    BY <2>1, <2>3 DEF ExclusiveGranted, Locked, Return, Goto, AtPhase, TypeOK, lockVars
  <2>4. CASE GotFile(f)
    BY <2>1, <2>4 DEF GotFile, Locked, Return, Goto, AtPhase, TypeOK, lockVars
  <2>5. CASE GetFileFails(f)
    BY <2>1, <2>5 DEF GetFileFails, Return, Goto, AtPhase, TypeOK, lockVars
  <2> QED
    BY <2>2, <2>3, <2>4, <2>5
<1> QED
  BY <1>1, <1>2, <1>3, <1>4, Assemble DEF lockVars

LEMMA ProtocolUnlock ==
  ASSUME TypeOK, Protocol, NEW f \in Files, UnlockCall(f)
  PROVE  Protocol'
<1>1. ASSUME NEW l \in {0, 1}, UnlockExclusive(f, l) PROVE Protocol'
  <2>1. pc[f] = "idle" /\ mode[f] = "exclusive" /\ level[f] = 4 /\ res[f]
    BY <1>1 DEF UnlockExclusive, MayUnlock, Protocol, AtPhase
  <2>2. OnlyTouches(f) /\ held'[f] = "none" /\ pc'[f] = "await_downgrade"
    BY <1>1 DEF UnlockExclusive, Release, Call, Goto, OnlyTouches, TypeOK
  <2>3. QueuedOnce'
    BY <1>1, <2>1, <2>2, WhoIsNotQueued, QueueGrows DEF UnlockExclusive, Protocol, Modes
  <2>4. AtPhase(f)'
    BY <1>1, <2>1, <2>2 DEF UnlockExclusive, Call, AtPhase, TypeOK
  <2> QED
    BY <1>1, <2>2, <2>3, <2>4, Assemble DEF UnlockExclusive
<1>2. ASSUME NEW l \in {0, 1}, UnlockShared(f, l) PROVE Protocol'
  <2>1. pc[f] = "idle" /\ mode[f] = "shared" /\ held[f] = "shared" /\ level[f] # 4
    BY <1>2 DEF UnlockShared, MayUnlock, Protocol, AtPhase
  <2>2. OnlyTouches(f) /\ (held' = held \/ held'[f] = "none")
    BY <1>2 DEF UnlockShared, Release, OnlyTouches, TypeOK
  <2>3. QueuedOnce'
    BY <1>2, <2>1, <2>2, WhoIsNotQueued, QueueUntouched DEF UnlockShared, Protocol
  <2>4. AtPhase(f)'
    <3>1. l = 1 => level[f] # 0
      BY <1>2, <2>1 DEF UnlockShared, MayUnlock
    <3> QED
      BY <1>2, <2>1, <3>1 DEF UnlockShared, Release, AtPhase, TypeOK
  <2> QED
    BY <1>2, <2>2, <2>3, <2>4, Assemble DEF UnlockShared
<1> QED
  BY <1>1, <1>2 DEF UnlockCall

LEMMA ProtocolDowngraded ==
  ASSUME TypeOK, Protocol, NEW f \in Files, Downgraded(f)
  PROVE  Protocol'
<1>1. pc[f] = "await_downgrade" /\ held[f] = "shared" /\ level[f] \in {0, 1}
      /\ level[f] = want[f]
  BY DEF Downgraded, Protocol, AtPhase
<1>2. OnlyTouches(f)
  BY DEF Downgraded, Release, Return, Goto, OnlyTouches, TypeOK
<1>3. QueuedOnce'
  BY <1>1, <1>2, WhoIsNotQueued, QueueUntouched DEF Downgraded, Protocol
<1>4. AtPhase(f)'
  BY <1>1 DEF Downgraded, Release, Return, Goto, AtPhase, TypeOK
<1>5. held'[f] = held[f] \/ held'[f] = "none"
  BY DEF Downgraded, Release, TypeOK
<1>6. ~res'[f]
  BY DEF Downgraded, TypeOK
<1> QED
  BY <1>2, <1>3, <1>4, <1>5, <1>6, Assemble

(* The manager grants the head of the queue.                               *)
LEMMA ProtocolGrant ==
  ASSUME TypeOK, Protocol, GrantRequest
  PROVE  Protocol'
<1> DEFINE f == Head(queue).file
           m == Head(queue).mode
           n == Len(queue)
<1>1. /\ f = queue[1].file /\ m = queue[1].mode /\ 1 \in DOMAIN queue
      /\ f \in Files /\ m \in Modes
  <2>1. queue \in Seq(Requests) /\ queue # <<>>
    BY DEF TypeOK, GrantRequest, Grant
  <2>2. Head(queue) = queue[1] /\ n \in Nat \ {0}
    BY <2>1, HeadTail
  <2>3. 1 \in DOMAIN queue
    BY <2>1, <2>2, LenProperties
  <2> QED
    BY <2>2, <2>3, QueueElements
<1>2. /\ DOMAIN queue' = 1..(n-1)
      /\ \A i \in 1..(n-1) : queue'[i] = queue[i+1]
      /\ \A i \in 1..(n-1) : i \in Int /\ i+1 \in DOMAIN queue /\ i+1 # 1
      /\ \A i, j \in 1..(n-1) : i+1 = j+1 => i = j
  <2>1. queue \in Seq(Requests) /\ queue # <<>> /\ queue' = Tail(queue)
    BY DEF TypeOK, GrantRequest, Grant
  <2>2. /\ n \in Nat \ {0} /\ queue' \in Seq(Requests) /\ Len(queue') = n-1
        /\ DOMAIN queue = 1..n
        /\ \A i \in 1..n-1 : queue'[i] = queue[i+1]
    BY <2>1, HeadTail, LenProperties
  <2>3. DOMAIN queue' = 1..(n-1)
    BY <2>2, LenProperties
  <2> QED
    BY <2>2, <2>3
<1>3. /\ held' = [held EXCEPT ![f] = m] /\ Grantable(m)
      /\ UNCHANGED <<res, fileVars>>
  BY DEF GrantRequest, Grant
<1> HIDE DEF f, m, n
<1>4. /\ \A g \in Files \ {f} : held'[g] = held[g]
      /\ held'[f] = m
  BY <1>1, <1>3 DEF TypeOK
<1>5. OneReserved'
  BY <1>3 DEF Protocol, OneReserved
<1>6. ExclusiveIsAlone'
  <2> SUFFICES ASSUME NEW g \in Files, NEW h \in Files, g # h, held'[g] = "exclusive"
               PROVE  held'[h] = "none"
    BY DEF ExclusiveIsAlone
  <2>1. CASE g = f
    BY <1>3, <1>4, <2>1 DEF Grantable
  <2>2. CASE g # f
    BY <1>1, <1>3, <1>4, <2>2 DEF Grantable, Modes
  <2> QED
    BY <2>1, <2>2
<1>7. QueuedOnce'
  <2>1. QueuedOnce
    BY DEF Protocol
  <2>2. ASSUME NEW i \in DOMAIN queue'
        PROVE  /\ i+1 \in DOMAIN queue /\ queue'[i] = queue[i+1]
               /\ queue[i+1].file # f /\ queue[i+1].file \in Files
    BY <1>1, <1>2, <2>1, QueueElements DEF QueuedOnce
  <2>3. \A i \in DOMAIN queue' :
          /\ held'[queue'[i].file] = "none"
          /\ \/ queue'[i].mode = "exclusive" /\ pc'[queue'[i].file] = "await_exclusive"
             \/ /\ queue'[i].mode = "shared"
                /\ pc'[queue'[i].file] \in {"await_shared", "await_downgrade"}
    BY <1>3, <1>4, <2>1, <2>2 DEF QueuedOnce, fileVars
  <2>4. \A i, j \in DOMAIN queue' : queue'[i].file = queue'[j].file => i = j
    BY <1>2, <2>1, <2>2 DEF QueuedOnce
  <2> QED
    BY <2>3, <2>4 DEF QueuedOnce
<1>8. \A g \in Files : AtPhase(g)'
  <2> SUFFICES ASSUME NEW g \in Files PROVE AtPhase(g)'
    OBVIOUS
  <2>1. AtPhase(g)
    BY DEF Protocol
  <2>2. CASE g # f
    BY <1>3, <1>4, <2>1, <2>2 DEF AtPhase, fileVars
  <2>3. CASE g = f
    <3>1. \/ m = "exclusive" /\ pc[f] = "await_exclusive"
          \/ m = "shared" /\ pc[f] \in {"await_shared", "await_downgrade"}
      BY <1>1 DEF Protocol, QueuedOnce
    <3> QED
      BY <1>3, <1>4, <2>1, <2>3, <3>1 DEF AtPhase, fileVars
  <2> QED
    BY <2>2, <2>3
<1> QED
  BY <1>5, <1>6, <1>7, <1>8 DEF Protocol

LEMMA NextProtocol == TypeOK /\ Protocol /\ [Next]_vars => Protocol'
<1> SUFFICES ASSUME TypeOK, Protocol, [Next]_vars PROVE Protocol'
  OBVIOUS
<1>1. ASSUME UNCHANGED <<lockVars, mode, level, pc, want>> PROVE Protocol'
  BY <1>1 DEF Protocol, OneReserved, ExclusiveIsAlone, QueuedOnce, AtPhase, lockVars
<1>2. CASE UNCHANGED vars
  BY <1>1, <1>2 DEF vars, fileVars
<1>3. ASSUME NEW f \in Files, Read(f) \/ \E kind \in CommitKinds : Commit(f, kind)
      PROVE  Protocol'
  BY <1>1, <1>3 DEF Read, Commit
<1>4. ASSUME NEW f \in Files, LockCall(f) PROVE Protocol'
  BY <1>4, ProtocolLockShared, ProtocolReserve DEF LockCall
<1>5. ASSUME NEW f \in Files, Resume(f) PROVE Protocol'
  BY <1>5, ProtocolReserve, ProtocolGranted, ProtocolDowngraded DEF Resume
<1> QED
  BY <1>2, <1>3, <1>4, <1>5, ProtocolUnlock, ProtocolGrant DEF Next

THEOREM LockInvariant == Spec => []LockInv
<1>1. Init => TypeOK /\ Protocol
  BY InitType, InitProtocol
<1>2. TypeOK /\ Protocol /\ [Next]_vars => (TypeOK /\ Protocol)'
  BY NextType, NextProtocol
<1>3. TypeOK /\ Protocol => LockInv
  BY DEF Protocol, LockInv
<1> QED
  BY <1>1, <1>2, <1>3, PTL DEF Spec

(* #lock is the lock that is held, whenever a call can release it.         *)
THEOREM LockObjectIsHeld == Spec => []LockIsHeld
<1>1. LockInv => LockIsHeld
  BY DEF LockInv, AtPhase, LockIsHeld
<1> QED
  BY <1>1, LockInvariant, PTL

(* At most one file is exchanging locks.                                   *)
THEOREM ExchangesAreExclusive == Spec => []OneExchange
<1>1. LockInv => OneExchange
  BY DEF LockInv, AtPhase, OneReserved, OneExchange
<1> QED
  BY <1>1, LockInvariant, PTL

LEMMA Compatibility == LockInv => CompatibleLevels
<1> SUFFICES ASSUME LockInv, NEW f \in Files, NEW g \in Files, f # g
             PROVE  DatabaseLock!Compatible(level[f], level[g])
  BY DEF CompatibleLevels
<1>1. level[f] \in Levels /\ level[g] \in Levels
  BY DEF LockInv, TypeOK
<1>2. ASSUME NEW h \in Files PROVE level[h] \in {2, 4} => res[h]
  <2>1. pc[h] \in {"idle"} \cup Awaits /\ AtPhase(h)
    BY DEF LockInv, TypeOK
  <2> QED
    BY <2>1 DEF AtPhase, Awaits
<1>3. ~(level[f] \in {2, 4} /\ level[g] \in {2, 4})
  BY <1>2 DEF LockInv, OneReserved
<1>4. ASSUME NEW h \in Files, NEW k \in Files, h # k, level[h] = 4 PROVE level[k] = 0
  <2>1. /\ pc[h] \in {"idle"} \cup Awaits /\ AtPhase(h)
        /\ pc[k] \in {"idle"} \cup Awaits /\ AtPhase(k)
        /\ level[k] \in Levels
    BY DEF LockInv, TypeOK
  <2>2. held[h] = "exclusive" /\ res[h]
    BY <1>4, <2>1 DEF AtPhase, Awaits
  <2>3. held[k] = "none" /\ ~res[k]
    BY <1>4, <2>2 DEF LockInv, ExclusiveIsAlone, OneReserved
  <2> QED
    BY <2>1, <2>3 DEF AtPhase, Awaits, Levels
<1> QED
  BY <1>1, <1>3, <1>4 DEF Levels, DatabaseLock!Compatible

(* SQLite's lock levels are respected by every two files.                  *)
THEOREM LevelsAreCompatible == Spec => []CompatibleLevels
  BY Compatibility, LockInvariant, PTL

-----------------------------------------------------------------------------
(* Snapshots.  When every commit goes through sync(), which drops #blob,   *)
(* a reader's snapshot is current: a writer at EXCLUSIVE is the only file  *)
(* above NONE, and nobody is above NONE without having taken a snapshot    *)
(* after the last write of another file.                                   *)

LEMMA NextSnapshot ==
  ASSUME CommitKinds \subseteq {"sync"}, LockInv, SnapshotIsCurrent, [Next]_vars
  PROVE  SnapshotIsCurrent'
<1>0. TypeOK
  BY DEF LockInv
<1>1. ASSUME UNCHANGED <<blob, disk>>,
             \A g \in Files : level'[g] >= 1 => level[g] >= 1
      PROVE  SnapshotIsCurrent'
  BY <1>1 DEF SnapshotIsCurrent
<1>2. CASE UNCHANGED vars
  BY <1>1, <1>2 DEF vars, fileVars
<1>3. CASE GrantRequest
  BY <1>1, <1>3 DEF GrantRequest, fileVars
<1>4. ASSUME NEW f \in Files, NEW l \in {2, 4}, level[f] >= 1, WithReserved(f, l),
             UNCHANGED <<blob, disk>>
      PROVE  SnapshotIsCurrent'
  <2>1. \A g \in Files : level'[g] >= 1 => level[g] >= 1
    BY <1>0, <1>4 DEF WithReserved, Locked, ExchangeLocks, TypeOK
  <2> QED
    BY <1>1, <1>4, <2>1
<1>5. ASSUME NEW f \in Files, LockCall(f) PROVE SnapshotIsCurrent'
  <2>1. CASE LockShared(f)
    BY <1>1, <2>1 DEF LockShared
  <2>2. ASSUME NEW l \in {2, 4}, AskReserved(f, l) PROVE SnapshotIsCurrent'
    BY <1>1, <2>2 DEF AskReserved
  <2>3. ASSUME NEW l \in {2, 4}, StillReserved(f, l) PROVE SnapshotIsCurrent'
    BY <1>4, <2>3 DEF StillReserved, MayLock
  <2> QED
    BY <1>5, <2>1, <2>2, <2>3 DEF LockCall
<1>6. ASSUME NEW f \in Files, UnlockCall(f) PROVE SnapshotIsCurrent'
  <2>1. UNCHANGED <<blob, disk>>
    BY <1>6 DEF UnlockCall, UnlockExclusive, UnlockShared
  <2>2. PICK l \in {0, 1} : l <= level[f] /\ level' = [level EXCEPT ![f] = l]
    BY <1>6 DEF UnlockCall, UnlockExclusive, UnlockShared, MayUnlock
  <2>3. \A g \in Files : level'[g] >= 1 => level[g] >= 1
    BY <1>0, <2>2 DEF TypeOK
  <2> QED
    BY <1>1, <2>1, <2>3
<1>7. ASSUME NEW f \in Files, Resume(f) PROVE SnapshotIsCurrent'
  <2>1. CASE GotFile(f)
    BY <1>0, <2>1 DEF GotFile, Locked, SnapshotIsCurrent, TypeOK
  <2>2. CASE GotReserved(f)
    <3>1. want[f] \in {2, 4} /\ level[f] >= 1
      BY <2>2 DEF GotReserved, LockInv, AtPhase
    <3> QED
      BY <1>4, <2>2, <3>1 DEF GotReserved
  <2>3. CASE ExclusiveGranted(f)
    <3>1. level[f] >= 1
      BY <2>3 DEF ExclusiveGranted, LockInv, AtPhase
    <3>2. \A g \in Files : level'[g] >= 1 => level[g] >= 1
      BY <1>0, <2>3, <3>1 DEF ExclusiveGranted, Locked, TypeOK
    <3> QED
      BY <1>1, <2>3, <3>2 DEF ExclusiveGranted
  <2>4. CASE SharedGranted(f) \/ GetFileFails(f) \/ ReservedBusy(f) \/ Downgraded(f)
    BY <1>1, <2>4 DEF SharedGranted, GetFileFails, ReservedBusy, Downgraded
  <2> QED
    BY <1>7, <2>1, <2>2, <2>3, <2>4 DEF Resume
<1>8. ASSUME NEW f \in Files, Read(f) PROVE SnapshotIsCurrent'
  BY <1>0, <1>8 DEF Read, SnapshotIsCurrent, TypeOK
<1>9. ASSUME NEW f \in Files, NEW kind \in CommitKinds, Commit(f, kind)
      PROVE  SnapshotIsCurrent'
  <2>1. /\ level[f] = 4 /\ level' = level
        /\ blob' = [blob EXCEPT ![f] = NoBlob]
    BY <1>9 DEF Commit
  <2>2. ASSUME NEW g \in Files, g # f PROVE level[g] = 0
    <3>1. DatabaseLock!Compatible(level[f], level[g])
      BY <2>2, Compatibility DEF CompatibleLevels
    <3> QED
      BY <2>1, <3>1 DEF DatabaseLock!Compatible
  <2> QED
    BY <1>0, <2>1, <2>2 DEF SnapshotIsCurrent, TypeOK
<1> QED
  BY <1>2, <1>3, <1>5, <1>6, <1>7, <1>8, <1>9 DEF Next

THEOREM SnapshotsAreCurrent ==
  ASSUME CommitKinds \subseteq {"sync"}
  PROVE  Spec => []SnapshotIsCurrent
<1>1. Init => SnapshotIsCurrent
  BY DEF Init, SnapshotIsCurrent
<1>2. LockInv /\ SnapshotIsCurrent /\ [Next]_vars => SnapshotIsCurrent'
  BY NextSnapshot
<1> QED
  BY <1>1, <1>2, LockInvariant, PTL DEF Spec

-----------------------------------------------------------------------------
(* file.js implements the lock levels that SQLite asks for.                *)

LEMMA Raise ==
  ASSUME LockInv, LockInv', NEW f \in Files, NEW l \in {1, 2, 4},
         level[f] < l, level[f] = 0 => l = 1,
         level' = [level EXCEPT ![f] = l], UNCHANGED disk
  PROVE  DatabaseLock!Lock(f, l)
<1>1. level'[f] = l /\ \A g \in Files \ {f} : level'[g] = level[g]
  BY DEF LockInv, TypeOK
<1>2. CompatibleLevels'
  <2>1. (LockInv => CompatibleLevels)'
    BY Compatibility, PTL
  <2> QED
    BY <2>1
<1>3. \A g \in Files \ {f} : DatabaseLock!Compatible(l, level[g])
  BY <1>1, <1>2 DEF CompatibleLevels, DatabaseLock!Compatible
<1>4. level[f] \in Levels
  BY DEF LockInv, TypeOK
<1> QED
  BY <1>3, <1>4 DEF DatabaseLock!Lock, Levels

LEMMA StepImplements ==
  ASSUME LockInv, LockInv', [Next]_vars
  PROVE  [DatabaseLock!Next]_<<level, disk>>
<1> SUFFICES ASSUME ~UNCHANGED <<level, disk>> PROVE DatabaseLock!Next
  OBVIOUS
<1>1. CASE UNCHANGED vars \/ GrantRequest
  BY <1>1 DEF vars, fileVars, GrantRequest
<1>2. ASSUME NEW f \in Files, DatabaseLock!Lock(f, 1) \/ DatabaseLock!Lock(f, 2) \/ DatabaseLock!Lock(f, 4)
      PROVE  DatabaseLock!Next
  <2>1. \E l \in {1, 2, 4} : DatabaseLock!Lock(f, l)
    BY <1>2, Zenon
  <2> QED
    BY <2>1 DEF DatabaseLock!Next
<1>3. ASSUME NEW f \in Files, NEW l \in {2, 4}, level[f] \in {1, 2}, level[f] < l,
             WithReserved(f, l), UNCHANGED disk
      PROVE  DatabaseLock!Next
  <2>1. l = 2 /\ level' = [level EXCEPT ![f] = 2]
    BY <1>3 DEF WithReserved, Locked, ExchangeLocks
  <2>2. level[f] < 2 /\ level[f] # 0
    BY <1>3, <2>1
  <2>3. DatabaseLock!Lock(f, 2)
    BY <1>3, <2>1, <2>2, Raise
  <2> QED
    BY <1>2, <2>3
<1>4. ASSUME NEW f \in Files, LockCall(f) PROVE DatabaseLock!Next
  <2>1. ASSUME NEW l \in {2, 4}, StillReserved(f, l) PROVE DatabaseLock!Next
    BY <1>3, <2>1 DEF StillReserved, MayLock
  <2> QED
    BY <1>4, <2>1 DEF LockCall, LockShared, AskReserved
<1>5. ASSUME NEW f \in Files, UnlockCall(f) PROVE DatabaseLock!Next
  <2>1. PICK l \in {0, 1} : l <= level[f] /\ level' = [level EXCEPT ![f] = l] /\ disk' = disk
    BY <1>5 DEF UnlockCall, UnlockExclusive, UnlockShared, MayUnlock
  <2>2. level \in [Files -> Levels]
    BY DEF LockInv, TypeOK
  <2>3. l # level[f]
    BY <2>1, <2>2
  <2>4. DatabaseLock!Unlock(f, l)
    BY <2>1, <2>2, <2>3 DEF DatabaseLock!Unlock, Levels
  <2> QED
    BY <2>4 DEF DatabaseLock!Next
<1>6. ASSUME NEW f \in Files, Resume(f) PROVE DatabaseLock!Next
  <2>1. AtPhase(f)
    BY DEF LockInv
  <2>2. CASE GotFile(f)
    <3>1. level[f] = 0
      BY <2>1, <2>2 DEF GotFile, AtPhase
    <3>2. level' = [level EXCEPT ![f] = 1] /\ level[f] < 1 /\ disk' = disk
      BY <2>2, <3>1 DEF GotFile, Locked
    <3>3. DatabaseLock!Lock(f, 1)
      BY <3>2, Raise
    <3> QED
      BY <1>2, <3>3
  <2>3. CASE GotReserved(f)
    <3>1. want[f] \in {2, 4} /\ level[f] = 1
      BY <2>1, <2>3 DEF GotReserved, AtPhase
    <3> QED
      BY <1>3, <2>3, <3>1 DEF GotReserved
  <2>4. CASE ExclusiveGranted(f)
    <3>1. level[f] \in {1, 2}
      BY <2>1, <2>4 DEF ExclusiveGranted, AtPhase
    <3>2. /\ level' = [level EXCEPT ![f] = 4] /\ level[f] < 4 /\ level[f] # 0
          /\ disk' = disk
      BY <2>4, <3>1 DEF ExclusiveGranted, Locked
    <3>3. DatabaseLock!Lock(f, 4)
      BY <3>2, Raise
    <3> QED
      BY <1>2, <3>3
  <2> QED
    BY <1>6, <2>2, <2>3, <2>4
       DEF Resume, SharedGranted, GetFileFails, ReservedBusy, Downgraded
<1>7. ASSUME NEW f \in Files, NEW kind \in CommitKinds, Commit(f, kind)
      PROVE  DatabaseLock!Next
  BY <1>7 DEF Commit, DatabaseLock!Next, DatabaseLock!Write
<1> QED
  BY <1>1, <1>4, <1>5, <1>6, <1>7 DEF Next, Read

(* Every behaviour of the two Web Locks is one of SQLite's lock levels.    *)
THEOREM ImplementsSqliteLock == Spec => LocksLikeSqlite
<1>1. Init => DatabaseLock!Init
  BY DEF Init, DatabaseLock!Init
<1>2. LockInv /\ LockInv' /\ [Next]_vars => [DatabaseLock!Next]_(DatabaseLock!vars)
  BY StepImplements DEF DatabaseLock!vars
<1> QED
  BY <1>1, <1>2, LockInvariant, PTL DEF Spec, LocksLikeSqlite, DatabaseLock!Spec

(* file.js:92: whoever asks under SHARED or more is always answered true,  *)
(* because query() reports the shared lock of the caller.  By              *)
(* vendor/sqlite3.h:773-776 the answer is that somebody has RESERVED.      *)
THEOREM CheckIsAlwaysTrue == Spec => []AlwaysReported
<1>1. ASSUME LockInv, NEW f \in Files, pc[f] = "idle", level[f] >= 1
      PROVE  ReportsReserved
  <2>1. AtPhase(f) /\ level[f] \in {1, 2, 4}
    BY <1>1 DEF LockInv, TypeOK, Levels
  <2>2. held[f] \in {"shared", "exclusive"}
    BY <1>1, <2>1 DEF AtPhase
  <2> QED
    BY <2>2 DEF ReportsReserved, SomethingHeld
<1>2. LockInv => AlwaysReported
  BY <1>1 DEF AlwaysReported
<1> QED
  BY <1>2, LockInvariant, PTL
===============================================================================
