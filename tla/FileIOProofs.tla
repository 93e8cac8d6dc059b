----------------------------- MODULE FileIOProofs -----------------------------
(***************************************************************************)
(* Theorems about FileIO, for files of any length and any content, and for *)
(* any methods of the file system that may reject.                         *)
(***************************************************************************)
EXTENDS FileIO, SequenceTheorems, TLAPS

(* A content is a sequence of pages, and no marker.                        *)
LEMMA ContentsAreFiles ==
  ASSUME NEW c \in Contents
  PROVE  /\ c \in Seq(Data)
         /\ Len(c) \in 0..MaxPages
         /\ c = [i \in 1..Len(c) |-> c[i]]
         /\ c # None /\ c # Broken
<1>1. PICK n \in 0..MaxPages : c \in [1..n -> Data]
  BY DEF Contents
<1>2. c \in Seq(Data)
  BY <1>1, SeqDef
<1>3. Len(c) = n
  BY <1>1, <1>2, LenProperties
<1> QED
  BY <1>1, <1>2, <1>3, NoContentAssumption

(* A function on an initial segment is a content.                          *)
LEMMA FilesAreContents ==
  ASSUME NEW n \in 0..MaxPages, NEW c \in [1..n -> Data]
  PROVE  c \in Contents /\ Len(c) = n
<1>1. c \in Contents
  BY DEF Contents
<1>2. c \in Seq(Data)
  BY SeqDef
<1> QED
  BY <1>1, <1>2, LenProperties

(* A write of a page of the file, or of the next one, makes a file with    *)
(* that page changed.                                                      *)
LEMMA PutFacts ==
  ASSUME NEW c \in Contents, NEW p \in Offsets, p <= Len(c), NEW d \in Data
  PROVE  /\ Put(c, p, d) \in Contents
         /\ Len(Put(c, p, d)) = IF p < Len(c) THEN Len(c) ELSE p + 1
         /\ \A q \in Offsets :
              q < Len(c) /\ q # p => PageOf(Put(c, p, d), q) = PageOf(c, q)
<1> DEFINE n == IF p < Len(c) THEN Len(c) ELSE p + 1
           new == [i \in 1..n |-> IF i = p + 1 THEN d ELSE c[i]]
<1>1. Len(c) \in 0..MaxPages /\ c \in [1..Len(c) -> Data]
  BY ContentsAreFiles, LenProperties
<1>2. n \in 0..MaxPages /\ p \in Int
  BY <1>1, MaxPagesAssumption DEF Offsets
<1>3. \A i \in 1..n : (IF i = p + 1 THEN d ELSE c[i]) \in Data
  BY <1>1, <1>2
<1>4. new \in [1..n -> Data]
  BY <1>3
<1>5. new = Put(c, p, d)
  BY DEF Put
<1>6. new \in Contents /\ Len(new) = n
  BY <1>2, <1>4, FilesAreContents
<1>7. ASSUME NEW q \in Offsets, q < Len(c), q # p
      PROVE  new[q + 1] = c[q + 1]
  <2>1. q + 1 \in 1..n /\ q + 1 # p + 1
    BY <1>1, <1>2, <1>7, MaxPagesAssumption DEF Offsets
  <2> QED
    BY <2>1
<1>8. Len(Put(c, p, d)) = (IF p < Len(c) THEN Len(c) ELSE p + 1)
  BY <1>5, <1>6
<1> HIDE DEF new, n
<1> QED
  BY <1>5, <1>6, <1>7, <1>8 DEF PageOf

(* So does a truncation, which keeps the pages that are left.              *)
LEMMA CutFacts ==
  ASSUME NEW c \in Contents, NEW n \in 0..MaxPages, n <= Len(c)
  PROVE  /\ Cut(c, n) \in Contents
         /\ Len(Cut(c, n)) = n
         /\ \A q \in Offsets : q < n => PageOf(Cut(c, n), q) = PageOf(c, q)
<1> DEFINE new == [i \in 1..n |-> c[i]]
<1>1. Len(c) \in 0..MaxPages /\ c \in [1..Len(c) -> Data]
  BY ContentsAreFiles, LenProperties
<1>2. new \in [1..n -> Data]
  BY <1>1
<1>3. new \in Contents /\ Len(new) = n
  BY <1>2, FilesAreContents
<1>4. ASSUME NEW q \in Offsets, q < n
      PROVE  new[q + 1] = c[q + 1]
  <2>1. q + 1 \in 1..n
    BY <1>4, MaxPagesAssumption DEF Offsets
  <2> QED
    BY <2>1
<1> QED
  BY <1>3, <1>4 DEF PageOf, Cut

-----------------------------------------------------------------------------
(***************************************************************************)
(* Type correctness.                                                       *)
(***************************************************************************)
(* The content SQLite has written, and the one read() finds, are contents. *)
LEMMA WrittenIsContent ==
  ASSUME TypeOK
  PROVE  /\ Written \in Contents
         /\ Snapshot \in Contents
         /\ HasStream <=> stream \in Contents
         /\ stream = None => Written = disk
         /\ stream = Broken => Written = disk
<1>1. \A c \in Contents : c # None /\ c # Broken
  BY ContentsAreFiles
<1> QED
  BY <1>1 DEF TypeOK, Written, Snapshot, HasStream

(* What SQLite reads is a page's content.                                  *)
LEMMA PagesAreData ==
  ASSUME NEW c \in Contents, NEW p \in Offsets, p < Len(c)
  PROVE  PageOf(c, p) \in Data
<1>1. Len(c) \in 0..MaxPages /\ c \in [1..Len(c) -> Data]
  BY ContentsAreFiles, LenProperties
<1>2. p + 1 \in 1..Len(c)
  BY <1>1, MaxPagesAssumption DEF Offsets
<1> QED
  BY <1>1, <1>2 DEF PageOf

(* Every call keeps the types.                                             *)
LEMMA TypeStep == TypeOK /\ [Next]_vars => TypeOK'
<1> SUFFICES ASSUME TypeOK, [Next]_vars PROVE TypeOK'
  OBVIOUS
<1> USE DEF Reply, Calls, Results
<1>a. /\ Written \in Contents /\ Snapshot \in Contents
      /\ HasStream => stream \in Contents
  BY WrittenIsContent
<1>b. Len(disk) \in 0..MaxPages /\ MaxPages \in Nat \ {0}
  BY ContentsAreFiles, MaxPagesAssumption DEF TypeOK
<1>1. CASE Lock
  BY <1>1, <1>b DEF Lock, TypeOK, Phases
<1>2. CASE Unlock
  BY <1>2 DEF Unlock, TypeOK, Phases, fileVars
<1>3. CASE Sync
  BY <1>3, <1>a DEF Sync, TypeOK, Phases, Flush
<1>4. CASE SyncFails
  BY <1>4 DEF SyncFails, CloseRejects, TypeOK
<1>5. CASE Begin
  BY <1>5 DEF Begin, TypeOK, Phases
<1>6. CASE Commit
  BY <1>6, <1>a DEF Commit, TypeOK, Phases, Flush
<1>7. CASE CommitFails
  BY <1>7 DEF CommitFails, CloseRejects, TypeOK, Phases
<1>8. CASE Rollback
  BY <1>8, <1>b DEF Rollback, TypeOK, Phases
<1>9. CASE RollbackFails
  BY <1>9 DEF RollbackFails, TypeOK, Phases, fileVars
<1>10. CASE Others
  BY <1>10 DEF Others, TypeOK
<1>11. CASE Crash
  BY <1>11 DEF Crash, TypeOK, Phases
<1>12. ASSUME NEW p \in Offsets, Read(p)
       PROVE  TypeOK'
  <2>1. PageOf(Snapshot, p) \in Data
    BY <1>12, <1>a, PagesAreData DEF Read
  <2> QED
    BY <2>1, <1>12, <1>a DEF Read, TypeOK
<1>13. ASSUME NEW p \in Offsets, ReadDirty(p)
       PROVE  TypeOK'
  <2>1. PageOf(stream, p) \in Data
    BY <1>13, <1>a, PagesAreData DEF ReadDirty, MayRead, Written
  <2> QED
    BY <2>1, <1>13, <1>a DEF ReadDirty, Flush, TypeOK
<1>14. ASSUME NEW p \in Offsets, ReadShort(p)
       PROVE  TypeOK'
  BY <1>14, <1>a DEF ReadShort, TypeOK
<1>15. ASSUME NEW p \in Offsets, ReadFails(p)
       PROVE  TypeOK'
  BY <1>15 DEF ReadFails, CloseRejects, TypeOK
<1>16. ASSUME NEW p \in Offsets, WriteFails(p)
       PROVE  TypeOK'
  <2>1. phase' \in Phases
    BY <1>16 DEF WriteFails, AfterFailure, TypeOK, Phases
  <2>2. CASE CannotWrite("write")
    BY <2>1, <2>2 DEF CannotWrite, fileVars, TypeOK
  <2>3. CASE Breaks("write")
    BY <2>1, <2>3 DEF Breaks, TypeOK
  <2> QED
    BY <1>16, <2>2, <2>3 DEF WriteFails
<1>17. ASSUME NEW p \in Offsets, NEW d \in Data, Write(p, d)
       PROVE  TypeOK'
  <2>1. Put(Written, p, d) \in Contents
    BY <1>17, <1>a, PutFacts DEF Write, MayWrite
  <2>2. size' \in {Undefined} \cup 0..MaxPages
    BY <1>17, <1>b DEF Write, TypeOK, Offsets, Undefined
  <2> QED
    BY <2>1, <2>2, <1>17 DEF Write, TypeOK
<1>18. ASSUME NEW n \in 0..MaxPages, Trunc(n)
       PROVE  TypeOK'
  <2>1. Cut(Written, n) \in Contents
    BY <1>18, <1>a, CutFacts DEF Trunc, MayTruncate
  <2> QED
    BY <2>1, <1>18 DEF Trunc, TypeOK
<1>19. ASSUME NEW n \in 0..MaxPages, TruncFails(n)
       PROVE  TypeOK'
  <2>1. CASE CannotWrite("trunc")
    BY <2>1, <1>19 DEF TruncFails, CannotWrite, fileVars, TypeOK
  <2>2. CASE Breaks("trunc")
    BY <2>2, <1>19 DEF TruncFails, Breaks, TypeOK
  <2> QED
    BY <1>19, <2>1, <2>2 DEF TruncFails
<1>20. CASE UNCHANGED vars
  BY <1>20 DEF vars, fileVars, TypeOK
<1> QED
  BY <1>1, <1>2, <1>3, <1>4, <1>5, <1>6, <1>7, <1>8, <1>9, <1>10, <1>11, <1>12,
     <1>13, <1>14, <1>15, <1>16, <1>17, <1>18, <1>19, <1>20 DEF Next

(* The variables of file.js keep their types, whatever rejects.            *)
THEOREM TypeCorrect == Spec => []TypeOK
<1>1. ASSUME Init PROVE TypeOK
  <2>1. reply \in Calls \X Results
    BY <1>1 DEF Init, Calls, Results
  <2> QED
    BY <1>1, <2>1 DEF Init, TypeOK, Phases
<1> QED
  BY <1>1, TypeStep, PTL DEF Spec

-----------------------------------------------------------------------------
(***************************************************************************)
(* The inductive invariant.  UnmarkedIsCurrent needs that the snapshot is  *)
(* the file (SnapshotIsDisk), for when a stream breaks and what it held is *)
(* lost, and that no stream is left over when SQLite takes a lock          *)
(* (PendingIsWritten).  All of it is about a file that is not stuck; that  *)
(* a batch is not stuck is BatchIsAtomic.                                  *)
(***************************************************************************)
InBatch == phase \in {"batch", "failed"}

PendingIsWritten ==
  /\ ~InBatch /\ ~Stuck /\ HasStream => pending = "yes"
  /\ phase = "unlocked" => pending = "no"

BatchIsAtomic == InBatch => atomic

SnapshotIsDisk == phase = "locked" /\ ~Stuck => blob \in {None, disk}

SizeOfStream == phase = "committed" /\ ~Stuck /\ HasStream => size = Len(stream)

FileInv ==
  /\ TypeOK
  /\ PendingIsWritten
  /\ BatchIsAtomic
  /\ SnapshotIsDisk
  /\ SizeOfStream
  /\ UnmarkedIsCurrent
  /\ SizeIsRight

(* While the file is stuck, or in a batch, there is little to show.        *)
LEMMA InvOfStuck ==
  ASSUME TypeOK', Stuck' \/ (InBatch /\ atomic)', phase' # "unlocked"
  PROVE  FileInv'
  BY DEF FileInv, PendingIsWritten, BatchIsAtomic, SnapshotIsDisk, SizeOfStream,
         UnmarkedIsCurrent, SizeIsRight, Stuck, InBatch

(* When there is no stream, the snapshot is the file or will be.           *)
LEMMA InvWithoutStream ==
  ASSUME TypeOK', phase' = "locked", ~HasStream', (blob \in {None, disk})',
         (stream = None => size = Len(disk))'
  PROVE  FileInv'
<1>1. Written' = disk' /\ Snapshot' = disk'
  BY DEF Written, Snapshot
<1> QED
  BY <1>1 DEF FileInv, PendingIsWritten, BatchIsAtomic, SnapshotIsDisk, SizeOfStream,
         UnmarkedIsCurrent, SizeIsRight, HasStream, InBatch

(* Outside a lock, and after a commit, the snapshot does not matter.       *)
LEMMA InvWithoutReads ==
  ASSUME TypeOK', phase' \in {"unlocked", "committed"}, ~HasStream',
         phase' = "unlocked" => pending' = "no"
  PROVE  FileInv'
  BY DEF FileInv, PendingIsWritten, BatchIsAtomic, SnapshotIsDisk, SizeOfStream,
         UnmarkedIsCurrent, SizeIsRight, InBatch

(* A stream that breaks leaves what is in the file and in the snapshot.    *)
LEMMA InvOfBreak ==
  ASSUME FileInv, TypeOK', stream' = Broken, UNCHANGED <<disk, blob, atomic, phase>>,
         phase \in {"locked", "committed"}
  PROVE  FileInv'
<1>1. ~HasStream' /\ stream' # None
  BY NoContentAssumption DEF HasStream, None, Broken
<1>2. CASE Stuck
  BY <1>2, InvOfStuck DEF Stuck
<1>3. CASE phase = "committed"
  BY <1>3, <1>1, InvWithoutReads
<1>4. CASE ~Stuck /\ phase = "locked"
  BY <1>4, <1>1, InvWithoutStream DEF FileInv, SnapshotIsDisk
<1> QED
  BY <1>2, <1>3, <1>4

(* Every call keeps the invariant.                                         *)
LEMMA InvStep == FileInv /\ [Next]_vars => FileInv'
<1> SUFFICES ASSUME FileInv, [Next]_vars PROVE FileInv'
  OBVIOUS
<1>a. TypeOK /\ TypeOK'
  BY TypeStep DEF FileInv
<1>b. /\ Written \in Contents /\ Snapshot \in Contents
      /\ HasStream => stream \in Contents
  BY <1>a, WrittenIsContent
<1>c. disk \in Contents /\ \A c \in Contents : c # None /\ c # Broken
  BY <1>a, ContentsAreFiles DEF TypeOK
<1>d. \/ phase = "unlocked" \/ phase = "locked" \/ phase = "committed"
      \/ phase = "batch" \/ phase = "failed"
  BY <1>a DEF TypeOK, Phases
<1>1. CASE Lock
  <2>1. CASE Stuck
    BY <2>1, <1>1, <1>a, InvOfStuck DEF Lock, Stuck
  <2>2. CASE ~Stuck
    <3>1. ~HasStream
      BY <2>2, <1>1 DEF Lock, FileInv, PendingIsWritten, InBatch
    <3> QED
      BY <3>1, <1>1, <1>a, InvWithoutStream DEF Lock, HasStream
  <2> QED
    BY <2>1, <2>2
<1>2. CASE Unlock
  BY <1>2, <1>a DEF Unlock, fileVars, FileInv, PendingIsWritten, BatchIsAtomic, SnapshotIsDisk,
     SizeOfStream, UnmarkedIsCurrent, SizeIsRight, InBatch, Stuck, HasStream
<1>3. CASE Sync
  <2>1. CASE Stuck
    <3>1. Stuck'
      BY <2>1, <1>3, <1>d DEF Sync, Stuck
    <3> QED
      BY <3>1, <1>3, <1>a, InvOfStuck DEF Sync
  <2>2. CASE ~Stuck /\ stream = None
    BY <2>2, <1>3, <1>a, <1>c DEF Sync, FileInv, PendingIsWritten, BatchIsAtomic, SnapshotIsDisk,
       SizeOfStream, UnmarkedIsCurrent, SizeIsRight, InBatch, Stuck, HasStream, Written, Snapshot
  <2>3. CASE ~Stuck /\ stream # None
    <3>1. ~atomic /\ HasStream /\ Flush /\ blob' = None /\ phase' = "locked"
      BY <2>3, <1>3 DEF Sync, Stuck
    <3>2. size = Len(stream)
      BY <3>1, <2>3, <1>3, <1>b DEF Sync, FileInv, SizeOfStream, SizeIsRight, HasStream, Written
    <3>3. size' = Len(disk') /\ ~HasStream'
      BY <3>1, <3>2, <1>3 DEF Sync, Flush, HasStream
    <3> QED
      BY <3>1, <3>3, <1>a, InvWithoutStream
  <2> QED
    BY <2>1, <2>2, <2>3
<1>5. CASE Begin
  BY <1>5, <1>a, InvOfStuck DEF Begin, InBatch
<1>6. CASE Commit
  BY <1>6, <1>a, InvWithoutReads DEF Commit, Flush, HasStream
<1>7. CASE CommitFails
  BY <1>7, <1>a, InvOfStuck DEF CommitFails, CloseRejects, FileInv, BatchIsAtomic, InBatch
<1>8. CASE Rollback
  BY <1>8, <1>a, InvWithoutStream DEF Rollback, HasStream
<1>9. CASE RollbackFails
  BY <1>9, <1>a, InvOfStuck DEF RollbackFails, fileVars, FileInv, BatchIsAtomic, InBatch, Stuck
<1>10. CASE Others
  BY <1>10, <1>a DEF Others, FileInv, PendingIsWritten, BatchIsAtomic, SnapshotIsDisk,
     SizeOfStream, UnmarkedIsCurrent, SizeIsRight, InBatch, Stuck, HasStream
<1>11. CASE Crash
  BY <1>11, <1>a, InvWithoutReads DEF Crash, HasStream
<1>4. CASE SyncFails
  BY <1>4, <1>a, InvOfBreak DEF SyncFails, CloseRejects
<1>12. ASSUME NEW p \in Offsets, Read(p) \/ ReadShort(p)
       PROVE  FileInv'
  <2>1. /\ blob' = Snapshot /\ phase = "locked"
        /\ UNCHANGED <<disk, stream, dirty, size, atomic, phase, pending>>
    BY <1>12 DEF Read, ReadShort, MayRead
  <2>2. Snapshot' = Snapshot
    BY <2>1, <1>b, <1>c DEF Snapshot
  <2> QED
    BY <2>1, <2>2, <1>a DEF FileInv, PendingIsWritten, BatchIsAtomic, SnapshotIsDisk,
       SizeOfStream, UnmarkedIsCurrent, SizeIsRight, InBatch, Stuck, HasStream, Written, Snapshot
<1>13. ASSUME NEW p \in Offsets, ReadDirty(p)
       PROVE  FileInv'
  <2>1. /\ phase = "locked" /\ phase' = "locked" /\ ~atomic /\ HasStream
        /\ disk' = stream /\ blob' = stream /\ stream' = None /\ size' = size
    BY <1>13 DEF ReadDirty, MayRead, Flush
  <2>2. size = Len(stream)
    BY <2>1 DEF FileInv, SizeIsRight, Stuck, HasStream, Written
  <2> QED
    BY <2>1, <2>2, <1>a, InvWithoutStream DEF HasStream
<1>15. ASSUME NEW p \in Offsets, ReadFails(p)
       PROVE  FileInv'
  BY <1>15, <1>a, InvOfBreak DEF ReadFails, MayRead, CloseRejects
<1>16. ASSUME NEW p \in Offsets, WriteFails(p)
       PROVE  FileInv'
  <2>1. CASE phase = "batch"
    <3>1. phase' = "failed" /\ atomic' = atomic
      BY <2>1, <1>16 DEF WriteFails, AfterFailure, CannotWrite, Breaks, fileVars
    <3> QED
      BY <3>1, <2>1, <1>a, InvOfStuck DEF FileInv, BatchIsAtomic, InBatch
  <2>2. CASE phase = "locked" /\ CannotWrite("write")
    <3>1. UNCHANGED <<fileVars, phase>> /\ ~HasStream
      BY <2>2, <1>16 DEF WriteFails, AfterFailure, CannotWrite, HasStream
    <3> QED
      BY <3>1, <2>2, <1>a DEF fileVars, FileInv, PendingIsWritten, BatchIsAtomic, SnapshotIsDisk,
         SizeOfStream, UnmarkedIsCurrent, SizeIsRight, InBatch, Stuck, HasStream, Written, Snapshot
  <2>3. CASE phase = "locked" /\ Breaks("write")
    BY <2>3, <1>16, <1>a, InvOfBreak DEF WriteFails, AfterFailure, Breaks
  <2> QED
    BY <2>1, <2>2, <2>3, <1>16 DEF WriteFails, MayWrite
<1>17. ASSUME NEW p \in Offsets, NEW d \in Data, Write(p, d)
       PROVE  FileInv'
  <2> DEFINE new == Put(Written, p, d)
  <2>1. /\ stream' = new /\ dirty' = dirty \cup {p} /\ pending' = "yes"
        /\ size' = IF size > p + 1 THEN size ELSE p + 1
        /\ p <= Len(Written) /\ phase \in {"locked", "batch"}
        /\ UNCHANGED <<disk, blob, atomic, phase>>
    BY <1>17 DEF Write, MayWrite
  <2>2. /\ new \in Contents
        /\ Len(new) = IF p < Len(Written) THEN Len(Written) ELSE p + 1
        /\ \A q \in Offsets : q < Len(Written) /\ q # p => PageOf(new, q) = PageOf(Written, q)
    BY <2>1, <1>b, PutFacts
  <2> HIDE DEF new
  <2>3. Written' = new /\ HasStream' /\ Snapshot' = Snapshot
    BY <2>1, <2>2, <1>c DEF Written, HasStream, Snapshot
  <2>4. CASE Stuck \/ phase = "batch"
    BY <2>4, <2>1, <1>a, InvOfStuck DEF Stuck, InBatch, FileInv, BatchIsAtomic
  <2>5. CASE ~Stuck /\ phase = "locked"
    <3>1. Len(Written) \in Nat /\ p \in Nat
      BY <1>b, ContentsAreFiles, MaxPagesAssumption DEF Offsets
    <3>2. size = Len(Written)
      BY <2>5, <1>17 DEF FileInv, SizeIsRight, Write
    <3>3. size' = Len(Written')
      BY <3>1, <3>2, <2>1, <2>2, <2>3
    <3>4. ASSUME NEW q \in Offsets \ dirty', q < Len(new)
          PROVE  q < Len(Snapshot) /\ PageOf(Snapshot, q) = PageOf(new, q)
      <4>1. q # p /\ q \in Offsets \ dirty
        BY <3>4, <2>1
      <4>2. q < Len(Written)
        BY <4>1, <3>4, <3>1, <2>1, <2>2 DEF Offsets
      <4> QED
        BY <4>1, <4>2, <2>2, <2>5 DEF FileInv, UnmarkedIsCurrent
    <3>5. UnmarkedIsCurrent'
      BY <3>4, <2>3 DEF UnmarkedIsCurrent
    <3> QED
      BY <3>3, <3>5, <2>1, <2>5, <1>a DEF FileInv, PendingIsWritten, BatchIsAtomic,
         SnapshotIsDisk, SizeOfStream, SizeIsRight, InBatch, Stuck
  <2> QED
    BY <2>1, <2>4, <2>5
<1>18. ASSUME NEW n \in 0..MaxPages, Trunc(n)
       PROVE  FileInv'
  <2> DEFINE new == Cut(Written, n)
  <2>1. /\ stream' = new /\ dirty' = {offset \in dirty : offset <= n} /\ pending' = "yes"
        /\ size' = n /\ n <= Len(Written) /\ phase \in {"locked", "committed"}
        /\ UNCHANGED <<disk, blob, atomic, phase>>
    BY <1>18 DEF Trunc, MayTruncate
  <2>2. /\ new \in Contents /\ Len(new) = n
        /\ \A q \in Offsets : q < n => PageOf(new, q) = PageOf(Written, q)
    BY <2>1, <1>b, CutFacts
  <2> HIDE DEF new
  <2>3. Written' = new /\ HasStream' /\ Snapshot' = Snapshot
    BY <2>1, <2>2, <1>c DEF Written, HasStream, Snapshot
  <2>4. CASE Stuck
    BY <2>4, <2>1, <1>a, InvOfStuck DEF Stuck
  <2>5. CASE ~Stuck
    <3>1. ASSUME phase = "locked", NEW q \in Offsets \ dirty', q < Len(new)
          PROVE  q < Len(Snapshot) /\ PageOf(Snapshot, q) = PageOf(new, q)
      <4>1. q \in Offsets \ dirty /\ q < Len(Written) /\ q < n
        <5>1. Len(Written) \in Nat
          BY <1>b, ContentsAreFiles
        <5> QED
          BY <5>1, <3>1, <2>1, <2>2, MaxPagesAssumption DEF Offsets
      <4> QED
        BY <4>1, <3>1, <2>2, <2>5 DEF FileInv, UnmarkedIsCurrent
    <3>2. UnmarkedIsCurrent'
      BY <3>1, <2>1, <2>3 DEF UnmarkedIsCurrent
    <3> QED
      BY <3>2, <2>1, <2>2, <2>3, <2>5, <1>a DEF FileInv, PendingIsWritten, BatchIsAtomic,
         SnapshotIsDisk, SizeOfStream, SizeIsRight, InBatch, Stuck
  <2> QED
    BY <2>4, <2>5
<1>19. ASSUME NEW n \in 0..MaxPages, TruncFails(n)
       PROVE  FileInv'
  <2>1. CASE CannotWrite("trunc")
    BY <2>1, <1>19, <1>a DEF TruncFails, MayTruncate, CannotWrite, fileVars, FileInv,
       PendingIsWritten, BatchIsAtomic, SnapshotIsDisk, SizeOfStream, UnmarkedIsCurrent,
       SizeIsRight, InBatch, Stuck, HasStream, Written, Snapshot
  <2>2. CASE Breaks("trunc")
    BY <2>2, <1>19, <1>a, InvOfBreak DEF TruncFails, MayTruncate, Breaks
  <2> QED
    BY <1>19, <2>1, <2>2 DEF TruncFails
<1>20. CASE UNCHANGED vars
  BY <1>20, <1>a DEF vars, fileVars, FileInv, PendingIsWritten, BatchIsAtomic, SnapshotIsDisk,
     SizeOfStream, UnmarkedIsCurrent, SizeIsRight, InBatch, Stuck, HasStream, Written, Snapshot
<1> QED
  BY <1>1, <1>2, <1>3, <1>4, <1>5, <1>6, <1>7, <1>8, <1>9, <1>10, <1>11, <1>12,
     <1>13, <1>15, <1>16, <1>17, <1>18, <1>19, <1>20 DEF Next

(* The inductive invariant holds.                                          *)
THEOREM FileInvariant == Spec => []FileInv
<1>1. ASSUME Init PROVE FileInv
  <2>1. TypeOK
    <3>1. reply \in Calls \X Results
      BY <1>1 DEF Init, Calls, Results
    <3> QED
      BY <1>1, <3>1 DEF Init, TypeOK, Phases
  <2> QED
    BY <1>1, <2>1 DEF Init, FileInv, PendingIsWritten, BatchIsAtomic, SnapshotIsDisk,
       SizeOfStream, UnmarkedIsCurrent, SizeIsRight, InBatch, Stuck, HasStream
<1> QED
  BY <1>1, InvStep, PTL DEF Spec

(* A page that is not marked dirty can be read from the snapshot.          *)
THEOREM UnmarkedPagesAreCurrent == Spec => []UnmarkedIsCurrent
<1>1. FileInv => UnmarkedIsCurrent
  BY DEF FileInv
<1> QED
  BY <1>1, FileInvariant, PTL

(* #size is the length of the file.                                        *)
THEOREM SizesAreRight == Spec => []SizeIsRight
<1>1. FileInv => SizeIsRight
  BY DEF FileInv
<1> QED
  BY <1>1, FileInvariant, PTL

-----------------------------------------------------------------------------
(***************************************************************************)
(* File implements DurableFile.                                            *)
(***************************************************************************)
LEMMA DurableInit == Init => File!Init
<1> SUFFICES ASSUME Init PROVE File!Init
  OBVIOUS
<1>1. disk \in Seq(Data)
  BY ContentsAreFiles DEF Init
<1>2. Written = disk
  BY DEF Init, Written, HasStream
<1> QED
  BY <1>1, <1>2 DEF Init, File!Init

LEMMA DurableStep ==
  ASSUME FileInv, [Next]_vars, ~Stuck, ~Stuck'
  PROVE  [File!Next]_(File!vars)
<1> USE DEF Reply
<1>a. TypeOK /\ TypeOK'
  BY TypeStep DEF FileInv
<1>b. /\ Written \in Contents /\ Snapshot \in Contents
      /\ HasStream => stream \in Contents
      /\ stream = None => Written = disk
  BY <1>a, WrittenIsContent
<1>c. disk \in Contents /\ disk' \in Contents /\ \A c \in Contents : c # None /\ c # Broken
  BY <1>a, ContentsAreFiles DEF TypeOK
<1>d. ~HasStream => Written = disk
  BY DEF Written
<1>e. ~InBatch /\ HasStream => pending = "yes"
  BY DEF FileInv, PendingIsWritten
<1>f. Len(Written) \in Nat
  BY <1>b, ContentsAreFiles
<1>1. CASE Lock
  <2>1. File!Lock
    BY <1>1 DEF Lock, File!Lock, Written, HasStream
  <2> QED
    BY <2>1 DEF File!Next
<1>2. CASE Unlock
  <2>1. File!Unlock
    BY <1>2, <1>d, <1>e DEF Unlock, File!Unlock, fileVars, Written, HasStream, InBatch
  <2> QED
    BY <2>1 DEF File!Next
<1>3. CASE Sync
  <2>1. Written' = Written /\ disk' = Written
    BY <1>3, <1>b DEF Sync, Flush, Stuck, Written, HasStream
  <2>2. File!Sync
    BY <1>3, <2>1 DEF Sync, File!Sync
  <2> QED
    BY <2>2 DEF File!Next
<1>4. CASE SyncFails
  <2>1. File!Fail("sync")
    BY <1>4 DEF SyncFails, CloseRejects, File!Fail, Written, HasStream
  <2> QED
    BY <2>1 DEF File!Next
<1>5. CASE Begin
  <2>1. File!Begin
    BY <1>5, <1>d, <1>e DEF Begin, File!Begin, Written, HasStream, InBatch
  <2> QED
    BY <2>1 DEF File!Next
<1>6. CASE Commit
  <2>1. File!Commit
    BY <1>6 DEF Commit, Flush, File!Commit, Written, HasStream
  <2> QED
    BY <2>1 DEF File!Next
<1>7. CASE CommitFails
  <2>1. File!Fail("commit")
    BY <1>7 DEF CommitFails, CloseRejects, File!Fail, Written, HasStream
  <2> QED
    BY <2>1 DEF File!Next
<1>8. CASE Rollback
  <2>1. File!Rollback
    BY <1>8 DEF Rollback, File!Rollback, Written, HasStream
  <2> QED
    BY <2>1 DEF File!Next
<1>9. CASE RollbackFails
  <2>1. Stuck'
    BY <1>9 DEF RollbackFails, fileVars, Stuck, FileInv, BatchIsAtomic, InBatch
  <2> QED
    BY <2>1
<1>10. CASE Others
  <2>1. ~HasStream
    BY <1>10, <1>e DEF Others, FileInv, PendingIsWritten, InBatch
  <2>2. disk' \in Seq(Data)
    BY <1>c, ContentsAreFiles
  <2>3. File!Others
    BY <1>10, <2>1, <2>2 DEF Others, File!Others, Written, HasStream
  <2> QED
    BY <2>3 DEF File!Next
<1>11. CASE Crash
  <2>1. File!Crash
    BY <1>11 DEF Crash, File!Crash, Written, HasStream
  <2> QED
    BY <2>1 DEF File!Next
<1>12. ASSUME NEW p \in Offsets, Read(p)
       PROVE  [File!Next]_(File!vars)
  <2>1. phase = "locked" /\ ~atomic /\ p < Len(Written)
    BY <1>12 DEF Read, MayRead, Stuck
  <2>2. PageOf(Snapshot, p) = PageOf(Written, p)
    <3>1. CASE p \notin dirty
      BY <3>1, <2>1 DEF FileInv, UnmarkedIsCurrent
    <3>2. CASE stream = None
      BY <3>2, <2>1, <1>b DEF FileInv, SnapshotIsDisk, Snapshot
    <3> QED
      BY <3>1, <3>2, <2>1, <1>12 DEF Read
  <2>3. File!Read(p)
    BY <2>1, <2>2, <1>12 DEF Read, File!Read, PageOf, File!PageOf, Written, HasStream
  <2>4. p \in 0..Len(Written)
    BY <2>1, <1>f, MaxPagesAssumption DEF Offsets
  <2> QED
    BY <2>3, <2>4 DEF File!Next
<1>13. ASSUME NEW p \in Offsets, ReadDirty(p)
       PROVE  [File!Next]_(File!vars)
  <2>1. File!Read(p)
    BY <1>13 DEF ReadDirty, MayRead, Flush, File!Read, PageOf, File!PageOf, Written, HasStream
  <2>2. p \in 0..Len(Written)
    BY <1>13, <1>f, MaxPagesAssumption DEF ReadDirty, MayRead, Offsets
  <2> QED
    BY <2>1, <2>2 DEF File!Next
<1>14. ASSUME NEW p \in Offsets, ReadShort(p)
       PROVE  FALSE
  <2>1. phase = "locked" /\ ~atomic /\ p < Len(Written) /\ p >= Len(Snapshot)
    BY <1>14 DEF ReadShort, MayRead, Stuck
  <2>2. Len(Snapshot) \in Nat /\ p \in Nat
    BY <1>b, ContentsAreFiles, MaxPagesAssumption DEF Offsets
  <2>3. CASE p \notin dirty
    BY <2>1, <2>2, <2>3 DEF FileInv, UnmarkedIsCurrent
  <2>4. CASE stream = None
    BY <2>4, <2>1, <2>2, <1>b DEF FileInv, SnapshotIsDisk, Snapshot
  <2> QED
    BY <2>1, <2>3, <2>4, <1>14 DEF ReadShort
<1>15. ASSUME NEW p \in Offsets, ReadFails(p)
       PROVE  [File!Next]_(File!vars)
  <2>1. File!Fail("read")
    BY <1>15 DEF ReadFails, MayRead, CloseRejects, File!Fail, Written, HasStream
  <2> QED
    BY <2>1 DEF File!Next
<1>16. ASSUME NEW p \in Offsets, WriteFails(p)
       PROVE  [File!Next]_(File!vars)
  <2>1. phase \in {"locked", "batch"} /\ phase' = AfterFailure
    BY <1>16 DEF WriteFails, MayWrite
  <2>2. phase # "unlocked" /\ phase' # "unlocked"
        /\ ((phase \in {"batch", "failed"}) <=> (phase' \in {"batch", "failed"}))
    BY <2>1 DEF AfterFailure
  <2>3. /\ Written' \in {Written, disk} /\ disk' = disk
        /\ reply' = <<"write", "error">>
    BY <1>16 DEF WriteFails, CannotWrite, Breaks, fileVars, Written, HasStream
  <2>4. File!Fail("write")
    BY <2>2, <2>3 DEF File!Fail
  <2> QED
    BY <2>4 DEF File!Next
<1>17. ASSUME NEW p \in Offsets, NEW d \in Data, Write(p, d)
       PROVE  [File!Next]_(File!vars)
  <2>1. Put(Written, p, d) \in Contents /\ p <= Len(Written)
    BY <1>17, <1>b, PutFacts DEF Write, MayWrite
  <2>2. Written' = Put(Written, p, d)
    BY <2>1, <1>17, <1>c DEF Write, Written, HasStream
  <2>3. File!Write(p, d)
    BY <2>2, <1>17 DEF Write, MayWrite, File!Write, Put, File!Put
  <2>4. p \in 0..Len(Written)
    BY <2>1, <1>f, MaxPagesAssumption DEF Offsets
  <2> QED
    BY <2>3, <2>4 DEF File!Next
<1>18. ASSUME NEW n \in 0..MaxPages, Trunc(n)
       PROVE  [File!Next]_(File!vars)
  <2>1. Cut(Written, n) \in Contents /\ n <= Len(Written)
    BY <1>18, <1>b, CutFacts DEF Trunc, MayTruncate
  <2>2. Written' = Cut(Written, n)
    BY <2>1, <1>18, <1>c DEF Trunc, Written, HasStream
  <2>3. File!Truncate(n)
    BY <2>1, <2>2, <1>18 DEF Trunc, MayTruncate, File!Truncate, Cut, File!Cut
  <2>4. n \in 0..Len(Written)
    BY <2>1, <1>f
  <2> QED
    BY <2>3, <2>4 DEF File!Next
<1>19. ASSUME NEW n \in 0..MaxPages, TruncFails(n)
       PROVE  [File!Next]_(File!vars)
  <2>1. File!Fail("trunc")
    BY <1>19 DEF TruncFails, MayTruncate, CannotWrite, Breaks, fileVars, File!Fail, Written, HasStream
  <2> QED
    BY <2>1 DEF File!Next
<1>20. CASE UNCHANGED vars
  BY <1>20 DEF vars, fileVars, File!vars, Written, HasStream
<1> QED
  BY <1>1, <1>2, <1>3, <1>4, <1>5, <1>6, <1>7, <1>8, <1>9, <1>10, <1>11, <1>12,
     <1>13, <1>14, <1>15, <1>16, <1>17, <1>18, <1>19, <1>20 DEF Next

(* file.js, while it is not stuck in batch mode, is a durable file.        *)
THEOREM ImplementsDurableFile == Spec => WorksLikeDurableFile
<1>1. FileInv /\ [Next]_vars => [Stuck \/ Stuck' \/ File!Next]_(File!vars)
  BY DurableStep
<1> QED
  BY <1>1, DurableInit, FileInvariant, PTL DEF Spec, WorksLikeDurableFile
================================================================================
