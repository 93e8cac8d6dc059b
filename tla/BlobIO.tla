-------------------------------- MODULE BlobIO --------------------------------
(***************************************************************************)
(* src/func/blob_io.js: an asynchronous function that copies a stream into *)
(* a blob of the database or a region of a blob into a stream.  The calls  *)
(* of it compete with each other for the streams and with the statements   *)
(* that call other functions (ScalarFunctions) for the Pointers.  Every    *)
(* action is what runs between two awaits.                                 *)
(***************************************************************************)
EXTENDS ScalarFunctions, BorrowMem

CONSTANTS BlobCalls,    \* the statements that call blob_io
          Readable,     \* the StreamHandles of a ReadableStream: the others write
          BlobSize,     \* the bytes of each blob
          StreamSize,   \* the bytes of each stream
          BufferSizes,  \* of StreamHandle.buffer_size
          MaxOffset     \* of the arguments offset and length

ASSUME BlobAssumption ==
  /\ BlobCalls \subseteq Stmts /\ Readable \subseteq Ptrs
  /\ {BlobSize, StreamSize, MaxOffset} \subseteq Nat
  /\ BufferSizes \subseteq Nat \ {0}

VARIABLES
  locked,       \* the streams that have a reader or a writer
  taken,        \* the bytes read from each stream
  io,           \* the call of each statement
  borrowed,     \* the arguments each call has borrowed memory for
  reading       \* whether sqlite3_blob_read runs: an "orphan" does, and nobody
                \* waits for it since the writer has rejected

blobVars == <<locked, taken, io, borrowed, reading>>
vars == <<stmtVars, valueVars, blobVars>>

At(s, place) == s \in BlobCalls /\ io[s].at = place

Init ==
  /\ FunctionsInit
  /\ locked = {}
  /\ taken = [p \in Ptrs |-> 0]
  /\ io = [s \in BlobCalls |-> [at |-> "none"]]
  /\ borrowed = [s \in BlobCalls |-> <<>>]
  /\ reading = [s \in BlobCalls |-> "no"]

Io(s, r) == io' = [io EXCEPT ![s] = r]
Reading(s, how) == reading' = [reading EXCEPT ![s] = how]
Closing(r, v) == [r EXCEPT !.at = "closing", !.ret = v]
Outside == UNCHANGED <<stmtVars, valueVars, borrowed>>

-----------------------------------------------------------------------------
(* handle_ptr, the buffer, table_name, column_name; 'main' is leaked.      *)
BlobArgs(size) == <<4, size, 2, 2, 0>>
Size(s) == borrowed[s][2]

(* What throws before there is a promise.                                  *)
BlobCallThrows(s) ==
  /\ s \in BlobCalls /\ pc[s] = "ready"
  /\ IF ToJs(param[s]) \notin Ptrs
     THEN Answer(s, "error", Unguarded("error"))
     ELSE scarce /\ Answer(s, "error", "failed")
  /\ UNCHANGED blobVars

BlobCall(s, size, offset, length) ==
  /\ s \in BlobCalls /\ pc[s] = "ready"
  /\ ToJs(param[s]) \in Ptrs /\ ~scarce
  /\ Goto(s, "awaiting")
  /\ borrowed' = [borrowed EXCEPT ![s] = BlobArgs(size)]
  /\ Io(s, [at |-> "opening", stream |-> param[s], ret |-> "plain",
            first |-> offset, offset |-> offset,
            end |-> IF length < 0 THEN BlobSize ELSE offset + length,
            room |-> size, chunk |-> <<>>, start |-> 0, copied |-> <<>>])
  /\ UNCHANGED <<param, out, valueVars, locked, taken, reading>>

More(r) == r.offset < r.end

(* The head of the loops: read the next chunk, of the stream or of the     *)
(* blob, or leave.  Only a reader is ever released, and only here.         *)
Loops(s, r) ==
  IF r.stream \in Readable
  THEN /\ Io(s, IF More(r) THEN [r EXCEPT !.at = "reading"] ELSE Closing(r, "plain"))
       /\ locked' = IF More(r) THEN locked \cup {r.stream} ELSE locked \ {r.stream}
       /\ UNCHANGED reading
  ELSE /\ Io(s, [r EXCEPT !.at = IF More(r) THEN "filling" ELSE "finishing"])
       /\ locked' = locked \cup {r.stream}
       /\ Reading(s, IF More(r) THEN "yes" ELSE reading[s])

Fails(s) ==
  /\ Io(s, Closing(io[s], "error"))
  /\ UNCHANGED <<locked, reading>>

(* sqlite3_blob_open, then getReader or getWriter.                         *)
BlobOpens(s) ==
  /\ At(s, "opening")
  /\ LET r == io[s] IN
     \/ Fails(s)
     \/ /\ r.stream \notin locked
        /\ Loops(s, [r EXCEPT !.start = taken[r.stream],
                              !.copied = IF r.stream \in Readable
                                         THEN [i \in 1..BlobSize |-> 0] ELSE <<>>])
  /\ UNCHANGED taken /\ Outside

-----------------------------------------------------------------------------
(***************************************************************************)
(* A ReadableStream.  The view that comes back is as long as the chunk,    *)
(* and it is the room for the next one; it is empty when the stream ends.  *)
(***************************************************************************)
StreamReads(s) ==
  /\ At(s, "reading")
  /\ LET r == io[s]
         before == taken[r.stream] IN
     \E n \in 0..r.room :
       /\ before + n <= StreamSize
       /\ Io(s, [r EXCEPT !.at = "writing", !.room = n,
                          !.chunk = [i \in 1..n |-> before + i]])
       /\ taken' = [taken EXCEPT ![r.stream] = before + n]
  /\ UNCHANGED <<locked, reading>> /\ Outside

(* Mutant: offset is advanced by the length of the buffer.                 *)
AdvancedByBuffer(s, r) ==
  [r EXCEPT !.offset = @ + Size(s),
            !.copied = [i \in DOMAIN @ |->
              IF i - r.offset \in DOMAIN r.chunk THEN r.chunk[i - r.offset] ELSE @[i]]]

(* After sqlite3_blob_write.                                               *)
Advanced(s, r) ==
  [r EXCEPT !.offset = @ + Len(r.chunk),
            !.copied = [i \in DOMAIN @ |->
              IF i - r.offset \in DOMAIN r.chunk THEN r.chunk[i - r.offset] ELSE @[i]]]

BlobWrites(s) ==
  /\ At(s, "writing")
  /\ LET r == io[s] IN
     /\ r.offset + Len(r.chunk) <= BlobSize
     /\ IF r.chunk = <<>>
        THEN Io(s, Closing(r, "plain")) /\ UNCHANGED <<locked, reading>>
        ELSE Loops(s, Advanced(s, r))
  /\ UNCHANGED taken /\ Outside

(* Mutant: the Error is not thrown again.                                  *)
BlobRefusesAndGoesOn(s) ==
  /\ At(s, "writing")
  /\ Loops(s, io[s])
  /\ UNCHANGED taken /\ Outside

(* SQLite refuses what does not fit, or the blob has expired.              *)
BlobRefuses(s) ==
  /\ At(s, "writing")
  /\ Io(s, [io[s] EXCEPT !.at = "cancelling"])
  /\ UNCHANGED <<locked, taken, reading>> /\ Outside

-----------------------------------------------------------------------------
(***************************************************************************)
(* A WritableStream.  Promise.all is done when the writer is ready and the *)
(* chunk has been read, and rejects as soon as one of the two rejects.     *)
(***************************************************************************)
ChunkLen(s) ==
  IF Size(s) < io[s].end - io[s].offset THEN Size(s) ELSE io[s].end - io[s].offset

(* The rest of the chunk is that of the last one when SQLite refuses.      *)
BlobReads(s) ==
  /\ s \in BlobCalls /\ reading[s] # "no"
  /\ Reading(s, "no")
  /\ UNCHANGED <<locked, taken, io>> /\ Outside

(* Mutant: Promise.race.                                                   *)
WriterIsReadyFirst(s) ==
  /\ At(s, "filling")
  /\ LET r == io[s] IN
     \/ /\ r.offset + ChunkLen(s) <= BlobSize
        /\ Io(s, [r EXCEPT !.at = "draining",
                           !.chunk = [i \in 1..ChunkLen(s) |-> r.offset + i]])
     \/ Io(s, [r EXCEPT !.at = "cancelling"])
  /\ UNCHANGED <<locked, taken, reading>> /\ Outside

WriterIsReady(s) ==
  /\ At(s, "filling")
  /\ reading[s] = "no"
  /\ LET r == io[s] IN
     \/ /\ r.offset + ChunkLen(s) <= BlobSize
        /\ Io(s, [r EXCEPT !.at = "draining",
                           !.chunk = [i \in 1..ChunkLen(s) |-> r.offset + i]])
     \/ Io(s, [r EXCEPT !.at = "cancelling"])
  /\ UNCHANGED <<locked, taken, reading>> /\ Outside

WriterRejects(s) ==
  /\ At(s, "filling")
  /\ Io(s, Closing(io[s], "error"))
  /\ Reading(s, IF reading[s] = "yes" THEN "orphan" ELSE reading[s])
  /\ UNCHANGED <<locked, taken>> /\ Outside

StreamWrites(s) ==
  /\ At(s, "draining")
  /\ LET r == io[s] IN
     Loops(s, [r EXCEPT !.offset = @ + Len(r.chunk), !.copied = @ \o r.chunk])
  /\ UNCHANGED taken /\ Outside

StreamCloses(s) ==
  /\ At(s, "finishing")
  /\ Io(s, Closing(io[s], "plain"))
  /\ UNCHANGED <<locked, taken, reading>> /\ Outside

-----------------------------------------------------------------------------
(* The stream rejects, or it has been cancelled or aborted.                *)
StreamFails(s) ==
  /\ s \in BlobCalls /\ io[s].at \in {"reading", "draining", "finishing", "cancelling"}
  /\ Fails(s)
  /\ UNCHANGED taken /\ Outside

(* Mutant: ret.then(release), which a rejection does not call.             *)
FreedOnSuccess(s) ==
  borrowed' = IF io[s].ret = "plain" THEN [borrowed EXCEPT ![s] = <<>>] ELSE borrowed

Freed(s) == borrowed' = [borrowed EXCEPT ![s] = <<>>]

(* sqlite3_blob_close, whose result nobody looks at; then the memory is    *)
(* freed and [Resultable] gets the number of bytes or the Error.           *)
BlobCloses(s) ==
  /\ At(s, "closing")
  /\ Io(s, [at |-> "none"])
  /\ Freed(s)
  /\ PromiseSettles(s, io[s].ret)
  /\ UNCHANGED <<locked, taken, reading>>

BlobStep(s) ==
  \/ BlobOpens(s) \/ StreamReads(s) \/ BlobWrites(s) \/ BlobRefuses(s)
  \/ BlobReads(s) \/ WriterIsReady(s) \/ WriterRejects(s)
  \/ StreamWrites(s) \/ StreamCloses(s) \/ StreamFails(s) \/ BlobCloses(s)

Args == {<<size, offset, length>> : size \in BufferSizes,
                                    offset \in 0..MaxOffset, length \in -1..MaxOffset}

Next ==
  \/ \E s \in Stmts, v \in Values : Bind(s, v) /\ UNCHANGED blobVars
  \/ \E s \in Stmts : (Clear(s) \/ Reset(s) \/ Finalize(s)) /\ UNCHANGED blobVars
  \/ \E p \in Ptrs : BindToNothing(p) /\ UNCHANGED blobVars
  \/ \E s \in Stmts \ BlobCalls, v \in Values :
       (CallReturns(s, v) \/ CallThrows(s, v) \/ PromiseSettles(s, v)) /\ UNCHANGED blobVars
  \/ \E s \in Stmts \ BlobCalls : CallAwaits(s) /\ UNCHANGED blobVars
  \/ \E s \in BlobCalls, a \in Args : BlobCall(s, a[1], a[2], a[3])
  \/ \E s \in BlobCalls : BlobCallThrows(s) \/ BlobStep(s)
  \/ MemoryChanges /\ UNCHANGED <<stmtVars, blobVars>>

(* SQLite and the streams answer; nobody has to call anything.             *)
Spec == Init /\ [][Next]_vars /\ \A s \in BlobCalls : WF_vars(BlobStep(s))

-----------------------------------------------------------------------------
(* The calls, and the buffer that each of them has, are what they can be.  *)
TypeOK ==
  /\ FunctionsTypeOK
  /\ locked \subseteq Ptrs
  /\ \A p \in Ptrs : taken[p] \in 0..StreamSize
  /\ \A s \in BlobCalls :
       /\ io[s].at = "none" <=> pc[s] # "awaiting"
       /\ io[s].at = "none" <=> borrowed[s] = <<>>
       /\ reading[s] \in {"no", "yes", "orphan"}

(* What has been copied when offset has got where it is.                   *)
Region(r) ==
  LET n == r.offset - r.first IN
  IF r.stream \in Readable
  THEN [i \in 1..BlobSize |->
          IF i - r.first \in 1..n THEN r.start + i - r.first ELSE 0]
  ELSE [i \in 1..n |-> r.first + i]

(* blob_io.js:61-78: at every await the region of the blob that offset has *)
(* passed holds the next bytes of the stream in their order, and the rest  *)
(* is as it was; or the stream has been given that region, once.  The last *)
(* chunk is not cut to the end of the region: it passes the end by less    *)
(* than the buffer, however the stream cuts it.                            *)
CopiedInOrder ==
  \A s \in BlobCalls :
    LET r == io[s] IN
    io[s].at \notin {"none", "opening"} /\ r.copied # <<>> =>
      /\ r.copied = Region(r)
      /\ \/ r.offset = r.first
         \/ r.offset < r.end + (IF r.stream \in Readable THEN Size(s) ELSE 1)

(* blob_io.js:66-94, memory.js:149-154: the chunk that goes into or out of *)
(* the buffer is never longer than its Span, which lies apart from what    *)
(* else is borrowed; and the writer, when it is ready, is not given the    *)
(* buffer before SQLite has filled it.                                     *)
ChunkFitsBuffer ==
  \A s \in BlobCalls :
    /\ reading[s] = "yes" => io[s].at = "filling" /\ ChunkLen(s) <= Size(s)
    /\ io[s].at \in {"writing", "draining"} => Len(io[s].chunk) <= Size(s)
    /\ Apart(borrowed[s])

(* blob_io.js:86, "Wait for the writer to be ready and for SQLite to fill  *)
(* the WASM side buffer": as long as sqlite3_blob_read runs, the buffer it *)
(* fills is borrowed.  It is not when the writer rejects first, which is   *)
(* what makes a read an orphan: no invariant of this module, and a theorem *)
(* of FunctionsProofs only for the behaviours without that.                *)
BufferBorrowed == \A s \in BlobCalls : reading[s] # "no" => borrowed[s] # <<>>

-----------------------------------------------------------------------------
(* The inductive invariant of the proofs.                                  *)
Awaits == {"opening", "reading", "writing", "filling", "draining", "finishing",
           "cancelling", "closing"}

IoCalls ==
  [at : Awaits, stream : Ptrs, ret : {"plain", "error"}, first : Nat, offset : Nat,
   end : Nat, room : Nat, chunk : Seq(Nat), start : Nat, copied : Seq(Nat)]

IoTyped ==
  /\ io \in [BlobCalls -> {[at |-> "none"]} \cup IoCalls]
  /\ borrowed \in [BlobCalls -> {<<>>} \cup {BlobArgs(size) : size \in BufferSizes}]
  /\ reading \in [BlobCalls -> {"no", "yes", "orphan"}]
  /\ taken \in [Ptrs -> 0..StreamSize]

(* Where a call is in its region.                                          *)
InPlace(r, size) ==
  LET len == Len(r.chunk) IN
  /\ r.room <= size /\ r.first <= r.offset
  /\ \/ r.offset = r.first
     \/ r.offset < r.end + (IF r.stream \in Readable THEN size ELSE 1)
  /\ r.copied \in {<<>>, Region(r)}
  /\ r.at = "opening" => r.offset = r.first
  /\ r.at \in {"reading", "writing"} => r.stream \in Readable
  /\ r.at \in {"filling", "draining"} => r.stream \notin Readable
  /\ r.at \in {"reading", "writing", "filling", "draining"} =>
       r.offset < r.end /\ r.copied = Region(r)
  /\ r.at = "writing" =>
       len <= size /\ r.chunk = [i \in 1..len |-> r.start + r.offset - r.first + i]
  /\ r.at = "draining" =>
       /\ len <= size /\ len <= r.end - r.offset
       /\ r.chunk = [i \in 1..len |-> r.offset + i]

(* Where it is in its stream.                                              *)
Progress(s) ==
  LET r == io[s] IN
  /\ reading[s] = "yes" => r.at = "filling"
  /\ r.at # "none" => InPlace(r, Size(s))
  /\ r.at \in {"reading", "writing"} =>
       /\ r.stream \in locked
       /\ taken[r.stream] =
            r.start + r.offset - r.first + IF r.at = "writing" THEN Len(r.chunk) ELSE 0

(* A stream that is read has one reader.                                   *)
OneReader ==
  \A s, t \in BlobCalls :
    s # t /\ {io[s].at, io[t].at} \subseteq {"reading", "writing"} =>
      io[s].stream # io[t].stream

BlobInv ==
  /\ TypeOK /\ IoTyped /\ OneReader /\ CellsInv
  /\ \A s \in BlobCalls : Progress(s)

(* blob_io.js:61-105: a call of blob_io ends, whatever the stream and      *)
(* SQLite answer, provided that they do.                                   *)
BlobIOEnds == \A s \in BlobCalls : pc[s] = "awaiting" ~> pc[s] # "awaiting"
===============================================================================
