------------------------------ MODULE DurableFile ------------------------------
(***************************************************************************)
(* What SQLite needs of the file of a database (vendor/sqlite3.h, the      *)
(* methods of sqlite3_io_methods and the file controls for batch-atomic    *)
(* writes): a read answers what was written last; sync, and the commit of  *)
(* a batch, make it durable; a batch that is rolled back leaves no trace;  *)
(* what others find, and what is left after a crash, is durable content.   *)
(***************************************************************************)
EXTENDS Pages

CONSTANTS Data        \* what a page can hold

VARIABLES
  content,    \* the file as SQLite has written it
  durable,    \* the file as others see it
  locked,     \* SQLite has a lock, and others do not write
  batch,      \* between BEGIN_ATOMIC_WRITE and its COMMIT or ROLLBACK
  reply       \* the last call, and what it returned

vars == <<content, durable, locked, batch, reply>>

Init ==
  /\ durable \in Seq(Data)
  /\ content = durable
  /\ ~locked
  /\ ~batch
  /\ reply = <<"open", "ok">>

Lock ==
  /\ ~locked
  /\ locked' = TRUE
  /\ reply' = <<"lock", "ok">>
  /\ UNCHANGED <<content, durable, batch>>

Write(p, d) ==
  /\ locked
  /\ content' = Put(content, p, d)
  /\ reply' = <<"write", "ok">>
  /\ UNCHANGED <<durable, locked, batch>>

Truncate(n) ==
  /\ locked /\ ~batch
  /\ n <= Len(content)
  /\ content' = Cut(content, n)
  /\ reply' = <<"trunc", "ok">>
  /\ UNCHANGED <<durable, locked, batch>>

(* A file may become durable earlier than SQLite asks for.                 *)
Read(p) ==
  /\ locked /\ ~batch
  /\ p < Len(content)
  /\ durable' \in {durable, content}
  /\ reply' = <<"read", PageOf(content, p)>>
  /\ UNCHANGED <<content, locked, batch>>

Sync ==
  /\ locked /\ ~batch
  /\ durable' = content
  /\ reply' = <<"sync", "ok">>
  /\ UNCHANGED <<content, locked, batch>>

Begin ==
  /\ locked /\ ~batch
  /\ content = durable
  /\ batch' = TRUE
  /\ reply' = <<"begin", "ok">>
  /\ UNCHANGED <<content, durable, locked>>

Commit ==
  /\ batch
  /\ durable' = content
  /\ batch' = FALSE
  /\ reply' = <<"commit", "ok">>
  /\ UNCHANGED <<content, locked>>

Rollback ==
  /\ batch
  /\ content' = durable
  /\ batch' = FALSE
  /\ reply' = <<"rollback", "ok">>
  /\ UNCHANGED <<durable, locked>>

(* A call that fails may lose whatever is not durable.                     *)
Fail(call) ==
  /\ locked
  /\ content' \in {content, durable}
  /\ reply' = <<call, "error">>
  /\ UNCHANGED <<durable, locked, batch>>

Unlock ==
  /\ locked /\ ~batch
  /\ content = durable
  /\ locked' = FALSE
  /\ reply' = <<"unlock", "ok">>
  /\ UNCHANGED <<content, durable, batch>>

Others ==
  /\ ~locked
  /\ durable' \in Seq(Data)
  /\ content' = durable'
  /\ UNCHANGED <<locked, batch, reply>>

Crash ==
  /\ content' = durable
  /\ locked' = FALSE
  /\ batch' = FALSE
  /\ reply' = <<"open", "ok">>
  /\ UNCHANGED durable

Next ==
  \/ Lock \/ Unlock \/ Sync \/ Begin \/ Commit \/ Rollback \/ Others \/ Crash
  \/ \E p \in 0..Len(content) : Read(p) \/ Truncate(p) \/ \E d \in Data : Write(p, d)
  \/ \E call \in {"read", "write", "trunc", "sync", "commit"} : Fail(call)

Spec == Init /\ [][Next]_vars
================================================================================
