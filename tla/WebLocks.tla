-------------------------------- MODULE WebLocks --------------------------------
(***************************************************************************)
(* The browser's lock manager (navigator.locks), as src/vfs/file.js uses   *)
(* it: one exclusive-or-shared lock whose requests are granted first in    *)
(* first out, and one exclusive lock that is only asked for ifAvailable.   *)
(* Local.open gives every file the same lock_name, so there is one of each.*)
(***************************************************************************)
EXTENDS Naturals, Sequences

CONSTANT Files

VARIABLES
  held,     \* the mode in which each file holds lock_name
  queue,    \* the requests for lock_name that are not granted yet
  res       \* which files hold lock_name-r: each File's #res_lock

lockVars == <<held, queue, res>>

Modes == {"shared", "exclusive"}
Requests == [file : Files, mode : Modes]

LocksInit ==
  /\ held = [f \in Files |-> "none"]
  /\ queue = <<>>
  /\ res = [f \in Files |-> FALSE]

Request(f, mode) == queue' = Append(queue, [file |-> f, mode |-> mode])

Release(f) == held' = [held EXCEPT ![f] = "none"]

Grantable(mode) ==
  \A f \in Files : held[f] = "none" \/ (mode = "shared" /\ held[f] = "shared")

Grant ==
  /\ queue # <<>>
  /\ Grantable(Head(queue).mode)
  /\ held' = [held EXCEPT ![Head(queue).file] = Head(queue).mode]
  /\ queue' = Tail(queue)
  /\ UNCHANGED res

ReservedAvailable == \A f \in Files : ~res[f]

(* navigator.locks.query() reports the locks of every name.                *)
SomethingHeld == \E f \in Files : held[f] # "none" \/ res[f]
===============================================================================
