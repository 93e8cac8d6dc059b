------------------------------ MODULE CustomVfs -------------------------------
(***************************************************************************)
(* src/vfs/custom.js and xOpen of c_src/main.c: SQLite calls a VFS that is *)
(* written in JavaScript, and the files that it opens.  Each connection    *)
(* has one sqlite3_file here and makes one call at a time; the calls of    *)
(* different connections are suspended and resumed in any order.           *)
(***************************************************************************)
EXTENDS Integers

CONSTANT Conns

VARIABLES
  kind,         \* the VFS of each connection: local, http, or of a user
  methods,      \* whether pMethods is set: SQLite calls a file only then
  impls,        \* file_impls: "none", a "file", or an entry for "undefined"
  live,         \* the File objects that open gave and nothing has closed
  call          \* the call each connection is suspended in

bridgeVars == <<kind, methods, impls, live, call>>

Idle == [op |-> "none"]
Torn == [op |-> "torn"]
Pending(op) == [op |-> op, at |-> "method"]
At(c, place) == call[c].op \notin {"none", "torn"} /\ call[c].at = place

(* The methods, by what their handlers do: "read" also stands for size and *)
(* check_reserved_lock, "write" for lock, unlock, trunc, sync and control. *)
FileOps == {"close", "read", "write"}
VfsOps == {"open", "delete", "access"}

(* A handler throws on a value it cannot take; the others take any value.  *)
Results(c, op) ==
  {"good", "error"} \cup
  IF kind[c] = "user" /\ op \in {"open", "read", "access"} THEN {"bad"} ELSE {}

BridgeInit ==
  /\ kind \in [Conns -> {"local", "http", "user"}]
  /\ methods = [c \in Conns |-> FALSE]
  /\ impls = [c \in Conns |-> "none"]
  /\ live = [c \in Conns |-> 0]
  /\ call = [c \in Conns |-> Idle]

-----------------------------------------------------------------------------
(* Only what is thrown at once is caught; after then(suc, err) nothing is. *)
Tears(result, sync) == result = "bad" /\ ~sync

(* Mutant: xClose keeps the entry when close fails.                        *)
EntryKeptOnError(c, op, result) ==
  CASE op = "open" /\ result = "good" -> "file"
    [] op = "open" /\ result = "bad" -> "undefined"
    [] op = "close" /\ result = "good" -> "none"
    [] OTHER -> impls[c]

(* xOpen sets the entry before it looks at file.flags.                     *)
Entry(c, op, result) ==
  CASE op = "open" /\ result = "good" -> "file"
    [] op = "open" /\ result = "bad" -> "undefined"
    [] op = "close" -> "none"
    [] OTHER -> impls[c]

(* xOpen in C has set pMethods; the error handler of vfs_boiler clears it, *)
(* and SQLite does when a file is closed.                                  *)
Methods(c, op, result, sync) ==
  CASE op = "open" -> result = "good" \/ Tears(result, sync)
    [] op = "close" -> FALSE
    [] OTHER -> methods[c]

(* Mutant: the handlers of xClose close the file.                          *)
LiveClosedAgain(c, op, result, sync) ==
  CASE op = "open" /\ result = "good" -> live[c] + 1
    [] op = "close" /\ impls[c] = "file" -> live[c] - 1
    [] OTHER -> live[c]

(* A call of close that has given a promise has closed the file already.   *)
Live(c, op, result, sync) ==
  CASE op = "open" /\ result = "good" -> live[c] + 1
    [] op = "close" /\ sync /\ impls[c] = "file" -> live[c] - 1
    [] OTHER -> live[c]

(* The handlers of vfs_boiler and file_boiler, and their return to SQLite. *)
Ends(c, op, result, sync) ==
  /\ impls' = [impls EXCEPT ![c] = Entry(c, op, result)]
  /\ methods' = [methods EXCEPT ![c] = Methods(c, op, result, sync)]
  /\ live' = [live EXCEPT ![c] = Live(c, op, result, sync)]
  /\ call' = [call EXCEPT ![c] = IF Tears(result, sync) THEN Torn ELSE Idle]
  /\ UNCHANGED kind

(* What SQLite may call: a file is open, or it is not and can be opened.   *)
Callable(c, op) ==
  /\ call[c] = Idle
  /\ IF op \in FileOps THEN methods[c] ELSE op = "open" => ~methods[c]

(* file_boiler without a file is an error.                                 *)
CallReturns(c, op, result) ==
  /\ Callable(c, op)
  /\ op \in FileOps /\ impls[c] # "file" => result = "error"
  /\ Ends(c, op, result, TRUE)

CallAwaits(c, op, how) ==
  /\ Callable(c, op)
  /\ op \in FileOps => impls[c] = "file"
  /\ call' = [call EXCEPT ![c] = how]
  /\ live' = [live EXCEPT ![c] = IF op = "close" THEN @ - 1 ELSE @]
  /\ methods' = [methods EXCEPT ![c] = @ \/ op = "open"]
  /\ UNCHANGED <<kind, impls>>

MethodSettles(c, result) ==
  /\ At(c, "method")
  /\ Ends(c, call[c].op, result, FALSE)

-----------------------------------------------------------------------------
BridgeTypeOK ==
  /\ methods \in [Conns -> BOOLEAN]
  /\ impls \in [Conns -> {"none", "file", "undefined"}]
  /\ live \in [Conns -> 0..1]

(* custom.js:23: while SQLite is not in a call, what it takes for an open  *)
(* file is a File of file_impls that has not been closed, and every other  *)
(* File has been closed, once (sqlite3.h:744: a failed xOpen included).    *)
FileImplsMatch ==
  \A c \in Conns :
    call[c] = Idle => /\ methods[c] <=> impls[c] = "file"
                      /\ live[c] = IF methods[c] THEN 1 ELSE 0

(* The same while a call is suspended: what vfs_boiler and file_boiler have*)
(* done before they await.  After a throw nobody listens to, SQLite waits  *)
(* for ever and nothing is left to match.                                  *)
SuspendedMatch ==
  \A c \in Conns :
    /\ call[c].op = "open" => methods[c] /\ impls[c] # "file" /\ live[c] = 0
    /\ call[c].op = "close" => methods[c] /\ impls[c] = "file" /\ live[c] = 0
    /\ call[c].op \in {"read", "write"} => methods[c] /\ impls[c] = "file" /\ live[c] = 1
    /\ call[c].op \in {"none", "delete", "access"} =>
         /\ methods[c] <=> impls[c] = "file"
         /\ live[c] = IF methods[c] THEN 1 ELSE 0
===============================================================================
