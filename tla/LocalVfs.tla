------------------------------- MODULE LocalVfs -------------------------------
(***************************************************************************)
(* src/vfs/local.js and src/vfs/http.js behind the bridge of CustomVfs.    *)
(* A pathname is the sequence of its names, and a key of the object store, *)
(* which ends in a slash, that of the names before it.  Every action is    *)
(* what runs between two awaits.                                           *)
(***************************************************************************)
EXTENDS CustomVfs, Sequences

CONSTANTS Keys,         \* the mount points
          Paths,        \* the pathnames SQLite asks for
          Roots, Names, \* directories, and the names of their entries
          Handles,      \* what may be mounted: a directory or a file
          void          \* the empty name between two slashes

ASSUME LocalAssumption ==
  /\ Handles \subseteq Roots \cup Names
  /\ Roots \cap Names = {} /\ "none" \notin Roots \cup Names
  /\ Paths \subseteq Seq(Names \cup {void})

VARIABLES
  handles,      \* the object store: a directory, a file by its name, or none
  tree          \* what each directory has under each name

vars == <<bridgeVars, handles, tree>>

Init ==
  /\ BridgeInit
  /\ handles = [k \in Keys |-> "none"]
  /\ tree \in [Roots -> [Names -> {"none", "file", "directory"}]]

Mount(k, handle) ==
  /\ handles' = [handles EXCEPT ![k] = handle]
  /\ UNCHANGED <<bridgeVars, tree>>

-----------------------------------------------------------------------------
(* A file handle at key k matches the pathname `${k}/${name}`, two slashes *)
(* together: the cursor handler returns and the promise is not resolved.   *)
Exact(path) == \E k \in Keys : handles[k] \in Names /\ path = k \o <<void, handles[k]>>

(* Whether the key of the first i names is in the store with a directory.  *)
Directory(path, i) ==
  SubSeq(path, 1, i) \in Keys /\ handles[SubSeq(path, 1, i)] \in Roots

(* Mutant: the first match is kept.                                        *)
BestFirst(path) ==
  LET best[i \in -1..Len(path) - 1] ==
        IF i = -1 THEN -1
        ELSE IF Directory(path, i) /\ best[i - 1] = -1 THEN i ELSE best[i - 1]
  IN best[Len(path) - 1]

(* The cursor goes through the keys in order, so that a prefix is before   *)
(* what it is a prefix of; a match with fewer names left is better.        *)
Best(path) ==
  LET best[i \in -1..Len(path) - 1] ==
        IF i = -1 THEN -1
        ELSE IF Directory(path, i) THEN i ELSE best[i - 1]
  IN best[Len(path) - 1]

LocalCall(c, op, path, create) ==
  /\ kind[c] = "local"
  /\ op # "open" => ~create
  /\ CallAwaits(c, op, [op |-> op, at |-> "search", path |-> path, create |-> create])
  /\ UNCHANGED <<handles, tree>>

(* The caller of traverse, when it has found nothing: open throws.         *)
Misses(c) == Ends(c, call[c].op, IF call[c].op = "open" THEN "error" ELSE "good", FALSE)

(* Mutant: the cursor does not continue after any file.                    *)
MeetsAnyFile(c) ==
  /\ At(c, "search")
  /\ \E k \in Keys : handles[k] \in Names
  /\ call' = [call EXCEPT ![c].at = "stuck"]
  /\ UNCHANGED <<kind, methods, impls, live, handles, tree>>

(* The handler has returned without res() and without continue(): the      *)
(* request has no further event, whatever is mounted or fails from now on. *)
MeetsFile(c) ==
  /\ At(c, "search")
  /\ Exact(call[c].path)
  /\ call' = [call EXCEPT ![c].at = "stuck"]
  /\ UNCHANGED <<kind, methods, impls, live, handles, tree>>

Search(c) ==
  /\ At(c, "search")
  /\ LET path == call[c].path
         i == Best(path) IN
     /\ ~Exact(path)
     /\ IF i = -1 THEN Misses(c)
        ELSE /\ call' = [call EXCEPT ![c] =
                  [op |-> @.op, at |-> "descend", create |-> @.create,
                   root |-> handles[SubSeq(path, 1, i)], rest |-> SubSeq(path, i + 1, Len(path))]]
             /\ UNCHANGED <<kind, methods, impls, live>>
  /\ UNCHANGED <<handles, tree>>

(* The request fails before the cursor has got anywhere decisive.          *)
SearchFails(c) ==
  /\ At(c, "search")
  /\ Ends(c, call[c].op, "error", FALSE)
  /\ UNCHANGED <<handles, tree>>

(* A handle of a file has no getFileHandle: the traversal gives up.        *)
Found(c) == Len(call[c].rest) = 1

(* getFileHandle rejects for a directory; the right side of ?? is never    *)
(* evaluated.  With create, what is missing becomes a file in any case.    *)
Descend(c) ==
  /\ At(c, "descend")
  /\ LET r == call[c]
         name == Head(r.rest)
         entry == IF name \in Names THEN tree[r.root][name] ELSE "none"
         got == IF r.create /\ name # void THEN entry # "directory" ELSE entry = "file" IN
     /\ tree' = IF got THEN [tree EXCEPT ![r.root][name] = "file"] ELSE tree
     /\ IF ~(got /\ Found(c)) THEN Misses(c)
        ELSE IF r.op = "delete"
        THEN /\ call' = [call EXCEPT ![c].at = "remove"]
             /\ UNCHANGED <<kind, methods, impls, live>>
        ELSE Ends(c, r.op, "good", FALSE)
  /\ UNCHANGED handles

(* handle.remove(), which rejects when somebody else has removed it.       *)
RemoveEntry(c) ==
  /\ At(c, "remove")
  /\ LET r == call[c]
         name == Head(r.rest) IN
     \/ /\ tree[r.root][name] = "file"
        /\ tree' = [tree EXCEPT ![r.root][name] = "none"]
        /\ Ends(c, "delete", "good", FALSE)
     \/ /\ Ends(c, "delete", "error", FALSE)
        /\ UNCHANGED tree
  /\ UNCHANGED handles

-----------------------------------------------------------------------------
(* http.js: open and read fetch; delete throws, access gives false, the    *)
(* other methods of a file that SQLite may call do not exist.              *)
HttpCall(c, op) ==
  /\ kind[c] = "http"
  /\ \/ op \in {"open", "read"} /\ CallAwaits(c, op, Pending(op))
     \/ op \in {"close", "read", "access"} /\ CallReturns(c, op, "good")
     \/ op \in {"write", "delete"} /\ CallReturns(c, op, "error")
  /\ UNCHANGED <<handles, tree>>

(* A VFS of a user does anything, and so does the File of a local file,    *)
(* except that its values are always right.                                *)
UserCall(c, op) ==
  /\ kind[c] = "user" \/ (kind[c] = "local" /\ op \in FileOps)
  /\ \/ \E result \in Results(c, op) : CallReturns(c, op, result)
     \/ CallAwaits(c, op, Pending(op))
  /\ UNCHANGED <<handles, tree>>

UserSettles(c) ==
  /\ At(c, "method")
  /\ \E result \in Results(c, call[c].op) : MethodSettles(c, result)
  /\ UNCHANGED <<handles, tree>>

(* What ends one of the awaits of a call; none of these is possible when   *)
(* it is stuck.                                                            *)
Settle(c) ==
  \/ MeetsFile(c) \/ Search(c) \/ SearchFails(c)
  \/ Descend(c) \/ RemoveEntry(c) \/ UserSettles(c)

Next ==
  \/ \E k \in Keys, handle \in Handles : Mount(k, handle)
  \/ \E c \in Conns, op \in VfsOps, path \in Paths, create \in BOOLEAN :
       LocalCall(c, op, path, create)
  \/ \E c \in Conns, op \in VfsOps \cup FileOps : HttpCall(c, op) \/ UserCall(c, op)
  \/ \E c \in Conns : Settle(c)

(* The promises of the browser and of the VFSs settle.                     *)
Spec == Init /\ [][Next]_vars /\ \A c \in Conns : WF_vars(Settle(c))

-----------------------------------------------------------------------------
TypeOK ==
  /\ BridgeTypeOK
  /\ handles \in [Keys -> Handles \cup {"none"}]
  /\ tree \in [Roots -> [Names -> {"none", "file", "directory"}]]

(* What a suspended call remembers of its pathname.                        *)
CallTyped ==
  call \in [Conns ->
     {Idle, Torn}
     \cup [op : VfsOps \cup FileOps, at : {"method"}]
     \cup [op : VfsOps, at : {"search", "stuck"}, path : Paths, create : BOOLEAN]
     \cup [op : VfsOps, at : {"descend"}, create : BOOLEAN,
           root : Roots, rest : Seq(Names \cup {void})]
     \cup [op : {"delete"}, at : {"remove"}, create : BOOLEAN,
           root : Roots, rest : Seq(Names \cup {void})]]

(* The inductive invariant of the proofs.                                  *)
VfsInv == TypeOK /\ CallTyped /\ SuspendedMatch

(* What a step may do with a traversal.                                    *)
ResolvesStep(c) ==
  /\ At(c, "search") /\ At(c, "descend")' =>
       LET path == call[c].path
           i == Len(path) - Len(call'[c].rest) IN
       /\ handles[SubSeq(path, 1, i)] = call'[c].root
       /\ \A j \in (i + 1)..(Len(path) - 1) : ~Directory(path, j)
  /\ At(c, "descend") /\ Len(call[c].rest) > 1 =>
       ~(live'[c] > live[c]) /\ ~At(c, "remove")'

(* local.js:45-104: whatever else is mounted, a pathname is looked up in   *)
(* the directory whose mount point is the longest prefix of it; and no     *)
(* file on the way down is opened or removed in the place of the last one. *)
ResolvesRight == [][\A c \in Conns : ResolvesStep(c)]_vars

(* local.js:13 and 73, "Traversing into sub-handles through those         *)
(* FileSystemDirectoryHandles", "until we find (or create) the file": a    *)
(* traversal that has names left goes on below a directory it meets, and   *)
(* where nothing is and it may create, what it makes is that directory.    *)
SubHandlesTraversed ==
  [][\A c \in Conns :
       At(c, "descend") /\ call'[c] # call[c] /\ Len(call[c].rest) > 1 =>
         LET r == call[c]
             name == Head(r.rest) IN
         name \in Names
         /\ (tree[r.root][name] = "directory" \/ (r.create /\ tree[r.root][name] = "none"))
         => At(c, "descend")' /\ tree'[r.root][name] = "directory"]_vars

(* local.js:35 and custom.js:103-132: a call of SQLite returns, unless its *)
(* handler has thrown after a promise, or its search has met a file that   *)
(* is mounted at exactly its pathname.  A call that is stuck has searched  *)
(* before: one that gets stuck in any other way violates this.             *)
CallsEnd ==
  \A c \in Conns :
    call[c] \notin {Idle, Torn} /\ ~At(c, "stuck")
      ~> call[c] \in {Idle, Torn} \/ (At(c, "stuck") /\ Exact(call[c].path))
===============================================================================
