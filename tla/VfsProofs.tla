------------------------------- MODULE VfsProofs -------------------------------
(***************************************************************************)
(* What holds of src/vfs/custom.js, local.js and http.js for every set of  *)
(* connections, mount points, pathnames and trees of files.                *)
(***************************************************************************)
EXTENDS LocalVfs, ArrayLemmas

-----------------------------------------------------------------------------
(* The cursor of traverse goes through the mount points and keeps the last *)
(* that matches.                                                           *)

(* The last index in D up to i.                                            *)
LEMMA LastUpTo ==
  ASSUME NEW D \in SUBSET Int, NEW i \in Int, \E j \in D : j <= i
  PROVE  \E j \in D : j <= i /\ \A k \in D : k <= i => k <= j
<1>1. \A j \in D : j \in Int
  OBVIOUS
<1> DEFINE T == {i - j : j \in {j \in D : j <= i}}
<1>2. T \in SUBSET Nat
  <2>1. ASSUME NEW j \in D, j <= i PROVE i - j \in Nat
    <3>1. j \in Int
      BY <1>1
    <3> QED
      BY ONLY <2>1, <3>1, i \in Int
  <2> QED
    BY <2>1
<1>3. T # {}
  OBVIOUS
<1>4. PICK m \in T : \A k \in T : m <= k
  <2> HIDE DEF T
  <2> QED
    BY <1>2, <1>3, NatMin
<1>5. PICK j \in D : j <= i /\ m = i - j
  BY <1>4
<1>6. ASSUME NEW k \in D, k <= i PROVE k <= j
  <2>1. i - k \in T
    BY <1>6
  <2>2. i - j <= i - k
    BY <1>4, <1>5, <2>1
  <2>3. k \in Int /\ j \in Int
    BY <1>1
  <2> QED
    BY <2>2, <2>3
<1> QED
  BY <1>5, <1>6

(* A cursor that keeps the last match has, at its end, the last match.     *)
LEMMA LastMatchExists ==
  ASSUME NEW n \in Nat, NEW D \in SUBSET (0..n-1)
  PROVE  \E f : f = [i \in -1..n-1 |-> IF i = -1 THEN -1
                                       ELSE IF i \in D THEN i ELSE f[i-1]]
<1>1. D \in SUBSET Int
  OBVIOUS
<1>2. \A i \in Int : (\E j \in D : j <= i) =>
        \E j \in D : j <= i /\ \A k \in D : k <= i => k <= j
  BY <1>1, LastUpTo
<1> DEFINE Some(i) == \E j \in D : j <= i
           Is(i, j) == j \in D /\ j <= i /\ \A k \in D : k <= i => k <= j
           g == [i \in -1..n-1 |-> IF Some(i) THEN CHOOSE j \in D : Is(i, j) ELSE -1]
<1>3. \A j \in D : j \in Int /\ 0 <= j
  OBVIOUS
<1>4. ASSUME NEW i \in -1..n-1, Some(i) PROVE Is(i, g[i])
  <2>1. \E j \in D : Is(i, j)
    <3>1. i \in Int
      OBVIOUS
    <3>2. \E j \in D : j <= i
      BY <1>4
    <3>3. \E j \in D : j <= i /\ \A k \in D : k <= i => k <= j
      BY <1>2, <3>1, <3>2
    <3> QED
      BY <3>3
  <2> HIDE DEF Is
  <2> QED
    BY <1>4, <2>1
<1>5. \A i \in -1..n-1 : ~Some(i) => g[i] = -1
  OBVIOUS
<1>6. ASSUME NEW i \in -1..n-1
      PROVE  g[i] = IF i = -1 THEN -1 ELSE IF i \in D THEN i ELSE g[i-1]
  <2> HIDE DEF g
  <2>1. CASE i = -1
    <3>1. ~Some(i)
      BY <1>3, <2>1
    <3> QED
      BY <1>5, <2>1, <3>1
  <2>2. CASE i # -1 /\ i \in D
    <3>1. i \in Int
      BY <1>3, <2>2
    <3>2. Some(i)
      BY <2>2, <3>1
    <3>3. Is(i, g[i])
      BY <1>4, <3>2
    <3>4. g[i] \in D /\ g[i] <= i /\ i <= g[i]
      BY <2>2, <3>1, <3>3
    <3>5. g[i] \in Int
      BY <1>3, <3>4
    <3> QED
      BY <2>2, <3>1, <3>4, <3>5
  <2>3. CASE i # -1 /\ i \notin D
    <3>1. i \in Int /\ i - 1 \in -1..n-1
      BY <2>3
    <3>2. \A j \in D : j <= i <=> j <= i - 1
      BY <1>3, <2>3, <3>1
    <3>3. CASE Some(i)
      <4>1. Is(i, g[i]) /\ Is(i-1, g[i-1])
        BY <1>4, <3>1, <3>2, <3>3
      <4>2. g[i] \in D /\ g[i-1] \in D /\ g[i] <= g[i-1] /\ g[i-1] <= g[i]
        BY <3>2, <4>1
      <4>3. g[i] \in Int /\ g[i-1] \in Int
        BY <1>3, <4>2
      <4>4. g[i] = g[i-1]
        BY ONLY <4>2, <4>3
      <4> QED
        BY <2>3, <4>4
    <3>4. CASE ~Some(i)
      <4>1. ~Some(i-1)
        BY <3>2, <3>4
      <4> QED
        BY <1>5, <2>3, <3>1, <3>4, <4>1
    <3> QED
      BY <3>3, <3>4
  <2> QED
    BY <2>1, <2>2, <2>3
<1>7. g = [i \in -1..n-1 |-> g[i]]
  OBVIOUS
<1> HIDE DEF g
<1>8. g = [i \in -1..n-1 |-> IF i = -1 THEN -1 ELSE IF i \in D THEN i ELSE g[i-1]]
  BY <1>6, <1>7
<1> QED
  BY <1>8

LEMMA LastMatch ==
  ASSUME NEW n \in Nat, NEW D \in SUBSET (0..n-1), NEW f,
         f = [i \in -1..n-1 |-> IF i = -1 THEN -1 ELSE IF i \in D THEN i ELSE f[i-1]]
  PROVE  /\ f[n-1] \in D \cup {-1}
         /\ \A j \in D : j <= f[n-1]
<1> DEFINE Right(i) == f[i] \in D \cup {-1} /\ \A j \in D : j <= i => j <= f[i]
           T == {i + 1 : i \in {i \in -1..n-1 : ~Right(i)}}
<1>1. \A j \in D : j \in Int /\ 0 <= j /\ j <= n-1
  OBVIOUS
<1>2. \A i \in -1..n-1 : f[i] = IF i = -1 THEN -1 ELSE IF i \in D THEN i ELSE f[i-1]
  OBVIOUS
<1>3. T = {}
  <2> SUFFICES ASSUME T # {} PROVE FALSE
    OBVIOUS
  <2>1. T \in SUBSET Nat
    OBVIOUS
  <2>2. PICK m \in T : \A k \in T : m <= k
    <3> HIDE DEF T
    <3> QED
      BY <2>1, NatMin
  <2>3. PICK i \in -1..n-1 : m = i + 1 /\ ~Right(i)
    BY <2>2
  <2>4. i \in Int
    OBVIOUS
  <2>5. CASE i = -1
    BY <1>1, <1>2, <2>3, <2>5
  <2>6. CASE i # -1 /\ i \in D
    BY <1>1, <1>2, <2>3, <2>6
  <2>7. CASE i # -1 /\ i \notin D
    <3>1. i - 1 \in -1..n-1 /\ f[i] = f[i-1]
      BY <1>2, <2>4, <2>7
    <3>2. i \notin T
      <4> HIDE DEF T
      <4>1. i \in T => i + 1 <= i
        BY <2>2, <2>3
      <4> QED
        BY ONLY <2>4, <4>1
    <3>3. Right(i-1)
      <4>1. i - 1 + 1 = i
        BY <2>4
      <4> HIDE DEF Right
      <4> QED
        BY <3>1, <3>2, <4>1
    <3>4. \A j \in D : j <= i => j <= i - 1
      BY <1>1, <2>4, <2>7
    <3> QED
      BY <2>3, <3>1, <3>3, <3>4
  <2> QED
    BY <2>5, <2>6, <2>7
<1>4. \A i \in -1..n-1 : Right(i)
  <2> HIDE DEF Right
  <2> QED
    BY <1>3
<1>5. n-1 \in -1..n-1
  OBVIOUS
<1>6. Right(n-1)
  BY <1>4, <1>5
<1> QED
  BY <1>1, <1>6

(* What Search takes is the longest of the mount points with a directory   *)
(* that are a prefix of the pathname.                                      *)
LEMMA BestIsLongest ==
  ASSUME NEW path \in Paths
  PROVE  /\ Best(path) = -1 \/ (Best(path) \in 0..Len(path)-1 /\ Directory(path, Best(path)))
         /\ \A j \in (Best(path) + 1)..(Len(path) - 1) : ~Directory(path, j)
<1> DEFINE n == Len(path)
           D == {i \in 0..n-1 : Directory(path, i)}
           OneMore(f) == [i \in -1..n-1 |-> IF i = -1 THEN -1
                                          ELSE IF Directory(path, i) THEN i ELSE f[i-1]]
           Def(f) == [i \in -1..n-1 |-> IF i = -1 THEN -1
                                          ELSE IF i \in D THEN i ELSE f[i-1]]
           best == CHOOSE f : f = OneMore(f)
<1>1. n \in Nat
  BY LocalAssumption, LenProperties
<1>2. \A f : OneMore(f) = Def(f)
  <2> SUFFICES ASSUME NEW f, NEW i \in -1..n-1
               PROVE  OneMore(f)[i] = Def(f)[i]
    OBVIOUS
  <2>1. i # -1 => i \in 0..n-1
    BY <1>1
  <2>2. i # -1 => (i \in D <=> Directory(path, i))
    BY <2>1
  <2> HIDE DEF D
  <2> QED
    BY <2>2
<1> HIDE DEF OneMore, Def, D
<1>3. \E f : f = OneMore(f)
  <2>1. \E f : f = Def(f)
    <3>1. D \in SUBSET (0..n-1)
      BY DEF D
    <3> HIDE DEF n
    <3> QED
      BY <1>1, <3>1, LastMatchExists DEF Def
  <2> QED
    BY <1>2, <2>1
<1>4. best = OneMore(best)
  BY <1>3
<1>5. Best(path) = best[n-1]
  BY DEF Best, OneMore
<1> HIDE DEF best
<1>6. /\ best[n-1] \in D \cup {-1}
      /\ \A j \in D : j <= best[n-1]
  <2>1. best = Def(best)
    BY <1>2, <1>4
  <2>2. D \in SUBSET (0..n-1)
    BY DEF D
  <2> QED
    BY <1>1, <2>1, <2>2, LastMatch DEF Def
<1>7. ASSUME NEW j \in (best[n-1] + 1)..(n-1), Directory(path, j)
      PROVE  FALSE
  <2>1. best[n-1] \in Int /\ -1 <= best[n-1]
    BY <1>1, <1>6 DEF D
  <2>2. j \in 0..n-1 /\ ~(j <= best[n-1])
    BY <1>1, <2>1
  <2>3. j \in D
    BY <1>7, <2>2 DEF D
  <2> QED
    BY <1>6, <2>2, <2>3
<1> QED
  BY <1>5, <1>6, <1>7 DEF D

-----------------------------------------------------------------------------
(* The bridge.                                                             *)

Ops == VfsOps \cup FileOps
Impls == {"none", "file", "undefined"}
Calls == {Idle, Torn}
         \cup [op : Ops, at : {"method"}]
         \cup [op : VfsOps, at : {"search", "stuck"}, path : Paths, create : BOOLEAN]
         \cup [op : VfsOps, at : {"descend"}, create : BOOLEAN,
               root : Roots, rest : Seq(Names \cup {void})]
         \cup [op : {"delete"}, at : {"remove"}, create : BOOLEAN,
               root : Roots, rest : Seq(Names \cup {void})]

(* The part of the invariant that is about one connection.                 *)
Match(c) ==
  /\ call[c].op = "open" => methods[c] /\ impls[c] # "file" /\ live[c] = 0
  /\ call[c].op = "close" => methods[c] /\ impls[c] = "file" /\ live[c] = 0
  /\ call[c].op \in {"read", "write"} => methods[c] /\ impls[c] = "file" /\ live[c] = 1
  /\ call[c].op \in {"none", "delete", "access"} =>
       /\ methods[c] <=> impls[c] = "file"
       /\ live[c] = IF methods[c] THEN 1 ELSE 0

BridgeInv == BridgeTypeOK /\ CallTyped /\ SuspendedMatch

LEMMA BridgeParts ==
  BridgeInv <=> BridgeTypeOK /\ call \in [Conns -> Calls] /\ \A c \in Conns : Match(c)
  BY DEF BridgeInv, CallTyped, SuspendedMatch, Match, Calls, Ops

(* A step of one connection keeps the others as they are.                  *)
LEMMA OneConnection ==
  ASSUME BridgeInv, NEW c \in Conns,
         NEW m \in BOOLEAN, methods' = [methods EXCEPT ![c] = m],
         NEW i \in Impls, impls' = [impls EXCEPT ![c] = i],
         NEW l \in 0..1, live' = [live EXCEPT ![c] = l],
         NEW k \in Calls, call' = [call EXCEPT ![c] = k],
         /\ k.op = "open" => m /\ i # "file" /\ l = 0
         /\ k.op = "close" => m /\ i = "file" /\ l = 0
         /\ k.op \in {"read", "write"} => m /\ i = "file" /\ l = 1
         /\ k.op \in {"none", "delete", "access"} =>
              /\ m <=> i = "file"
              /\ l = IF m THEN 1 ELSE 0
  PROVE  BridgeInv'
<1>1. BridgeTypeOK' /\ call' \in [Conns -> Calls]
  BY BridgeParts DEF BridgeTypeOK, Impls
<1>2. ASSUME NEW d \in Conns PROVE Match(d)'
  BY BridgeParts DEF BridgeTypeOK, Match
<1> QED
  BY <1>1, <1>2 DEF BridgeInv, CallTyped, SuspendedMatch, Match, Calls, Ops

(* The operations of the calls.                                            *)
LEMMA CallOps ==
  /\ Idle \in Calls /\ Idle.op = "none" /\ Torn \in Calls /\ Torn.op = "torn"
  /\ \A op \in Ops : Pending(op) \in Calls /\ Pending(op).op = op
  /\ \A k \in Calls : k.op \in Ops \cup {"none", "torn"} /\ (k.op = "none" => k = Idle)
  BY DEF Calls, Idle, Torn, Pending, Ops, VfsOps, FileOps

(* A method that has returned, or whose promise has settled, leaves SQLite *)
(* and file_impls with the same idea of what is open.                      *)
LEMMA EndsMatch ==
  ASSUME BridgeInv, NEW c \in Conns, NEW op \in Ops,
         NEW result \in {"good", "error", "bad"}, NEW sync \in BOOLEAN,
         Ends(c, op, result, sync),
         IF sync THEN Callable(c, op) ELSE call[c].op = op
  PROVE  BridgeInv'
<1> DEFINE m == Methods(c, op, result, sync)
           i == Entry(c, op, result)
           l == Live(c, op, result, sync)
           k == IF Tears(result, sync) THEN Torn ELSE Idle
<1>1. /\ methods' = [methods EXCEPT ![c] = m] /\ impls' = [impls EXCEPT ![c] = i]
      /\ live' = [live EXCEPT ![c] = l] /\ call' = [call EXCEPT ![c] = k]
  BY DEF Ends
<1>2. /\ methods[c] \in BOOLEAN /\ impls[c] \in Impls /\ live[c] \in 0..1 /\ Match(c)
  BY BridgeParts DEF BridgeTypeOK, Impls
<1>3. k \in Calls /\ k.op \in {"none", "torn"} /\ (k.op = "none" <=> ~Tears(result, sync))
  BY CallOps
<1>4. m \in BOOLEAN
  BY <1>2 DEF Methods, Tears
<1>5. i \in Impls
  BY <1>2 DEF Entry, Impls
<1>6. /\ op = "open" => impls[c] # "file" /\ live[c] = 0
      /\ op \in FileOps => methods[c] /\ impls[c] = "file"
      /\ op \in {"read", "write"} => live[c] = 1
      /\ op = "close" => live[c] = IF sync THEN 1 ELSE 0
      /\ op \in {"delete", "access"} => /\ methods[c] <=> impls[c] = "file"
                                        /\ live[c] = IF methods[c] THEN 1 ELSE 0
  BY <1>2, CallOps DEF Match, Callable, FileOps, VfsOps, Ops
<1>7. op \in {"open", "close", "read", "write", "delete", "access"}
  BY DEF Ops, FileOps, VfsOps
<1>8. l \in 0..1
  BY <1>2, <1>6, <1>7 DEF Live, FileOps
<1>9. ~Tears(result, sync) => (m <=> i = "file") /\ l = IF m THEN 1 ELSE 0
  BY <1>2, <1>6, <1>7 DEF Methods, Entry, Live, Tears, FileOps
<1> HIDE DEF m, i, l, k
<1> QED
  BY <1>1, <1>3, <1>4, <1>5, <1>8, <1>9, OneConnection

(* A method that has given a promise.                                      *)
LEMMA AwaitsMatch ==
  ASSUME BridgeInv, NEW c \in Conns, NEW op \in Ops, NEW how \in Calls, how.op = op,
         CallAwaits(c, op, how)
  PROVE  BridgeInv'
<1> DEFINE m == methods[c] \/ op = "open"
           l == IF op = "close" THEN live[c] - 1 ELSE live[c]
<1>1. /\ methods' = [methods EXCEPT ![c] = m] /\ live' = [live EXCEPT ![c] = l]
      /\ call' = [call EXCEPT ![c] = how] /\ impls' = impls
  BY DEF CallAwaits
<1>2. /\ methods[c] \in BOOLEAN /\ impls[c] \in Impls /\ live[c] \in 0..1 /\ Match(c)
      /\ impls' = [impls EXCEPT ![c] = impls[c]]
  BY <1>1, BridgeParts DEF BridgeTypeOK, Impls
<1>3. /\ methods[c] <=> impls[c] = "file"
      /\ live[c] = IF methods[c] THEN 1 ELSE 0
      /\ op = "open" => ~methods[c]
      /\ op \in FileOps => methods[c]
  BY <1>2, CallOps DEF Match, CallAwaits, Callable, FileOps
<1>4. op \in {"open", "close", "read", "write", "delete", "access"}
  BY DEF Ops, FileOps, VfsOps
<1>5. m \in BOOLEAN /\ l \in 0..1
  BY <1>2, <1>3, <1>4 DEF FileOps
<1>6. /\ op = "open" => m /\ impls[c] # "file" /\ l = 0
      /\ op = "close" => m /\ impls[c] = "file" /\ l = 0
      /\ op \in {"read", "write"} => m /\ impls[c] = "file" /\ l = 1
      /\ op \in {"none", "delete", "access"} =>
           /\ m <=> impls[c] = "file"
           /\ l = IF m THEN 1 ELSE 0
  BY <1>2, <1>3, <1>4 DEF FileOps
<1> HIDE DEF m, l
<1> QED
  BY <1>1, <1>2, <1>5, <1>6, OneConnection

(* The traversal goes on.                                                  *)
LEMMA SameCall ==
  ASSUME BridgeInv, NEW c \in Conns, UNCHANGED <<methods, impls, live>>,
         NEW k \in Calls, k.op = call[c].op, call' = [call EXCEPT ![c] = k]
  PROVE  BridgeInv'
<1>1. /\ methods[c] \in BOOLEAN /\ methods' = [methods EXCEPT ![c] = methods[c]]
      /\ impls[c] \in Impls /\ impls' = [impls EXCEPT ![c] = impls[c]]
      /\ live[c] \in 0..1 /\ live' = [live EXCEPT ![c] = live[c]]
      /\ Match(c)
  BY BridgeParts DEF BridgeTypeOK, Impls
<1>2. PICK m \in BOOLEAN : m = methods[c]
  BY <1>1
<1>3. PICK i \in Impls : i = impls[c]
  BY <1>1
<1>4. PICK l \in 0..1 : l = live[c]
  BY <1>1
<1>5. /\ k.op = "open" => m /\ i # "file" /\ l = 0
      /\ k.op = "close" => m /\ i = "file" /\ l = 0
      /\ k.op \in {"read", "write"} => m /\ i = "file" /\ l = 1
      /\ k.op \in {"none", "delete", "access"} =>
           /\ m <=> i = "file"
           /\ l = IF m THEN 1 ELSE 0
  BY <1>1, <1>2, <1>3, <1>4 DEF Match
<1>6. /\ methods' = [methods EXCEPT ![c] = m] /\ impls' = [impls EXCEPT ![c] = i]
      /\ live' = [live EXCEPT ![c] = l]
  BY <1>1, <1>2, <1>3, <1>4
<1> QED
  BY <1>5, <1>6, OneConnection

LEMMA AtFacts ==
  ASSUME BridgeInv, NEW c \in Conns
  PROVE  /\ At(c, "method") => call[c].op \in Ops
         /\ At(c, "search") =>
              call[c] \in [op : VfsOps, at : {"search"}, path : Paths, create : BOOLEAN]
         /\ At(c, "descend") =>
              call[c] \in [op : VfsOps, at : {"descend"}, create : BOOLEAN,
                           root : Roots, rest : Seq(Names \cup {void})]
         /\ At(c, "remove") =>
              call[c] \in [op : {"delete"}, at : {"remove"}, create : BOOLEAN,
                           root : Roots, rest : Seq(Names \cup {void})]
<1>1. call[c] \in Calls
  BY BridgeParts
<1> QED
  BY <1>1 DEF Calls, At, Idle, Torn, Ops

-----------------------------------------------------------------------------
(* The steps of the VFSs.                                                  *)

LEMMA InitVfs == Init => VfsInv
<1> SUFFICES ASSUME Init PROVE VfsInv
  OBVIOUS
<1>1. TypeOK
  BY DEF Init, BridgeInit, TypeOK, BridgeTypeOK
<1>2. CallTyped /\ SuspendedMatch
  BY DEF Init, BridgeInit, CallTyped, SuspendedMatch, Idle
<1> QED
  BY <1>1, <1>2 DEF VfsInv

LEMMA NextCall ==
  ASSUME BridgeInv, NEW c \in Conns,
         \/ \E op \in VfsOps, path \in Paths, create \in BOOLEAN :
              LocalCall(c, op, path, create)
         \/ \E op \in VfsOps \cup FileOps : HttpCall(c, op) \/ UserCall(c, op)
         \/ UserSettles(c)
  PROVE  BridgeInv' /\ handles' = handles /\ tree' = tree
<1> USE DEF Ops
<1>1. ASSUME NEW op \in VfsOps, NEW path \in Paths, NEW create \in BOOLEAN,
             LocalCall(c, op, path, create)
      PROVE  BridgeInv' /\ handles' = handles /\ tree' = tree
  <2> DEFINE how == [op |-> op, at |-> "search", path |-> path, create |-> create]
  <2>1. how \in Calls /\ how.op = op
    BY DEF Calls
  <2>2. CallAwaits(c, op, how) /\ handles' = handles /\ tree' = tree
    BY <1>1 DEF LocalCall
  <2> HIDE DEF how
  <2> QED
    BY <2>1, <2>2, AwaitsMatch
<1>2. ASSUME NEW op \in Ops, NEW result \in {"good", "error", "bad"},
             CallReturns(c, op, result)
      PROVE  BridgeInv'
  BY <1>2, EndsMatch DEF CallReturns
<1>3. ASSUME NEW op \in Ops, CallAwaits(c, op, Pending(op))
      PROVE  BridgeInv'
  BY <1>3, AwaitsMatch, CallOps
<1>4. ASSUME NEW op \in Ops, HttpCall(c, op)
      PROVE  BridgeInv' /\ handles' = handles /\ tree' = tree
  BY <1>2, <1>3, <1>4 DEF HttpCall
<1>5. \A op : Results(c, op) \subseteq {"good", "error", "bad"}
  BY DEF Results
<1>6. ASSUME NEW op \in Ops, UserCall(c, op)
      PROVE  BridgeInv' /\ handles' = handles /\ tree' = tree
  BY <1>2, <1>3, <1>5, <1>6 DEF UserCall
<1>7. ASSUME UserSettles(c)
      PROVE  BridgeInv' /\ handles' = handles /\ tree' = tree
  <2>1. PICK result \in {"good", "error", "bad"} : MethodSettles(c, result)
    BY <1>5, <1>7 DEF UserSettles
  <2>2. call[c].op \in Ops /\ Ends(c, call[c].op, result, FALSE)
    BY <2>1, AtFacts DEF MethodSettles
  <2> QED
    BY <1>7, <2>2, EndsMatch DEF UserSettles
<1> QED
  BY <1>1, <1>4, <1>6, <1>7

(* The end of a traversal.                                                 *)
LEMMA TraversalEnds ==
  ASSUME BridgeInv, NEW c \in Conns, call[c].op \in VfsOps,
         NEW result \in {"good", "error"}, Ends(c, call[c].op, result, FALSE)
  PROVE  BridgeInv' /\ call' = [call EXCEPT ![c] = Idle]
<1>1. call[c].op \in Ops /\ ~Tears(result, FALSE)
  BY DEF Ops, Tears
<1>2. call' = [call EXCEPT ![c] = Idle]
  BY <1>1 DEF Ends
<1> QED
  BY <1>1, <1>2, EndsMatch

LEMMA NextTraversal ==
  ASSUME BridgeInv, NEW c \in Conns, TypeOK,
         MeetsFile(c) \/ Search(c) \/ SearchFails(c) \/ Descend(c) \/ RemoveEntry(c)
  PROVE  BridgeInv' /\ TypeOK'
<1> SUFFICES BridgeInv' /\ /\ handles' \in [Keys -> Handles \cup {"none"}]
                           /\ tree' \in [Roots -> [Names -> {"none", "file", "directory"}]]
  BY DEF TypeOK, BridgeInv
<1> USE DEF TypeOK
<1>1. ASSUME Misses(c), call[c].op \in VfsOps PROVE BridgeInv'
  BY <1>1, TraversalEnds DEF Misses
<1>2. CASE Search(c)
  <2> DEFINE path == call[c].path
             i == Best(path)
             k == [op |-> call[c].op, at |-> "descend", create |-> call[c].create,
                   root |-> handles[SubSeq(path, 1, i)], rest |-> SubSeq(path, i + 1, Len(path))]
  <2>1. /\ call[c].op \in VfsOps /\ path \in Paths /\ call[c].create \in BOOLEAN
    BY <1>2, AtFacts DEF Search
  <2>2. handles' = handles /\ tree' = tree
    BY <1>2 DEF Search
  <2>3. CASE i = -1
    BY <1>1, <1>2, <2>1, <2>2, <2>3 DEF Search
  <2>4. CASE i # -1
    <3>1. call' = [call EXCEPT ![c] = k] /\ UNCHANGED <<methods, impls, live>>
      BY <1>2, <2>4 DEF Search
    <3>2. i \in 0..Len(path)-1 /\ Directory(path, i)
      BY <2>1, <2>4, BestIsLongest
    <3>3. SubSeq(path, i + 1, Len(path)) \in Seq(Names \cup {void})
      <4>1. path \in Seq(Names \cup {void}) /\ Len(path) \in Nat
        BY <2>1, LocalAssumption, LenProperties
      <4>2. i + 1 \in Int /\ Len(path) \in Int
        BY <3>2, <4>1
      <4>3. \A j \in i+1..Len(path) : path[j] \in Names \cup {void}
        BY <3>2, <4>1, ElementOfSeq
      <4> HIDE DEF i, path
      <4> QED
        BY <4>2, <4>3, SubSeqProperties
    <3>4. handles[SubSeq(path, 1, i)] \in Roots
      BY <3>2 DEF Directory
    <3>5. k \in Calls /\ k.op = call[c].op
      BY <2>1, <3>3, <3>4 DEF Calls
    <3> HIDE DEF k
    <3> QED
      BY <2>2, <3>1, <3>5, SameCall
  <2> QED
    BY <2>3, <2>4
<1>3. CASE SearchFails(c)
  BY <1>3, AtFacts, TraversalEnds DEF SearchFails
<1>4. CASE Descend(c)
  <2> DEFINE r == call[c]
             k == [r EXCEPT !.at = "remove"]
  <2>1. r \in [op : VfsOps, at : {"descend"}, create : BOOLEAN,
               root : Roots, rest : Seq(Names \cup {void})]
    BY <1>4, AtFacts DEF Descend
  <2>2. /\ handles' = handles
        /\ tree' \in {tree, [tree EXCEPT ![r.root][Head(r.rest)] = "file"]}
        /\ \/ Misses(c)
           \/ /\ r.op = "delete"
              /\ call' = [call EXCEPT ![c].at = "remove"]
              /\ UNCHANGED <<methods, impls, live>>
           \/ Ends(c, r.op, "good", FALSE)
    BY <1>4 DEF Descend
  <2>3. tree' \in [Roots -> [Names -> {"none", "file", "directory"}]]
    BY <2>1, <2>2
  <2>4. k.op = r.op /\ (r.op = "delete" => k \in Calls)
    BY <2>1 DEF Calls
  <2>5. call' = [call EXCEPT ![c].at = "remove"] => call' = [call EXCEPT ![c] = k]
    OBVIOUS
  <2>6. r.op \in VfsOps
    BY <2>1
  <2> HIDE DEF k
  <2> QED
    BY <1>1, <2>2, <2>3, <2>4, <2>5, <2>6, SameCall, TraversalEnds
<1>5. CASE RemoveEntry(c)
  <2>1. /\ handles' = handles
        /\ tree' \in {tree, [tree EXCEPT ![call[c].root][Head(call[c].rest)] = "none"]}
        /\ \E result \in {"good", "error"} : Ends(c, "delete", result, FALSE)
    BY <1>5 DEF RemoveEntry
  <2>2. call[c] \in [op : {"delete"}, at : {"remove"}, create : BOOLEAN,
                      root : Roots, rest : Seq(Names \cup {void})]
    BY <1>5, AtFacts DEF RemoveEntry
  <2>3. call[c].op = "delete" /\ call[c].op \in VfsOps
    BY <2>2 DEF VfsOps
  <2>4. BridgeInv'
    BY <2>1, <2>3, TraversalEnds
  <2>5. tree' \in [Roots -> [Names -> {"none", "file", "directory"}]]
    BY <2>1
  <2> QED
    BY <2>1, <2>4, <2>5
<1>6. CASE MeetsFile(c)
  <2> DEFINE k == [call[c] EXCEPT !.at = "stuck"]
  <2>1. call[c] \in [op : VfsOps, at : {"search"}, path : Paths, create : BOOLEAN]
    BY <1>6, AtFacts DEF MeetsFile
  <2>2. k \in Calls /\ k.op = call[c].op
    BY <2>1 DEF Calls
  <2>3. call' = [call EXCEPT ![c] = k] /\ UNCHANGED <<methods, impls, live, handles, tree>>
    BY <1>6 DEF MeetsFile
  <2> HIDE DEF k
  <2> QED
    BY <2>2, <2>3, SameCall
<1> QED
  BY <1>2, <1>3, <1>4, <1>5, <1>6

-----------------------------------------------------------------------------
(* The invariant, of every step.                                           *)

LEMMA NextVfs == VfsInv /\ [Next]_vars => VfsInv'
<1> SUFFICES ASSUME VfsInv, [Next]_vars PROVE VfsInv'
  OBVIOUS
<1>1. BridgeInv /\ TypeOK
  BY DEF VfsInv, BridgeInv, TypeOK
<1>2. BridgeInv' /\ /\ handles' \in [Keys -> Handles \cup {"none"}]
                    /\ tree' \in [Roots -> [Names -> {"none", "file", "directory"}]]
      => VfsInv'
  BY DEF VfsInv, BridgeInv, TypeOK
<1>3. handles \in [Keys -> Handles \cup {"none"}]
      /\ tree \in [Roots -> [Names -> {"none", "file", "directory"}]]
  BY <1>1 DEF TypeOK
<1>4. ASSUME NEW k \in Keys, NEW handle \in Handles, Mount(k, handle)
      PROVE  VfsInv'
  <2>1. UNCHANGED <<kind, methods, impls, live, call>> /\ UNCHANGED tree
        /\ handles' \in [Keys -> Handles \cup {"none"}]
    BY <1>3, <1>4 DEF Mount, bridgeVars
  <2>2. BridgeInv'
    BY <1>1, <2>1 DEF BridgeInv, BridgeTypeOK, CallTyped, SuspendedMatch
  <2> QED
    BY <1>2, <1>3, <2>1, <2>2
<1>5. ASSUME NEW c \in Conns, NEW op \in VfsOps, NEW path \in Paths,
             NEW create \in BOOLEAN, LocalCall(c, op, path, create)
      PROVE  VfsInv'
  BY <1>1, <1>2, <1>3, <1>5, NextCall
<1>6. ASSUME NEW c \in Conns, NEW op \in VfsOps \cup FileOps,
             HttpCall(c, op) \/ UserCall(c, op)
      PROVE  VfsInv'
  BY <1>1, <1>2, <1>3, <1>6, NextCall
<1>7. ASSUME NEW c \in Conns, Settle(c) PROVE VfsInv'
  <2>1. CASE UserSettles(c)
    BY <1>1, <1>2, <1>3, <2>1, NextCall
  <2>2. CASE MeetsFile(c) \/ Search(c) \/ SearchFails(c) \/ Descend(c) \/ RemoveEntry(c)
    BY <1>1, <1>2, <2>2, NextTraversal DEF TypeOK
  <2> QED
    BY <1>7, <2>1, <2>2 DEF Settle
<1>8. CASE UNCHANGED vars
  <2>1. UNCHANGED <<kind, methods, impls, live, call>> /\ UNCHANGED <<handles, tree>>
    BY <1>8 DEF vars, bridgeVars
  <2>2. BridgeInv'
    BY <1>1, <2>1 DEF BridgeInv, BridgeTypeOK, CallTyped, SuspendedMatch
  <2> QED
    BY <1>2, <1>3, <2>1, <2>2
<1> QED
  BY <1>4, <1>5, <1>6, <1>7, <1>8 DEF Next

(* custom.js:103-162 with local.js and http.js behind it: what a suspended *)
(* call has done and has still to do.                                      *)
THEOREM VfsInvariant == Spec => []VfsInv
<1>1. Init => VfsInv
  BY InitVfs
<1>2. VfsInv /\ [Next]_vars => VfsInv'
  BY NextVfs
<1> QED
  BY <1>1, <1>2, PTL DEF Spec

(* Type correctness; above all, no connection has more than one live File. *)
THEOREM VfsTypes == Spec => []TypeOK
<1>1. VfsInv => TypeOK
  BY DEF VfsInv
<1> QED
  BY <1>1, VfsInvariant, PTL

(* custom.js:23: between the calls of SQLite, what it takes for an open    *)
(* file is a File that has not been closed, and no other File is left.     *)
THEOREM NoFileLeft == Spec => []FileImplsMatch
<1>1. VfsInv => FileImplsMatch
  <2> SUFFICES ASSUME VfsInv, NEW c \in Conns, call[c] = Idle
               PROVE  /\ methods[c] <=> impls[c] = "file"
                      /\ live[c] = IF methods[c] THEN 1 ELSE 0
    BY DEF FileImplsMatch
  <2>1. call[c].op = "none"
    BY DEF Idle
  <2> QED
    BY <2>1 DEF VfsInv, SuspendedMatch
<1> QED
  BY <1>1, VfsInvariant, PTL

-----------------------------------------------------------------------------
(* The traversals.                                                         *)

(* A call that goes on from its search has the directory of the last match.*)
LEMMA SearchResolves ==
  ASSUME BridgeInv, NEW c \in Conns, Search(c), At(c, "descend")'
  PROVE  LET path == call[c].path
             i == Len(path) - Len(call'[c].rest) IN
         /\ handles[SubSeq(path, 1, i)] = call'[c].root
         /\ \A j \in (i + 1)..(Len(path) - 1) : ~Directory(path, j)
<1> DEFINE path == call[c].path
           b == Best(path)
           rest == SubSeq(path, b + 1, Len(path))
           k == [op |-> call[c].op, at |-> "descend", create |-> call[c].create,
                 root |-> handles[SubSeq(path, 1, b)], rest |-> rest]
<1>1. call[c].op \in VfsOps /\ path \in Paths /\ call \in [Conns -> Calls]
  BY AtFacts, BridgeParts DEF Search
<1>2. CASE b = -1
  <2>1. Misses(c)
    BY <1>2 DEF Search
  <2>2. call'[c] = Idle
    BY <1>1, <2>1, TraversalEnds DEF Misses
  <2> QED
    BY <2>2 DEF At, Idle
<1>3. CASE b # -1
  <2>1. call'[c] = k
    BY <1>1, <1>3 DEF Search
  <2>2. b \in 0..Len(path)-1 /\ \A j \in (b + 1)..(Len(path) - 1) : ~Directory(path, j)
    BY <1>1, <1>3, BestIsLongest
  <2>3. path \in Seq(Names \cup {void}) /\ Len(path) \in Nat
    BY <1>1, LocalAssumption, LenProperties
  <2>4. Len(rest) = Len(path) - b
    <3> HIDE DEF path, b
    <3>1. \A j \in b+1..Len(path) : path[j] \in Names \cup {void}
      BY <2>2, <2>3, ElementOfSeq
    <3>2. Len(rest) = IF b + 1 <= Len(path) THEN Len(path) - (b + 1) + 1 ELSE 0
      BY <2>2, <2>3, <3>1, SubSeqProperties
    <3> QED
      BY <2>2, <2>3, <3>2
  <2>5. call'[c].rest = rest /\ call'[c].root = handles[SubSeq(path, 1, b)]
    <3> HIDE DEF path, b, rest
    <3> QED
      BY <2>1
  <2>6. Len(path) - Len(call'[c].rest) = b
    <3> HIDE DEF path, b, rest
    <3> QED
      BY <2>2, <2>3, <2>4, <2>5
  <2> HIDE DEF b
  <2> QED
    BY <2>2, <2>5, <2>6
<1> QED
  BY <1>2, <1>3

(* A traversal that has more than one name left ends with nothing.         *)
LEMMA DescendMisses ==
  ASSUME BridgeInv, NEW c \in Conns, Descend(c), Len(call[c].rest) > 1
  PROVE  live'[c] = live[c] /\ call'[c] = Idle
<1>1. call[c].op \in VfsOps /\ call \in [Conns -> Calls] /\ live \in [Conns -> 0..1]
  BY AtFacts, BridgeParts DEF Descend, BridgeTypeOK
<1>2. ~Found(c)
  <2>1. call[c].rest \in Seq(Names \cup {void})
    BY AtFacts DEF Descend
  <2>2. PICK n \in Nat : n = Len(call[c].rest)
    BY <2>1, LenProperties
  <2>3. n > 1
    BY <2>2
  <2>4. n # 1
    BY <2>3
  <2> QED
    BY <2>2, <2>4 DEF Found
<1>3. Misses(c)
  BY <1>2 DEF Descend
<1>4. call'[c] = Idle
  BY <1>1, <1>3, TraversalEnds DEF Misses
<1>5. live' = [live EXCEPT ![c] = live[c]]
  BY <1>1, <1>3 DEF Misses, Ends, Live, VfsOps
<1> QED
  BY <1>1, <1>4, <1>5

LEMMA NextResolves ==
  ASSUME VfsInv, [Next]_vars, NEW c \in Conns
  PROVE  ResolvesStep(c)
<1>1. BridgeInv
  BY DEF VfsInv, BridgeInv, TypeOK
<1>2. call \in [Conns -> Calls] /\ live \in [Conns -> 0..1]
  BY <1>1, BridgeParts DEF BridgeTypeOK
<1>3. ASSUME call'[c] = call[c], live'[c] = live[c] PROVE ResolvesStep(c)
  <2>1. ~(At(c, "search") /\ At(c, "descend")')
    BY <1>3 DEF At
  <2>2. At(c, "descend") => ~At(c, "remove")'
    BY <1>3 DEF At
  <2>3. ~(live'[c] > live[c])
    BY <1>2, <1>3
  <2> QED
    BY <2>1, <2>2, <2>3 DEF ResolvesStep
<1>4. ASSUME ~At(c, "search"), ~At(c, "descend") PROVE ResolvesStep(c)
  BY <1>4 DEF ResolvesStep
<1>5. ASSUME call[c] = Idle PROVE ResolvesStep(c)
  BY <1>4, <1>5 DEF At, Idle
<1>6. ASSUME NEW d \in Conns, d # c,
             \E k, l : call' = [call EXCEPT ![d] = k] /\ live' = [live EXCEPT ![d] = l]
      PROVE  ResolvesStep(c)
  BY <1>2, <1>3, <1>6
<1>7. ASSUME NEW d \in Conns, NEW op, NEW result, NEW sync, Ends(d, op, result, sync)
      PROVE  \E k, l : call' = [call EXCEPT ![d] = k] /\ live' = [live EXCEPT ![d] = l]
  BY <1>7 DEF Ends
<1>8. ASSUME NEW d \in Conns,
             \/ \E op \in VfsOps, path \in Paths, create \in BOOLEAN :
                  LocalCall(d, op, path, create)
             \/ \E op \in VfsOps \cup FileOps : HttpCall(d, op) \/ UserCall(d, op)
      PROVE  ResolvesStep(c)
  <2>1. call[d] = Idle /\
        \E k, l : call' = [call EXCEPT ![d] = k] /\ live' = [live EXCEPT ![d] = l]
    <3>1. ASSUME NEW op, NEW how, CallAwaits(d, op, how)
          PROVE  call[d] = Idle /\
                 \E k, l : call' = [call EXCEPT ![d] = k] /\ live' = [live EXCEPT ![d] = l]
      BY <3>1 DEF CallAwaits, Callable
    <3>2. ASSUME NEW op, NEW result, CallReturns(d, op, result)
          PROVE  call[d] = Idle /\
                 \E k, l : call' = [call EXCEPT ![d] = k] /\ live' = [live EXCEPT ![d] = l]
      BY <1>7, <3>2 DEF CallReturns, Callable
    <3> QED
      BY <1>8, <3>1, <3>2 DEF LocalCall, HttpCall, UserCall
  <2> QED
    BY <1>5, <1>6, <2>1
<1>9. ASSUME NEW d \in Conns, Settle(d) PROVE ResolvesStep(c)
  <2>1. \E k, l : call' = [call EXCEPT ![d] = k] /\ live' = [live EXCEPT ![d] = l]
    <3>1. CASE \E result : Ends(d, call[d].op, result, FALSE)
      BY <1>7, <3>1
    <3>2. CASE \E result : Ends(d, "delete", result, FALSE)
      BY <1>7, <3>2
    <3>3. CASE UNCHANGED live /\ \E k : call' = [call EXCEPT ![d] = k]
      <4>1. live' = [live EXCEPT ![d] = live[d]]
        BY <1>2, <3>3
      <4> QED
        BY <3>3, <4>1
    <3>4. [call EXCEPT ![d].at = "remove"] = [call EXCEPT ![d] = [call[d] EXCEPT !.at = "remove"]]
      OBVIOUS
    <3>5. Misses(d) => \E result : Ends(d, call[d].op, result, FALSE)
      BY DEF Misses
    <3>6. CASE MeetsFile(d)
      <4>1. call' = [call EXCEPT ![d] = [call[d] EXCEPT !.at = "stuck"]]
        BY <3>6 DEF MeetsFile
      <4> QED
        BY <3>3, <3>6, <4>1 DEF MeetsFile
    <3>9. CASE Search(d)
      BY <3>1, <3>3, <3>5, <3>9 DEF Search
    <3>7. CASE Descend(d)
      BY <3>1, <3>3, <3>4, <3>5, <3>7 DEF Descend
    <3>8. CASE SearchFails(d) \/ RemoveEntry(d) \/ UserSettles(d)
      BY <3>1, <3>2, <3>8 DEF SearchFails, RemoveEntry, UserSettles, MethodSettles
    <3> QED
      BY <1>9, <3>6, <3>7, <3>8, <3>9 DEF Settle
  <2>2. CASE d # c
    BY <1>6, <2>1, <2>2
  <2>3. CASE d = c /\ Search(c)
    <3>1. ~At(c, "descend")
      BY <2>3 DEF Search, At
    <3> QED
      BY <1>1, <2>3, <3>1, SearchResolves DEF ResolvesStep
  <2>4. CASE d = c /\ SearchFails(c)
    <3>1. ~At(c, "descend") /\ At(c, "search")
      BY <2>4 DEF SearchFails, At
    <3>2. call[c].op \in VfsOps
      BY <1>1, <3>1, AtFacts
    <3>3. call'[c] = Idle
      BY <1>1, <1>2, <2>4, <3>2, TraversalEnds DEF SearchFails
    <3> QED
      BY <3>1, <3>3 DEF ResolvesStep, At, Idle
  <2>5. CASE d = c /\ Descend(c)
    <3>1. ~At(c, "search")
      BY <2>5 DEF Descend, At
    <3>2. live[c] \in 0..1
      BY <1>2
    <3>3. Len(call[c].rest) > 1 => live'[c] = live[c] /\ call'[c] = Idle
      BY <1>1, <2>5, DescendMisses
    <3>4. ~(live[c] > live[c])
      BY <3>2
    <3>5. Len(call[c].rest) > 1 => ~(live'[c] > live[c])
      BY <3>3, <3>4
    <3>6. Len(call[c].rest) > 1 => ~At(c, "remove")'
      BY <3>3 DEF At, Idle
    <3> QED
      BY <3>1, <3>5, <3>6 DEF ResolvesStep
  <2>6. CASE d = c /\ (RemoveEntry(c) \/ UserSettles(c))
    BY <1>4, <2>6 DEF RemoveEntry, UserSettles, At
  <2>7. CASE d = c /\ MeetsFile(c)
    <3>1. ~At(c, "descend")
      BY <2>7 DEF MeetsFile, At
    <3>2. ~At(c, "descend")'
      BY <1>2, <2>7 DEF MeetsFile, At
    <3> QED
      BY <3>1, <3>2 DEF ResolvesStep
  <2> QED
    BY <1>9, <2>2, <2>3, <2>4, <2>5, <2>6, <2>7 DEF Settle
<1>10. ASSUME UNCHANGED call /\ UNCHANGED live PROVE ResolvesStep(c)
  BY <1>3, <1>10
<1> QED
  BY <1>8, <1>9, <1>10 DEF Next, Mount, vars, bridgeVars

(* local.js:45-104: a pathname is looked up in the directory with the      *)
(* longest mount point that is a prefix of it, in every step of traverse;  *)
(* and a step from a directory above the last name opens and removes       *)
(* nothing.  Whether the traversal goes on below it is no part of this     *)
(* (SubHandlesTraversed: it does not).                                     *)
THEOREM LongestMountResolves == Spec => ResolvesRight
<1>1. VfsInv /\ [Next]_vars => [\A c \in Conns : ResolvesStep(c)]_vars
  BY NextResolves
<1> QED
  BY <1>1, VfsInvariant, PTL DEF Spec, ResolvesRight
===============================================================================
