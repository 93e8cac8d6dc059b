---------------------------- MODULE FunctionsProofs ----------------------------
(***************************************************************************)
(* What holds of src/value.js, src/memory.js, src/func/basics.js and       *)
(* src/func/blob_io.js for every set of statements, Pointers and calls,    *)
(* every blob and every stream.                                            *)
(***************************************************************************)
EXTENDS BlobIO, ArrayLemmas, FiniteSetTheorems

-----------------------------------------------------------------------------
(* borrow_mem.                                                             *)

LEMMA FunctionIsSeq ==
  ASSUME NEW S, NEW n \in Nat, NEW f \in [1..n -> S]
  PROVE  f \in Seq(S) /\ Len(f) = n
  OBVIOUS

LEMMA AlignIs ==
  ASSUME NEW n \in Nat
  PROVE  Align(n) \in Nat /\ Align(n) >= n /\ Align(n) % 4 = 0
<1>1. (-n) % 4 \in 0..3
  OBVIOUS
<1>2. PICK q \in Int : -n = 4 * q + ((-n) % 4)
  OBVIOUS
<1>3. Align(n) = 4 * (-q)
  BY <1>1, <1>2 DEF Align
<1>4. (4 * (-q)) % 4 = 0
  OBVIOUS
<1> QED
  BY <1>1, <1>3, <1>4 DEF Align

(* One more argument.                                                      *)
NextSize(size, arg) == IF arg = 0 THEN size ELSE Align(size) + arg

LEMMA NextSizeIs ==
  ASSUME NEW size \in Nat, NEW arg \in Nat
  PROVE  NextSize(size, arg) \in Nat /\ NextSize(size, arg) >= size + arg
  BY AlignIs DEF NextSize

(* The recursion of AllocSize has a solution, whatever the arguments.      *)
Sizes(args, n, f) ==
  /\ f \in [0..n -> Nat]
  /\ f[0] = 0
  /\ \A i \in 1..n : f[i] = NextSize(f[i - 1], args[i])

LEMMA SizesExist ==
  ASSUME NEW args \in Seq(Nat)
  PROVE  \A n \in 0..Len(args) : \E f : Sizes(args, n, f)
<1> DEFINE T == {n \in 0..Len(args) : ~ \E f : Sizes(args, n, f)}
<1>1. Len(args) \in Nat /\ \A i \in 1..Len(args) : args[i] \in Nat
  BY LenProperties, ElementOfSeq
<1>2. SUFFICES ASSUME T # {} PROVE FALSE
  OBVIOUS
<1>3. PICK n \in T : \A m \in T : n <= m
  <2>1. T \in SUBSET Nat
    BY <1>1
  <2> HIDE DEF T
  <2> QED
    BY <1>2, <2>1, NatMin
<1>4. n \in 0..Len(args) /\ n \in Nat /\ ~ \E f : Sizes(args, n, f)
  BY <1>1, <1>3
<1>5. n # 0
  <2>1. Sizes(args, 0, [i \in 0..0 |-> 0])
    BY DEF Sizes
  <2> QED
    BY <1>4, <2>1
<1>6. n - 1 \in 0..Len(args) /\ n \in 1..Len(args) /\ ~(n <= n - 1) /\ n - 1 \in Nat
  <2>1. n \in 0..Len(args) /\ n \in Nat
    BY <1>4
  <2> QED
    BY ONLY <1>1, <1>5, <2>1
<1>7. PICK f : Sizes(args, n - 1, f)
  BY <1>3, <1>6
<1> DEFINE g == [i \in 0..n |-> IF i = n THEN NextSize(f[n - 1], args[n]) ELSE f[i]]
<1>8. NextSize(f[n - 1], args[n]) \in Nat
  <2>1. n - 1 \in 0..(n - 1)
    BY <1>6
  <2>2. f[n - 1] \in Nat /\ args[n] \in Nat
    BY <1>1, <1>6, <1>7, <2>1 DEF Sizes
  <2> QED
    BY <2>2, NextSizeIs
<1>9. \A i \in 0..n : i # n => i \in 0..(n - 1)
  BY <1>6
<1>10. g \in [0..n -> Nat] /\ g[0] = 0
  BY <1>5, <1>6, <1>7, <1>8, <1>9 DEF Sizes
<1>11. ASSUME NEW i \in 1..n PROVE g[i] = NextSize(g[i - 1], args[i])
  <2>1. i - 1 \in 0..n /\ i \in 0..n /\ i - 1 # n
    BY <1>6
  <2>2. g[i - 1] = f[i - 1]
    BY <2>1
  <2>3. CASE i = n
    BY <2>2, <2>3
  <2>4. CASE i # n
    <3>1. i \in 1..(n - 1)
      BY <1>6, <2>4
    <3>2. g[i] = f[i]
      BY <2>1, <2>4
    <3> HIDE DEF g
    <3> QED
      BY <1>7, <2>2, <3>1, <3>2 DEF Sizes
  <2> QED
    BY <2>3, <2>4
<1>12. Sizes(args, n, g)
  <2> HIDE DEF g
  <2> QED
    BY <1>10, <1>11 DEF Sizes
<1> QED
  BY <1>4, <1>12

LEMMA AllocSizeIs ==
  ASSUME NEW args \in Seq(Nat)
  PROVE  Sizes(args, Len(args), AllocSize(args))
<1> DEFINE n == Len(args)
           Def(f) == [i \in 0..n |-> IF i = 0 THEN 0
                                     ELSE IF args[i] = 0 THEN f[i - 1]
                                     ELSE Align(f[i - 1]) + args[i]]
           size == CHOOSE f : f = Def(f)
<1>1. n \in Nat
  BY LenProperties
<1>2. PICK f : Sizes(args, n, f)
  BY <1>1, SizesExist
<1>3. f = Def(f)
  <2>1. f \in [0..n -> Nat] /\ f[0] = 0
    BY <1>2 DEF Sizes
  <2>2. ASSUME NEW i \in 0..n PROVE f[i] = Def(f)[i]
    <3>1. i # 0 => i \in 1..n
      BY <1>1
    <3> QED
      BY <1>2, <2>1, <3>1 DEF Sizes, NextSize
  <2> HIDE DEF n
  <2> QED
    BY <2>1, <2>2
<1>4. size = Def(size)
  <2> HIDE DEF Def
  <2> QED
    BY <1>3
<1>5. AllocSize(args) = size
  BY DEF AllocSize
<1> HIDE DEF size, n
<1>6. /\ size = [i \in 0..n |-> size[i]]
      /\ size[0] = 0
      /\ \A i \in 1..n : size[i] = NextSize(size[i - 1], args[i])
  <2>1. 0 \in 0..n
    BY <1>1
  <2>2. \A i \in 1..n : i \in 0..n /\ i # 0
    BY <1>1
  <2> QED
    BY <1>4, <2>1, <2>2 DEF NextSize
<1>7. \A i \in 0..n : size[i] \in Nat
  <2> DEFINE T == {i \in 0..n : size[i] \notin Nat}
  <2>1. SUFFICES ASSUME T # {} PROVE FALSE
    OBVIOUS
  <2>2. PICK i \in T : \A j \in T : i <= j
    <3>1. T \in SUBSET Nat
      BY <1>1
    <3> HIDE DEF T
    <3> QED
      BY <2>1, <3>1, NatMin
  <2>3. i \in 1..n /\ i - 1 \in 0..n /\ ~(i <= i - 1)
    BY <1>1, <1>6, <2>2
  <2>4. size[i - 1] \in Nat
    BY <2>2, <2>3
  <2>5. args[i] \in Nat
    BY <2>3, ElementOfSeq DEF n
  <2>6. size[i] \in Nat
    BY <1>6, <2>3, <2>4, <2>5, NextSizeIs
  <2> QED
    BY <2>2, <2>6
<1>8. size \in [0..n -> Nat]
  BY <1>6, <1>7
<1> QED
  BY <1>5, <1>6, <1>8 DEF Sizes, n

(* The sizes grow.                                                         *)
LEMMA SizesGrow ==
  ASSUME NEW args \in Seq(Nat), NEW size, Sizes(args, Len(args), size),
         NEW i \in 0..Len(args)
  PROVE  \A j \in i..Len(args) : size[i] <= size[j]
<1> DEFINE n == Len(args)
           T == {j \in i..n : ~(size[i] <= size[j])}
<1>1. n \in Nat /\ i \in Nat /\ i <= n /\ size \in [0..n -> Nat]
  BY LenProperties DEF Sizes
<1>2. SUFFICES ASSUME T # {} PROVE FALSE
  OBVIOUS
<1>3. PICK j \in T : \A k \in T : j <= k
  <2>1. T \in SUBSET Nat
    BY <1>1
  <2> HIDE DEF T
  <2> QED
    BY <1>2, <2>1, NatMin
<1>4. j \in i..n /\ j # i
  BY <1>1, <1>3
<1>5. j \in 1..n /\ j - 1 \in i..n /\ j - 1 \in 0..n /\ ~(j <= j - 1)
  BY <1>1, <1>4
<1>6. size[i] <= size[j - 1]
  BY <1>3, <1>5
<1>7. args[j] \in Nat /\ size[j - 1] \in Nat /\ size[i] \in Nat
  BY <1>1, <1>5, ElementOfSeq
<1>8. size[j] = NextSize(size[j - 1], args[j])
  BY <1>5 DEF Sizes
<1>9. size[j] \in Nat /\ size[j] >= size[j - 1] + args[j]
  BY <1>7, <1>8, NextSizeIs
<1>10. size[i] <= size[j]
  BY <1>6, <1>7, <1>9
<1> QED
  BY <1>3, <1>10

(* memory.js:149-185: whatever the arguments need, their Spans are aligned,*)
(* in the block, and apart from each other.                                *)
THEOREM BorrowedSpansAreApart ==
  ASSUME NEW args \in Seq(Nat)
  PROVE  Apart(args)
<1> DEFINE n == Len(args)
           size == AllocSize(args)
           span == Spans(args)
<1>1. /\ n \in Nat /\ DOMAIN args = 1..n
      /\ \A i \in 1..n : args[i] \in Nat
  BY LenProperties, ElementOfSeq
<1>2. Sizes(args, n, size)
  BY AllocSizeIs
<1>3. /\ DOMAIN span = 1..n /\ Total(args) = size[n]
      /\ \A i \in 1..n : span[i].ptr = IF args[i] = 0 THEN 0 ELSE Align(size[i - 1])
      /\ \A i \in 1..n : span[i].len = args[i]
  BY <1>1 DEF Spans, Total
<1> HIDE DEF n, size, span
<1>4. size \in [0..n -> Nat]
  BY <1>2 DEF Sizes
<1>5. \A i \in 1..n : i - 1 \in 0..n /\ i \in 0..n
  BY <1>1
<1>6. ASSUME NEW i \in 1..n
      PROVE  /\ span[i].ptr \in Nat /\ span[i].ptr % 4 = 0
             /\ span[i].len \in Nat
             /\ span[i].ptr + span[i].len <= size[i]
             /\ args[i] > 0 => size[i - 1] <= span[i].ptr
  <2>1. args[i] \in Nat /\ size[i - 1] \in Nat /\ size[i] \in Nat
    BY <1>1, <1>4, <1>5
  <2>2. size[i] = NextSize(size[i - 1], args[i])
    BY <1>2 DEF Sizes
  <2>3. CASE args[i] = 0
    BY <1>3, <2>1, <2>3
  <2>4. CASE args[i] # 0
    <3>1. /\ Align(size[i - 1]) \in Nat /\ Align(size[i - 1]) >= size[i - 1]
          /\ Align(size[i - 1]) % 4 = 0
      BY <2>1, AlignIs
    <3>2. size[i] = Align(size[i - 1]) + args[i]
      BY <2>2, <2>4 DEF NextSize
    <3>3. span[i].ptr = Align(size[i - 1]) /\ span[i].len = args[i]
      BY <1>3, <2>4
    <3> QED
      BY <2>1, <3>1, <3>2, <3>3
  <2> QED
    BY <2>3, <2>4
<1>7. ASSUME NEW i \in 0..n, NEW j \in i..n
      PROVE  size[i] \in Nat /\ size[j] \in Nat /\ size[i] <= size[j]
  <2>1. j \in 0..n
    BY <1>1
  <2> QED
    BY <1>2, <1>4, <2>1, SizesGrow DEF n
<1>8. ASSUME NEW i \in 1..n, NEW j \in 1..n
      PROVE  /\ span[i].ptr % 4 = 0
             /\ span[i].ptr + span[i].len <= size[n]
             /\ i < j /\ args[i] > 0 /\ args[j] > 0 => span[i].ptr + span[i].len <= span[j].ptr
  <2>1. i \in 0..n /\ n \in i..n
    BY <1>1
  <2>2. span[i].ptr + span[i].len <= size[n]
    <3>1. size[i] \in Nat /\ size[n] \in Nat /\ size[i] <= size[n]
      BY <1>7, <2>1
    <3>2. span[i].ptr + span[i].len \in Nat /\ span[i].ptr + span[i].len <= size[i]
      BY <1>6
    <3> QED
      BY <3>1, <3>2
  <2>3. ASSUME i < j, args[j] > 0 PROVE span[i].ptr + span[i].len <= span[j].ptr
    <3>1. j - 1 \in i..n
      BY <1>1, <2>3
    <3>2. j - 1 \in 0..n
      BY <1>5
    <3>3. size[i] \in Nat /\ size[j - 1] \in Nat /\ size[i] <= size[j - 1]
      BY <1>7, <2>1, <3>1
    <3>4. span[i].ptr + span[i].len \in Nat /\ span[i].ptr + span[i].len <= size[i]
      BY <1>6
    <3>5. span[j].ptr \in Nat /\ size[j - 1] <= span[j].ptr
      BY <1>6, <2>3
    <3> QED
      BY <3>3, <3>4, <3>5
  <2> QED
    BY <1>6, <2>2, <2>3
<1> QED
  BY <1>1, <1>3, <1>8 DEF Apart, span

-----------------------------------------------------------------------------
(* value.js: the map of pointers.                                          *)

Is(x, c) == IF x = c THEN 1 ELSE 0

LEMMA ReferredIs ==
  ASSUME NEW map, \A p \in DOMAIN map : map[p] \in Nat, NEW v
  PROVE  /\ DOMAIN Referred(map, v) = DOMAIN map
         /\ \A p \in DOMAIN map : Referred(map, v)[p] = map[p] + Is(v, p)
                                  /\ Referred(map, v)[p] \in Nat
  BY DEF Referred, Is

LEMMA ReleasedIs ==
  ASSUME NEW map, \A p \in DOMAIN map : map[p] \in Nat, NEW c
  PROVE  /\ DOMAIN Released(map, c) \subseteq DOMAIN map
         /\ \A p \in DOMAIN Released(map, c) : Released(map, c)[p] = map[p] - Is(c, p)
         /\ \A p \in DOMAIN map \ DOMAIN Released(map, c) : p = c /\ map[p] = 1
<1>1. CASE c \notin DOMAIN map
  <2>1. Released(map, c) = map
    BY <1>1 DEF Released
  <2>2. \A p \in DOMAIN map : Is(c, p) = 0 /\ map[p] = map[p] - Is(c, p)
    BY <1>1 DEF Is
  <2> QED
    BY ONLY <2>1, <2>2
<1>2. CASE c \in DOMAIN map /\ map[c] = 1
  <2>1. Released(map, c) = [p \in DOMAIN map \ {c} |-> map[p]]
    BY <1>2 DEF Released, Restrict
  <2> QED
    BY <1>2, <2>1 DEF Is
<1>3. CASE c \in DOMAIN map /\ map[c] # 1
  <2>1. Released(map, c) = [map EXCEPT ![c] = @ - 1]
    BY <1>3 DEF Released
  <2> QED
    BY <1>3, <2>1 DEF Is
<1> QED
  BY <1>1, <1>2, <1>3

-----------------------------------------------------------------------------
(* basics.js: how many cells hold a value, when one statement takes a step.*)

Where(f, c) == {t \in Stmts : f[t] = c}

(* g is f, except for what s has.                                          *)
Puts(f, g, s) ==
  /\ s \in Stmts /\ DOMAIN f = Stmts /\ DOMAIN g = Stmts
  /\ \A t \in Stmts \ {s} : g[t] = f[t]

LEMMA CountPut ==
  ASSUME NEW f, NEW g, NEW s, Puts(f, g, s), NEW c, IsFiniteSet(Where(f, c))
  PROVE  /\ Count(f, c) \in Nat
         /\ Count(f, c) >= Is(f[s], c)
         /\ Count(g, c) = Count(f, c) - Is(f[s], c) + Is(g[s], c)
<1> DEFINE A == Where(f, c)
           B == Where(g, c)
           Rest == A \ {s}
<1>1. IsFiniteSet(A) /\ Cardinality(A) \in Nat
  BY FS_CardinalityType
<1>2. IsFiniteSet(Rest) /\ Cardinality(Rest) \in Nat
  BY <1>1, FS_RemoveElement, FS_CardinalityType
<1>3. s \in A <=> f[s] = c
  BY DEF Where, Puts
<1>4. s \notin Rest
  OBVIOUS
<1>5. B = IF g[s] = c THEN Rest \cup {s} ELSE Rest
  BY DEF Where, Puts
<1>6. A = IF f[s] = c THEN Rest \cup {s} ELSE Rest
  BY <1>3
<1> HIDE DEF A, B, Rest
<1>7. IsFiniteSet(Rest \cup {s}) /\ Cardinality(Rest \cup {s}) = Cardinality(Rest) + 1
  BY <1>2, <1>4, FS_AddElement
<1>8. Cardinality(A) = Cardinality(Rest) + Is(f[s], c)
  BY <1>2, <1>6, <1>7 DEF Is
<1>9. IsFiniteSet(B) /\ Cardinality(B) = Cardinality(Rest) + Is(g[s], c)
  BY <1>2, <1>5, <1>7 DEF Is
<1>10. Is(f[s], c) \in 0..1 /\ Is(g[s], c) \in 0..1
  BY DEF Is
<1>11. Count(f, c) = Cardinality(A) /\ Count(g, c) = Cardinality(B)
  BY DEF Count, Where, A, B
<1> QED
  BY <1>2, <1>8, <1>9, <1>10, <1>11

(* What a step that puts a and b into the cells of s and takes it to place *)
(* adds to the cells that hold c.                                          *)
Delta(s, a, b, c) == Is(a, c) + Is(b, c) - Is(param[s], c) - Is(out[s], c)

Used(s) == pc[s] = "torn" \/ param[s] # "empty" \/ out[s] # "empty"

LEMMA UsedFinite ==
  ASSUME CellsInv
  PROVE  /\ IsFiniteSet(Where(pc, "torn"))
         /\ \A c : c # "empty" => IsFiniteSet(Where(param, c)) /\ IsFiniteSet(Where(out, c))
<1> DEFINE U == {t \in Stmts : Used(t)}
<1>1. IsFiniteSet(U)
  BY DEF CellsInv, Used
<1>2. Where(pc, "torn") \in SUBSET U
  BY DEF Used, Where
<1>3. ASSUME NEW c, c # "empty"
      PROVE  Where(param, c) \in SUBSET U /\ Where(out, c) \in SUBSET U
  BY <1>3 DEF Used, Where
<1> HIDE DEF U
<1> QED
  BY <1>1, <1>2, <1>3, FS_Subset

LEMMA OwedStep ==
  ASSUME NEW refs \in Nat, NEW held \in Nat, NEW torn \in Nat, refs - held \in 0..torn,
         NEW more \in 0..1, NEW delta \in Int, NEW refs2 \in Int, NEW held2 \in Nat,
         held2 = held + delta, refs2 - refs - delta \in 0..more
  PROVE  refs2 \in Nat /\ refs2 - held2 \in 0..(torn + more)
  OBVIOUS

(* A step of s that puts a and b into its cells and takes it to place; the *)
(* counts follow, and a step that tears s may leave one too many.          *)
Moves(s, a, b, place) ==
  /\ a \in Cells /\ b \in Cells /\ place \in Places
  /\ pc[s] # "torn" /\ (place \notin {"row", "torn"} => b = "empty")
  /\ pc' = [pc EXCEPT ![s] = place]
  /\ param' = [param EXCEPT ![s] = a]
  /\ out' = [out EXCEPT ![s] = b]
  /\ scarce' = scarce

Pays(s, a, b, place) ==
  /\ DOMAIN pointers' \subseteq DOMAIN pointers
  /\ \A p \in DOMAIN pointers' :
       /\ pointers'[p] \in Int
       /\ pointers'[p] - pointers[p] - Delta(s, a, b, p) \in 0..Is(place, "torn")
  /\ \A p \in DOMAIN pointers \ DOMAIN pointers' : pointers[p] + Delta(s, a, b, p) = 0
  /\ heap' \in Int
  /\ heap' - heap - Delta(s, a, b, "block") \in 0..Is(place, "torn")

(* The action of DestroyedWhenUnheld.                                      *)
Destroyed == \A p \in DOMAIN pointers \ DOMAIN pointers' : Holders(p)' = 0

LEMMA CellsStep ==
  ASSUME CellsInv, NEW s \in Stmts, NEW a, NEW b, NEW place,
         Moves(s, a, b, place), Pays(s, a, b, place)
  PROVE  CellsInv' /\ Destroyed
<1> USE DEF Moves, Pays
<1>1. /\ DOMAIN pointers \subseteq Ptrs
      /\ \A p \in DOMAIN pointers : pointers[p] \in Nat
      /\ heap \in Nat /\ scarce \in BOOLEAN
      /\ pc \in [Stmts -> Places] /\ param \in [Stmts -> Cells] /\ out \in [Stmts -> Cells]
  BY DEF CellsInv, FunctionsTypeOK
<1>2. Torn \in Nat /\ Torn' = Torn + Is(place, "torn")
  <2>1. /\ Count(pc, "torn") \in Nat
        /\ Count(pc', "torn") = Count(pc, "torn") - Is(pc[s], "torn") + Is(place, "torn")
    <3>1. Puts(pc, pc', s) /\ pc'[s] = place
      BY <1>1 DEF Puts
    <3>2. IsFiniteSet(Where(pc, "torn"))
      BY <1>1, UsedFinite
    <3> QED
      BY ONLY <3>1, <3>2, CountPut
  <2>2. Torn = Count(pc, "torn") /\ Torn' = Count(pc', "torn")
    BY DEF Torn, Count
  <2> QED
    BY <2>1, <2>2 DEF Is
<1>3. ASSUME NEW c, c # "empty"
      PROVE  /\ Holders(c) \in Nat /\ Holders(c)' \in Nat
             /\ Delta(s, a, b, c) \in Int
             /\ Holders(c)' = Holders(c) + Delta(s, a, b, c)
  <2>1. /\ Count(param, c) \in Nat /\ Count(param, c) >= Is(param[s], c)
        /\ Count(param', c) = Count(param, c) - Is(param[s], c) + Is(a, c)
    <3>1. Puts(param, param', s) /\ param'[s] = a
      BY <1>1 DEF Puts
    <3>2. IsFiniteSet(Where(param, c))
      BY <1>1, <1>3, UsedFinite
    <3> QED
      BY ONLY <3>1, <3>2, CountPut
  <2>2. /\ Count(out, c) \in Nat /\ Count(out, c) >= Is(out[s], c)
        /\ Count(out', c) = Count(out, c) - Is(out[s], c) + Is(b, c)
    <3>1. Puts(out, out', s) /\ out'[s] = b
      BY <1>1 DEF Puts
    <3>2. IsFiniteSet(Where(out, c))
      BY <1>1, <1>3, UsedFinite
    <3> QED
      BY ONLY <3>1, <3>2, CountPut
  <2>3. Holders(c) = Count(param, c) + Count(out, c) /\ Holders(c)' = Count(param', c) + Count(out', c)
    BY DEF Holders, Count
  <2>4. {Is(param[s], c), Is(a, c), Is(out[s], c), Is(b, c)} \subseteq Nat
    BY DEF Is
  <2> QED
    BY <2>1, <2>2, <2>3, <2>4 DEF Delta
<1>4. Is(place, "torn") \in 0..1
  BY DEF Is
<1>5. "empty" \notin Ptrs
  BY PtrsAssumption
<1>6. ASSUME NEW p \in DOMAIN pointers'
      PROVE  pointers'[p] \in Nat /\ pointers'[p] - Holders(p)' \in 0..Torn'
  <2>1. p # "empty" /\ pointers[p] \in Nat
    BY <1>1, <1>5
  <2>2. pointers[p] - Holders(p) \in 0..Torn
    BY DEF CellsInv, CellsAreCounted
  <2>3. pointers'[p] - pointers[p] - Delta(s, a, b, p) \in 0..Is(place, "torn") /\ pointers'[p] \in Int
    OBVIOUS
  <2>4. /\ Holders(p) \in Nat /\ Holders(p)' \in Nat /\ Delta(s, a, b, p) \in Int
        /\ Holders(p)' = Holders(p) + Delta(s, a, b, p)
    BY <1>3, <2>1
  <2>5. pointers'[p] \in Nat /\ pointers'[p] - Holders(p)' \in 0..(Torn + Is(place, "torn"))
    BY ONLY <1>2, <1>4, <2>1, <2>2, <2>3, <2>4, OwedStep
  <2> QED
    BY <1>2, <2>5
<1>7. heap' \in Nat /\ heap' - Holders("block")' \in 0..Torn'
  <2>1. heap - Holders("block") \in 0..Torn
    BY DEF CellsInv, CellsAreCounted
  <2>2. /\ Holders("block") \in Nat /\ Holders("block")' \in Nat
        /\ Delta(s, a, b, "block") \in Int
        /\ Holders("block")' = Holders("block") + Delta(s, a, b, "block")
    BY <1>3
  <2>3. heap' \in Nat /\ heap' - Holders("block")' \in 0..(Torn + Is(place, "torn"))
    BY <1>1, <1>2, <1>4, <2>1, <2>2, OwedStep
  <2> QED
    BY <1>2, <2>3
<1>8. ASSUME NEW p \in DOMAIN pointers \ DOMAIN pointers' PROVE Holders(p)' = 0
  <2>1. p # "empty" /\ pointers[p] \in Nat
    BY <1>1, <1>5
  <2>2. pointers[p] - Holders(p) \in 0..Torn
    BY DEF CellsInv, CellsAreCounted
  <2>3. pointers[p] + Delta(s, a, b, p) = 0
    OBVIOUS
  <2>4. /\ Holders(p) \in Nat /\ Holders(p)' \in Nat /\ Delta(s, a, b, p) \in Int
        /\ Holders(p)' = Holders(p) + Delta(s, a, b, p)
    BY <1>3, <2>1
  <2>5. ASSUME NEW h \in Nat, NEW h2 \in Nat, NEW x \in Nat, NEW d \in Int,
               x - h \in 0..Torn, x + d = 0, h2 = h + d
        PROVE  h2 = 0
    BY ONLY <2>5, <1>2
  <2> QED
    BY ONLY <2>1, <2>2, <2>3, <2>4, <2>5
<1>9. FunctionsTypeOK'
  BY <1>1, <1>6, <1>7 DEF FunctionsTypeOK
<1>10. CellsAreCounted'
  BY <1>6, <1>7 DEF CellsAreCounted
<1>11. \A t \in Stmts : pc'[t] \notin {"row", "torn"} => out'[t] = "empty"
  BY <1>1 DEF CellsInv
<1>12. IsFiniteSet({t \in Stmts : Used(t)'})
  <2>1. IsFiniteSet({t \in Stmts : Used(t)} \cup {s})
    BY FS_AddElement DEF CellsInv, Used
  <2>2. {t \in Stmts : Used(t)'} \in SUBSET ({t \in Stmts : Used(t)} \cup {s})
    BY <1>1 DEF Used
  <2> QED
    BY <2>1, <2>2, FS_Subset
<1> QED
  BY <1>8, <1>9, <1>10, <1>11, <1>12 DEF CellsInv, Destroyed, Used

-----------------------------------------------------------------------------
(* value.js, basics.js: every action keeps the counts.                     *)

LEMMA BlockIs == \A c : Block(c) = Is(c, "block")
  BY DEF Block, Is

(* What Bindable and Resultable accept goes into a cell as what it is.     *)
LEMMA CellIs ==
  ASSUME NEW v \in Ptrs \cup {"plain", "bytes"}
  PROVE  /\ Cell(v) \in Cells
         /\ \A p \in Ptrs : Is(v, p) = Is(Cell(v), p)
  BY PtrsAssumption DEF Cell, Cells, Is

(* Nothing changes but whether there is memory.                            *)
LEMMA CellsSame ==
  ASSUME CellsInv, UNCHANGED <<stmtVars, pointers, heap>>, scarce' \in BOOLEAN
  PROVE  CellsInv' /\ Destroyed
<1>1. FunctionsTypeOK'
  BY DEF CellsInv, FunctionsTypeOK, stmtVars
<1>2. CellsAreCounted'
  BY DEF CellsInv, CellsAreCounted, Holders, Count, Torn, stmtVars
<1>3. Destroyed
  BY DEF Destroyed
<1>4. {t \in Stmts : Used(t)'} = {t \in Stmts : Used(t)}
  BY DEF Used, stmtVars
<1> QED
  BY <1>1, <1>2, <1>3, <1>4 DEF CellsInv, Used, stmtVars

(* What the actions have in common.                                        *)
LEMMA CellsTyped ==
  ASSUME CellsInv, NEW s \in Stmts
  PROVE  /\ DOMAIN pointers \subseteq Ptrs
         /\ \A p \in DOMAIN pointers : pointers[p] \in Nat
         /\ heap \in Nat /\ scarce \in BOOLEAN
         /\ pc = [pc EXCEPT ![s] = pc[s]]
         /\ param = [param EXCEPT ![s] = param[s]]
         /\ out = [out EXCEPT ![s] = out[s]]
         /\ param[s] \in Cells /\ out[s] \in Cells
         /\ pc[s] \in {"ready", "awaiting"} => out[s] = "empty"
  BY DEF CellsInv, FunctionsTypeOK

LEMMA BindStep ==
  ASSUME CellsInv, NEW s \in Stmts, NEW v \in Values, Bind(s, v)
  PROVE  CellsInv' /\ Destroyed
<1> DEFINE map == Referred(pointers, v)
<1>1. /\ DOMAIN pointers \subseteq Ptrs
      /\ \A p \in DOMAIN pointers : pointers[p] \in Nat
      /\ heap \in Nat
      /\ param[s] \in Cells /\ out[s] \in Cells /\ out[s] = "empty" /\ pc[s] = "ready"
      /\ pc = [pc EXCEPT ![s] = "ready"]
      /\ param = [param EXCEPT ![s] = param[s]]
      /\ out = [out EXCEPT ![s] = out[s]]
  BY CellsTyped DEF Bind
<1>2. /\ Cell(v) \in Cells
      /\ \A p \in Ptrs : Is(v, p) = Is(Cell(v), p)
  BY CellIs DEF Bind, Bindable, Values
<1>3. /\ DOMAIN map = DOMAIN pointers
      /\ \A p \in DOMAIN pointers : map[p] = pointers[p] + Is(v, p) /\ map[p] \in Nat
  BY <1>1, ReferredIs
<1>4. \A x, c : Is(x, c) \in 0..1
  BY DEF Is
<1> HIDE DEF map
<1>5. CASE Known(map, param[s])
  <2>1. Moves(s, Cell(v), "empty", "ready")
    BY <1>1, <1>2, <1>5 DEF Bind, Moves, Places, Cells, map
  <2>2. /\ pointers' = Released(map, param[s])
        /\ heap' = heap + Is(Cell(v), "block") - Is(param[s], "block")
    BY <1>5, BlockIs DEF Bind, map
  <2>3. /\ DOMAIN pointers' \subseteq DOMAIN map
        /\ \A p \in DOMAIN pointers' : pointers'[p] = map[p] - Is(param[s], p)
        /\ \A p \in DOMAIN map \ DOMAIN pointers' : p = param[s] /\ map[p] = 1
    BY <1>3, <2>2, ReleasedIs
  <2>4. ASSUME NEW p \in DOMAIN pointers
        PROVE  /\ Delta(s, Cell(v), "empty", p) = Is(v, p) - Is(param[s], p)
               /\ p \in DOMAIN pointers' =>
                    pointers'[p] = pointers[p] + Is(v, p) - Is(param[s], p)
               /\ p \notin DOMAIN pointers' =>
                    pointers[p] + Is(v, p) - Is(param[s], p) = 0
    <3>1. p # "empty"
      BY <1>1, PtrsAssumption
    <3>2. Is("empty", p) = 0 /\ Is(out[s], p) = 0 /\ Is(v, p) = Is(Cell(v), p)
      BY <1>1, <1>2, <3>1 DEF Is
    <3>3. p \in DOMAIN map /\ map[p] = pointers[p] + Is(v, p) /\ pointers[p] \in Nat
      BY <1>1, <1>3
    <3>4. p \notin DOMAIN pointers' => map[p] = 1 /\ Is(param[s], p) = 1
      BY <2>3, <3>3 DEF Is
    <3> QED
      BY <1>4, <2>3, <3>2, <3>3, <3>4 DEF Delta
  <2>5. Delta(s, Cell(v), "empty", "block") = Is(Cell(v), "block") - Is(param[s], "block")
    BY <1>1, <1>4 DEF Delta, Is
  <2>6. Is("ready", "torn") = 0
    BY DEF Is
  <2>7. Pays(s, Cell(v), "empty", "ready")
    BY <1>1, <1>3, <1>4, <2>2, <2>3, <2>4, <2>5, <2>6 DEF Pays
  <2> QED
    BY <2>1, <2>7, CellsStep
<1>6. CASE ~Known(map, param[s])
  <2>1. Moves(s, param[s], "empty", "torn")
    BY <1>1, <1>6 DEF Bind, Goto, Moves, Places, Cells, map
  <2>2. pointers' = map /\ heap' = heap + Is(Cell(v), "block")
    BY <1>6, BlockIs DEF Bind, map
  <2>3. \A c : Delta(s, param[s], "empty", c) = 0
    BY <1>1, <1>4 DEF Delta
  <2>4. Is("torn", "torn") = 1
    BY DEF Is
  <2>5. Pays(s, param[s], "empty", "torn")
    BY <1>1, <1>3, <1>4, <2>2, <2>3, <2>4 DEF Pays
  <2> QED
    BY <2>1, <2>5, CellsStep
<1> QED
  BY <1>5, <1>6

(* What LetGo pays, for the cells of either kind: c is what is dropped.    *)
LEMMA LetGoPays ==
  ASSUME NEW map, NEW map2, NEW c, DOMAIN map \subseteq Ptrs,
         \A p \in DOMAIN map : map[p] \in Nat, map2 = Released(map, c)
  PROVE  /\ DOMAIN map2 \subseteq DOMAIN map
         /\ \A p \in DOMAIN map2 : map2[p] \in Int /\ map2[p] - map[p] + Is(c, p) = 0
         /\ \A p \in DOMAIN map \ DOMAIN map2 : map[p] - Is(c, p) = 0
<1>1. /\ DOMAIN map2 \subseteq DOMAIN map
      /\ \A p \in DOMAIN map2 : map2[p] = map[p] - Is(c, p)
      /\ \A p \in DOMAIN map \ DOMAIN map2 : p = c /\ map[p] = 1
  BY ReleasedIs
<1>2. \A x, y : Is(x, y) \in 0..1
  BY DEF Is
<1>3. \A p \in DOMAIN map \ DOMAIN map2 : Is(c, p) = 1
  BY <1>1 DEF Is
<1> QED
  BY <1>1, <1>2, <1>3

LEMMA ParamLetGo ==
  ASSUME CellsInv, NEW s \in Stmts, NEW place \in {"ready", "finalized"}, pc[s] = "ready",
         LetGo(param, s, pointers, place), UNCHANGED <<out, scarce>>
  PROVE  CellsInv' /\ Destroyed
<1>1. /\ DOMAIN pointers \subseteq Ptrs
      /\ \A p \in DOMAIN pointers : pointers[p] \in Nat
      /\ heap \in Nat
      /\ param[s] \in Cells /\ out[s] \in Cells /\ out[s] = "empty"
      /\ param = [param EXCEPT ![s] = param[s]]
      /\ out = [out EXCEPT ![s] = out[s]]
  BY CellsTyped
<1>2. \A x, c : Is(x, c) \in 0..1
  BY DEF Is
<1>3. \A p \in DOMAIN pointers \cup {"block"} : Is("empty", p) = 0
  BY <1>1, PtrsAssumption DEF Is
<1>4. CASE Known(pointers, param[s])
  <2>1. Moves(s, "empty", "empty", place)
    BY <1>1, <1>4 DEF LetGo, Goto, Moves, Places, Cells
  <2>2. pointers' = Released(pointers, param[s]) /\ heap' = heap - Is(param[s], "block")
    BY <1>4, BlockIs DEF LetGo
  <2>3. /\ DOMAIN pointers' \subseteq DOMAIN pointers
        /\ \A p \in DOMAIN pointers' :
             pointers'[p] \in Int /\ pointers'[p] - pointers[p] + Is(param[s], p) = 0
        /\ \A p \in DOMAIN pointers \ DOMAIN pointers' : pointers[p] - Is(param[s], p) = 0
    BY <1>1, <2>2, LetGoPays
  <2>4. \A p \in DOMAIN pointers \cup {"block"} :
          Delta(s, "empty", "empty", p) = 0 - Is(param[s], p)
    BY <1>1, <1>2, <1>3 DEF Delta
  <2>5. Is(place, "torn") = 0
    BY DEF Is
  <2>6. Pays(s, "empty", "empty", place)
    BY <1>1, <1>2, <2>2, <2>3, <2>4, <2>5 DEF Pays
  <2> QED
    BY <2>1, <2>6, CellsStep
<1>5. CASE ~Known(pointers, param[s])
  <2>1. Moves(s, param[s], "empty", "torn")
    BY <1>1, <1>5 DEF LetGo, Goto, Moves, Places, Cells
  <2>2. pointers' = pointers /\ heap' = heap
    BY <1>5 DEF LetGo
  <2>3. \A c : Delta(s, param[s], "empty", c) = 0
    BY <1>1, <1>2 DEF Delta
  <2>4. Pays(s, param[s], "empty", "torn")
    BY <1>1, <1>2, <2>2, <2>3 DEF Pays
  <2> QED
    BY <2>1, <2>4, CellsStep
<1> QED
  BY <1>4, <1>5

LEMMA OutLetGo ==
  ASSUME CellsInv, NEW s \in Stmts, Reset(s)
  PROVE  CellsInv' /\ Destroyed
<1>1. /\ DOMAIN pointers \subseteq Ptrs
      /\ \A p \in DOMAIN pointers : pointers[p] \in Nat
      /\ heap \in Nat
      /\ param[s] \in Cells /\ out[s] \in Cells /\ pc[s] # "torn"
      /\ param = [param EXCEPT ![s] = param[s]]
      /\ out = [out EXCEPT ![s] = out[s]]
  BY CellsTyped DEF Reset
<1>2. \A x, c : Is(x, c) \in 0..1
  BY DEF Is
<1>3. \A p \in DOMAIN pointers \cup {"block"} : Is("empty", p) = 0
  BY <1>1, PtrsAssumption DEF Is
<1>4. CASE Known(pointers, out[s])
  <2>1. Moves(s, param[s], "empty", "ready")
    BY <1>1, <1>4 DEF Reset, LetGo, Goto, Moves, Places, Cells
  <2>2. pointers' = Released(pointers, out[s]) /\ heap' = heap - Is(out[s], "block")
    BY <1>4, BlockIs DEF Reset, LetGo
  <2>3. /\ DOMAIN pointers' \subseteq DOMAIN pointers
        /\ \A p \in DOMAIN pointers' :
             pointers'[p] \in Int /\ pointers'[p] - pointers[p] + Is(out[s], p) = 0
        /\ \A p \in DOMAIN pointers \ DOMAIN pointers' : pointers[p] - Is(out[s], p) = 0
    BY <1>1, <2>2, LetGoPays
  <2>4. \A p \in DOMAIN pointers \cup {"block"} :
          Delta(s, param[s], "empty", p) = 0 - Is(out[s], p)
    BY <1>1, <1>2, <1>3 DEF Delta
  <2>5. Is("ready", "torn") = 0
    BY DEF Is
  <2>6. Pays(s, param[s], "empty", "ready")
    BY <1>1, <1>2, <2>2, <2>3, <2>4, <2>5 DEF Pays
  <2> QED
    BY <2>1, <2>6, CellsStep
<1>5. CASE ~Known(pointers, out[s])
  <2>1. Moves(s, param[s], out[s], "torn")
    BY <1>1, <1>5 DEF Reset, LetGo, Goto, Moves, Places, Cells
  <2>2. pointers' = pointers /\ heap' = heap
    BY <1>5 DEF Reset, LetGo
  <2>3. \A c : Delta(s, param[s], out[s], c) = 0
    BY <1>1, <1>2 DEF Delta
  <2>4. Pays(s, param[s], out[s], "torn")
    BY <1>1, <1>2, <2>2, <2>3 DEF Pays
  <2> QED
    BY <2>1, <2>4, CellsStep
<1> QED
  BY <1>4, <1>5

(* A call that is suspended.                                               *)
LEMMA AwaitStep ==
  ASSUME CellsInv, NEW s \in Stmts, pc[s] = "ready", Goto(s, "awaiting"),
         UNCHANGED <<param, out, valueVars>>
  PROVE  CellsInv' /\ Destroyed
<1>1. /\ DOMAIN pointers \subseteq Ptrs
      /\ \A p \in DOMAIN pointers : pointers[p] \in Nat
      /\ heap \in Nat
      /\ param[s] \in Cells /\ out[s] \in Cells /\ out[s] = "empty"
      /\ param = [param EXCEPT ![s] = param[s]]
      /\ out = [out EXCEPT ![s] = out[s]]
  BY CellsTyped
<1>2. \A x, c : Is(x, c) \in 0..1
  BY DEF Is
<1>3. Moves(s, param[s], "empty", "awaiting")
  BY <1>1 DEF Goto, Moves, Places, Cells, valueVars
<1>4. \A c : Delta(s, param[s], "empty", c) = 0
  BY <1>1, <1>2 DEF Delta
<1>5. Pays(s, param[s], "empty", "awaiting")
  BY <1>1, <1>2, <1>4 DEF Pays, valueVars
<1> QED
  BY <1>3, <1>5, CellsStep

(* What an answer makes of a value.                                        *)
LEMMA AnswerIs ==
  ASSUME NEW v \in Values, scarce \in BOOLEAN
  PROVE  /\ Unguarded(v) \in {"row", "failed", "thrown"}
         /\ Guarded(v) \in {"row", "failed", "thrown"}
         /\ "row" \in {Unguarded(v), Guarded(v)} => v \in Ptrs \cup {"plain", "bytes"}
<1>1. Handled("error") \in {"OutOfMemError", "failed"}
  BY DEF Handled, Allocates
<1>2. Handled(v) \in {"Error", "OutOfMemError", "failed", "row"}
  BY DEF Handled
<1>3. Handled(v) = "row" => v \in Ptrs \cup {"plain", "bytes"}
  BY DEF Handled, Allocates, Values
<1>4. Unguarded("error") \in {"failed", "thrown"}
  BY <1>1 DEF Unguarded
<1>5. Unguarded(v) \in {"row", "failed", "thrown"} /\ (Unguarded(v) = "row" => Handled(v) = "row")
  BY <1>2 DEF Unguarded
<1>6. Guarded(v) \in {"row", "failed", "thrown"} /\ (Guarded(v) = "row" => Handled(v) = "row")
  BY <1>2, <1>4, <1>5 DEF Guarded
<1> QED
  BY <1>3, <1>5, <1>6

LEMMA AnswerStep ==
  ASSUME CellsInv, NEW s \in Stmts, pc[s] \in {"ready", "awaiting"},
         NEW v \in Values, NEW place \in {"row", "failed", "thrown"},
         place = "row" => v \in Ptrs \cup {"plain", "bytes"},
         Answer(s, v, place)
  PROVE  CellsInv' /\ Destroyed
<1>1. /\ DOMAIN pointers \subseteq Ptrs
      /\ \A p \in DOMAIN pointers : pointers[p] \in Nat
      /\ heap \in Nat
      /\ param[s] \in Cells /\ out[s] \in Cells /\ out[s] = "empty"
      /\ param = [param EXCEPT ![s] = param[s]]
      /\ out = [out EXCEPT ![s] = out[s]]
  BY CellsTyped
<1>2. \A x, c : Is(x, c) \in 0..1
  BY DEF Is
<1>3. CASE place = "row"
  <2>1. /\ Cell(v) \in Cells
        /\ \A p \in Ptrs : Is(v, p) = Is(Cell(v), p)
    BY <1>3, CellIs
  <2>2. Moves(s, param[s], Cell(v), "row")
    BY <1>1, <1>3, <2>1 DEF Answer, Goto, Moves, Places
  <2>3. pointers' = Referred(pointers, v) /\ heap' = heap + Is(Cell(v), "block")
    BY <1>3, BlockIs DEF Answer
  <2>4. /\ DOMAIN pointers' = DOMAIN pointers
        /\ \A p \in DOMAIN pointers : pointers'[p] = pointers[p] + Is(Cell(v), p)
    BY <1>1, <2>1, <2>3, ReferredIs
  <2>5. \A p \in DOMAIN pointers \cup {"block"} :
          Delta(s, param[s], Cell(v), p) = Is(Cell(v), p)
    <3>1. \A p \in DOMAIN pointers \cup {"block"} : Is("empty", p) = 0
      BY <1>1, PtrsAssumption DEF Is
    <3> QED
      BY <1>1, <1>2, <3>1 DEF Delta
  <2>6. Pays(s, param[s], Cell(v), "row")
    BY <1>1, <1>2, <2>3, <2>4, <2>5 DEF Pays
  <2> QED
    BY <2>2, <2>6, CellsStep
<1>4. CASE place # "row"
  <2>1. Moves(s, param[s], "empty", place)
    BY <1>1, <1>4 DEF Answer, Goto, Moves, Places, Cells
  <2>2. pointers' = pointers /\ heap' = heap
    BY <1>4 DEF Answer
  <2>3. \A c : Delta(s, param[s], "empty", c) = 0
    BY <1>1, <1>2 DEF Delta
  <2>4. Pays(s, param[s], "empty", place)
    BY <1>1, <1>2, <2>2, <2>3 DEF Pays
  <2> QED
    BY <2>1, <2>4, CellsStep
<1> QED
  BY <1>3, <1>4

(* A Pointer that no statement has got: it goes if nothing holds it.       *)
LEMMA NothingStep ==
  ASSUME CellsInv, NEW q, BindToNothing(q)
  PROVE  CellsInv' /\ Destroyed
<1> DEFINE map == Referred(pointers, q)
<1>1. /\ DOMAIN pointers \subseteq Ptrs
      /\ \A p \in DOMAIN pointers : pointers[p] \in Nat
      /\ heap \in Nat /\ q \in DOMAIN pointers
  BY DEF CellsInv, FunctionsTypeOK, BindToNothing
<1>2. /\ DOMAIN map = DOMAIN pointers
      /\ \A p \in DOMAIN pointers : map[p] = pointers[p] + Is(q, p) /\ map[p] \in Nat
  BY <1>1, ReferredIs
<1>3. pointers' = Released(map, q)
  BY DEF BindToNothing
<1> HIDE DEF map
<1>4. /\ DOMAIN pointers' \subseteq DOMAIN map
      /\ \A p \in DOMAIN pointers' : pointers'[p] = map[p] - Is(q, p)
      /\ \A p \in DOMAIN map \ DOMAIN pointers' : p = q /\ map[p] = 1
  BY <1>2, <1>3, ReleasedIs
<1>5. Is(q, q) = 1 /\ \A p : Is(q, p) \in 0..1
  BY DEF Is
<1>6. \A p \in DOMAIN pointers' : p \in DOMAIN pointers /\ pointers'[p] = pointers[p]
  BY <1>1, <1>2, <1>4, <1>5
<1>7. \A p \in DOMAIN pointers \ DOMAIN pointers' : pointers[p] = 0
  BY <1>1, <1>2, <1>4, <1>5
<1>8. UNCHANGED <<stmtVars, heap, scarce>>
  BY DEF BindToNothing
<1>9. FunctionsTypeOK'
  <2>1. /\ DOMAIN pointers' \subseteq Ptrs
        /\ \A p \in DOMAIN pointers' : pointers'[p] \in Nat
    BY <1>1, <1>2, <1>4, <1>6
  <2>2. FunctionsTypeOK
    BY DEF CellsInv
  <2> QED
    BY <1>8, <2>1, <2>2 DEF FunctionsTypeOK, stmtVars
<1>10. Torn' = Torn /\ \A c : Holders(c)' = Holders(c)
  BY <1>8 DEF Torn, Holders, Count, stmtVars
<1>11. CellsAreCounted'
  BY <1>6, <1>8, <1>10 DEF CellsInv, CellsAreCounted
<1>12. ASSUME NEW p \in DOMAIN pointers \ DOMAIN pointers' PROVE Holders(p)' = 0
  <2>1. p # "empty" /\ p \in Ptrs
    BY <1>1, PtrsAssumption
  <2>2. Count(param, p) \in Nat /\ Count(out, p) \in Nat
    BY <2>1, UsedFinite, FS_CardinalityType DEF Where, Count
  <2>3. 0 - Holders(p) \in 0..Torn
    BY <1>7 DEF CellsInv, CellsAreCounted
  <2>4. Holders(p) = 0
    <3>1. Holders(p) \in Nat
      BY <2>2 DEF Holders
    <3> HIDE DEF Holders, Torn
    <3> QED
      BY <2>3, <3>1
  <2> QED
    BY <1>10, <2>4
<1>13. {t \in Stmts : Used(t)'} = {t \in Stmts : Used(t)}
  BY <1>8 DEF Used, stmtVars
<1> QED
  BY <1>8, <1>9, <1>11, <1>12, <1>13 DEF CellsInv, Destroyed, Used, stmtVars

LEMMA CellsInit == FunctionsInit => CellsInv
<1> SUFFICES ASSUME FunctionsInit PROVE CellsInv
  OBVIOUS
<1>1. FunctionsTypeOK
  BY DEF FunctionsInit, ValuesInit, FunctionsTypeOK, Places, Cells
<1>2. \A c : Where(pc, "torn") = {} /\ (c # "empty" => Where(param, c) = {} /\ Where(out, c) = {})
  BY DEF FunctionsInit, Where
<1>3. IsFiniteSet({}) /\ Cardinality({}) = 0
  BY FS_EmptySet
<1>4. Torn = 0 /\ \A c : c # "empty" => Holders(c) = 0
  BY <1>2, <1>3 DEF Torn, Holders, Count, Where
<1>5. CellsAreCounted
  BY <1>4, PtrsAssumption DEF CellsAreCounted, FunctionsInit, ValuesInit
<1>6. {s \in Stmts : pc[s] = "torn" \/ param[s] # "empty" \/ out[s] # "empty"} = {}
  BY DEF FunctionsInit
<1> QED
  BY <1>1, <1>3, <1>5, <1>6 DEF CellsInv, FunctionsInit

(* The steps of a call of blob_io that are not its end leave it alone.     *)
BlobMoves(s) ==
  \/ BlobOpens(s) \/ StreamReads(s) \/ BlobWrites(s) \/ BlobRefuses(s)
  \/ BlobReads(s) \/ WriterIsReady(s) \/ WriterRejects(s)
  \/ StreamWrites(s) \/ StreamCloses(s) \/ StreamFails(s)

LEMMA MovesOutside ==
  ASSUME NEW s, BlobMoves(s)
  PROVE  Outside
  BY DEF BlobMoves, BlobOpens, StreamReads, BlobWrites, BlobRefuses, BlobReads, WriterIsReady,
         WriterRejects, StreamWrites, StreamCloses, StreamFails

(* What a call of blob_io has to answer when it ends.                      *)
RetTyped == \A s \in BlobCalls : io[s].at = "closing" => io[s].ret \in {"plain", "error"}

LEMMA CellsNext ==
  ASSUME CellsInv, RetTyped, [Next]_vars
  PROVE  CellsInv' /\ Destroyed
<1>1. scarce \in BOOLEAN
  BY DEF CellsInv, FunctionsTypeOK
<1>2. "error" \in Values /\ "plain" \in Values
  BY DEF Values
<1>3. \A s \in BlobCalls : s \in Stmts
  BY BlobAssumption
<1>4. ASSUME NEW s \in Stmts, NEW v \in Values, Bind(s, v)
      PROVE  CellsInv' /\ Destroyed
  BY <1>4, BindStep
<1>5. ASSUME NEW s \in Stmts, Clear(s) \/ Reset(s) \/ Finalize(s)
      PROVE  CellsInv' /\ Destroyed
  <2>1. CASE Clear(s)
    BY <2>1, ParamLetGo DEF Clear
  <2>2. CASE Reset(s)
    BY <2>2, OutLetGo
  <2>3. CASE Finalize(s)
    BY <2>3, ParamLetGo DEF Finalize
  <2> QED
    BY <1>5, <2>1, <2>2, <2>3
<1>6. ASSUME NEW q \in Ptrs, BindToNothing(q)
      PROVE  CellsInv' /\ Destroyed
  BY <1>6, NothingStep
<1>7. ASSUME NEW s \in Stmts, NEW v \in Values,
             CallReturns(s, v) \/ CallThrows(s, v) \/ PromiseSettles(s, v)
      PROVE  CellsInv' /\ Destroyed
  <2>1. /\ Unguarded(v) \in {"row", "failed", "thrown"}
        /\ Guarded(v) \in {"row", "failed", "thrown"}
        /\ "row" \in {Unguarded(v), Guarded(v)} => v \in Ptrs \cup {"plain", "bytes"}
    BY <1>1, AnswerIs
  <2>2. CASE CallReturns(s, v)
    BY <2>1, <2>2, AnswerStep DEF CallReturns
  <2>3. CASE CallThrows(s, v) \/ PromiseSettles(s, v)
    BY <2>1, <2>3, AnswerStep DEF CallThrows, PromiseSettles
  <2> QED
    BY <1>7, <2>2, <2>3
<1>8. ASSUME NEW s \in Stmts, CallAwaits(s)
      PROVE  CellsInv' /\ Destroyed
  BY <1>8, AwaitStep DEF CallAwaits
<1>9. ASSUME NEW s \in BlobCalls, NEW a \in Args, BlobCall(s, a[1], a[2], a[3])
      PROVE  CellsInv' /\ Destroyed
  <2>1. /\ pc[s] = "ready" /\ Goto(s, "awaiting")
        /\ UNCHANGED <<param, out, valueVars>>
    BY <1>9 DEF BlobCall
  <2> QED
    BY <1>3, <2>1, AwaitStep
<1>10. ASSUME NEW s \in BlobCalls, BlobCallThrows(s)
       PROVE  CellsInv' /\ Destroyed
  <2>1. PICK place \in {Unguarded("error"), "failed"} : Answer(s, "error", place)
    BY <1>10 DEF BlobCallThrows
  <2>2. Unguarded("error") \in {"row", "failed", "thrown"} /\ Unguarded("error") # "row"
    BY <1>1, <1>2, AnswerIs, PtrsAssumption
  <2>3. pc[s] = "ready"
    BY <1>10 DEF BlobCallThrows
  <2> QED
    BY <1>2, <1>3, <2>1, <2>2, <2>3, AnswerStep
<1>11. ASSUME NEW s \in BlobCalls, BlobStep(s)
       PROVE  CellsInv' /\ Destroyed
  <2>1. CASE BlobCloses(s)
    <3>1. io[s].ret \in Values /\ PromiseSettles(s, io[s].ret)
      BY <1>2, <2>1 DEF BlobCloses, At, RetTyped
    <3> QED
      BY <1>3, <1>7, <3>1
  <2>2. CASE BlobMoves(s)
    <3>1. Outside
      BY <2>2, MovesOutside
    <3> QED
      BY <1>1, <3>1, CellsSame DEF Outside, valueVars
  <2> QED
    BY <1>11, <2>1, <2>2 DEF BlobStep, BlobMoves
<1>12. ASSUME MemoryChanges, UNCHANGED <<stmtVars, blobVars>>
       PROVE  CellsInv' /\ Destroyed
  BY <1>1, <1>12, CellsSame DEF MemoryChanges
<1>13. ASSUME UNCHANGED vars
       PROVE  CellsInv' /\ Destroyed
  BY <1>1, <1>13, CellsSame DEF vars, valueVars
<1> QED
  BY <1>4, <1>5, <1>6, <1>7, <1>8, <1>9, <1>10, <1>11, <1>12, <1>13 DEF Next

-----------------------------------------------------------------------------
(* blob_io.js: where a call is, when its record changes.                   *)

LEMMA CallFields ==
  ASSUME NEW r \in IoCalls
  PROVE  /\ r.at \in Awaits /\ r.at # "none"
         /\ r.stream \in Ptrs /\ r.ret \in {"plain", "error"}
         /\ r.first \in Nat /\ r.offset \in Nat /\ r.end \in Nat /\ r.room \in Nat
         /\ r.start \in Nat /\ r.chunk \in Seq(Nat) /\ r.copied \in Seq(Nat)
         /\ Len(r.chunk) \in Nat
  BY LenProperties DEF IoCalls, Awaits

(* Only where it waits changes, and what it will return.                   *)
Marked(r, x, y) == [r EXCEPT !.at = x, !.ret = y]

LEMMA MarkedIs ==
  ASSUME NEW r \in IoCalls, NEW x \in Awaits, NEW y \in {"plain", "error"}
  PROVE  /\ Marked(r, x, y) \in IoCalls
         /\ Marked(r, x, y).at = x /\ Marked(r, x, y).ret = y
         /\ Marked(r, x, y).stream = r.stream /\ Marked(r, x, y).first = r.first
         /\ Marked(r, x, y).offset = r.offset /\ Marked(r, x, y).end = r.end
         /\ Marked(r, x, y).room = r.room /\ Marked(r, x, y).chunk = r.chunk
         /\ Marked(r, x, y).start = r.start /\ Marked(r, x, y).copied = r.copied
  BY DEF IoCalls, Marked

LEMMA MarkAt ==
  ASSUME NEW r \in IoCalls, NEW x \in Awaits
  PROVE  [r EXCEPT !.at = x] = Marked(r, x, r.ret)
  BY DEF IoCalls, Marked

(* The offset is in the region, and what has been copied is what it says.  *)
Located(r, size) ==
  /\ r.room <= size /\ r.first <= r.offset
  /\ \/ r.offset = r.first
     \/ r.offset < r.end + (IF r.stream \in Readable THEN size ELSE 1)
  /\ r.copied \in {<<>>, Region(r)}

LEMMA InPlaceLocated ==
  ASSUME NEW r, NEW size, InPlace(r, size)
  PROVE  Located(r, size)
  BY DEF InPlace, Located

LEMMA MarkedInPlace ==
  ASSUME NEW r \in IoCalls, NEW size, Located(r, size),
         NEW x \in Awaits \ {"opening", "writing", "draining"}, NEW y \in {"plain", "error"},
         x \in {"reading", "filling"} => More(r) /\ r.copied = Region(r),
         x = "reading" => r.stream \in Readable,
         x = "filling" => r.stream \notin Readable
  PROVE  InPlace(Marked(r, x, y), size)
<1>1. PICK r2 \in IoCalls : r2 = Marked(r, x, y)
  BY MarkedIs
<1>2. /\ r2.at = x /\ r2.stream = r.stream /\ r2.first = r.first /\ r2.offset = r.offset
      /\ r2.end = r.end /\ r2.room = r.room /\ r2.chunk = r.chunk /\ r2.start = r.start
      /\ r2.copied = r.copied
  BY <1>1, MarkedIs
<1>3. Region(r2) = Region(r)
  BY <1>2 DEF Region
<1> HIDE DEF Marked
<1>4. InPlace(r2, size)
  BY <1>2, <1>3 DEF InPlace, Located, More
<1> QED
  BY <1>1, <1>4

(* The blob when the next len bytes of the stream are in it.               *)
StreamRegion(n, first, offset, start) ==
  [i \in 1..n |-> IF i - first \in 1..(offset - first) THEN start + i - first ELSE 0]

Overlaid(old, chunk, offset) ==
  [i \in DOMAIN old |-> IF i - offset \in DOMAIN chunk THEN chunk[i - offset] ELSE old[i]]

Chunk(from, len) == [i \in 1..len |-> from + i]

Grows(n, first, offset, len, start) ==
  LET new == Overlaid(StreamRegion(n, first, offset, start),
                      Chunk(start + offset - first, len), offset) IN
  new = StreamRegion(n, first, offset + len, start) /\ new \in [1..n -> Nat]

LEMMA RegionGrows ==
  ASSUME NEW n \in Nat, NEW first \in Nat, NEW offset \in Nat, NEW len \in Nat,
         NEW start \in Nat, first <= offset
  PROVE  Grows(n, first, offset, len, start)
<1>0. PICK old, chunk : /\ old = StreamRegion(n, first, offset, start)
                        /\ chunk = Chunk(start + offset - first, len)
  OBVIOUS
<1>1. DOMAIN old = 1..n /\ DOMAIN chunk = 1..len
  BY <1>0 DEF StreamRegion, Chunk
<1>2. ASSUME NEW i \in 1..n
      PROVE  /\ (IF i - offset \in DOMAIN chunk THEN chunk[i - offset] ELSE old[i])
                = IF i - first \in 1..(offset + len - first) THEN start + i - first ELSE 0
             /\ (IF i - offset \in DOMAIN chunk THEN chunk[i - offset] ELSE old[i]) \in Nat
  <2>1. old[i] = IF i - first \in 1..(offset - first) THEN start + i - first ELSE 0
    BY <1>0 DEF StreamRegion
  <2>2. i \in Nat
    OBVIOUS
  <2>3. CASE i - offset \in 1..len
    <3>1. PICK j \in 1..len : j = i - offset
      BY <2>3
    <3>2. chunk[j] = start + offset - first + j
      BY <1>0, <3>1 DEF Chunk
    <3>3. start + offset - first + j = start + i - first
      BY <2>2, <3>1
    <3>4. i - first \in 1..(offset + len - first)
      BY <2>2, <3>1
    <3> QED
      BY <1>1, <2>2, <2>3, <3>1, <3>2, <3>3, <3>4
  <2>4. CASE i - offset \notin 1..len
    <3>1. i - first \in 1..(offset + len - first) <=> i - first \in 1..(offset - first)
      BY <2>2, <2>4
    <3> QED
      BY <1>1, <2>1, <2>2, <2>4, <3>1
  <2> QED
    BY <2>3, <2>4
<1>3. PICK new : new = Overlaid(old, chunk, offset)
  OBVIOUS
<1>4. /\ DOMAIN new = 1..n
      /\ \A i \in 1..n :
           /\ new[i] = IF i - first \in 1..(offset + len - first) THEN start + i - first ELSE 0
           /\ new[i] \in Nat
      /\ new = [i \in 1..n |-> new[i]]
  BY <1>1, <1>2, <1>3 DEF Overlaid
<1>5. new = [i \in 1..n |->
               IF i - first \in 1..(offset + len - first) THEN start + i - first ELSE 0]
  BY <1>4
<1>6. new = StreamRegion(n, first, offset + len, start)
  BY <1>5 DEF StreamRegion
<1>7. new \in [1..n -> Nat]
  BY <1>4
<1> QED
  BY <1>0, <1>3, <1>6, <1>7 DEF Grows

(* A chunk of the stream has been written into the blob.                   *)
LEMMA AdvancedLocated ==
  ASSUME NEW s, NEW r \in IoCalls, NEW size \in Nat, InPlace(r, size), r.at = "writing"
  PROVE  /\ Advanced(s, r) \in IoCalls
         /\ Located(Advanced(s, r), size)
         /\ Advanced(s, r).copied = Region(Advanced(s, r))
         /\ Advanced(s, r).stream = r.stream /\ Advanced(s, r).first = r.first
         /\ Advanced(s, r).start = r.start
         /\ Advanced(s, r).offset = r.offset + Len(r.chunk)
<1>1. PICK len \in Nat : len = Len(r.chunk)
  BY CallFields
<1>2. /\ r.stream \in Readable /\ r.first <= r.offset /\ r.offset < r.end
      /\ r.room <= size /\ len <= size /\ r.copied = Region(r)
      /\ r.chunk = [i \in 1..len |-> r.start + r.offset - r.first + i]
  BY <1>1 DEF InPlace
<1>3. /\ r.first \in Nat /\ r.offset \in Nat /\ r.end \in Nat /\ r.start \in Nat
      /\ r.room \in Nat /\ BlobSize \in Nat
  BY CallFields, BlobAssumption
<1>4. r.copied = StreamRegion(BlobSize, r.first, r.offset, r.start)
  BY <1>2 DEF Region, StreamRegion
<1>5. PICK new : new = Overlaid(r.copied, r.chunk, r.offset)
  OBVIOUS
<1>6. PICK to \in Nat : to = r.offset + len
  BY <1>3
<1>7. /\ new = StreamRegion(BlobSize, r.first, to, r.start)
      /\ new \in [1..BlobSize -> Nat]
  <2>1. Grows(BlobSize, r.first, r.offset, len, r.start)
    BY <1>2, <1>3, RegionGrows
  <2>2. r.chunk = Chunk(r.start + r.offset - r.first, len)
    BY <1>2 DEF Chunk
  <2>3. new = Overlaid(StreamRegion(BlobSize, r.first, r.offset, r.start),
                       Chunk(r.start + r.offset - r.first, len), r.offset)
    BY <1>4, <1>5, <2>2
  <2> QED
    BY <1>6, <2>1, <2>3 DEF Grows
<1>8. new \in Seq(Nat)
  BY <1>3, <1>7, FunctionIsSeq
<1>9. PICK r2 : r2 = [r EXCEPT !.offset = to, !.copied = new]
  OBVIOUS
<1>10. r2 = Advanced(s, r)
  BY <1>1, <1>5, <1>6, <1>9 DEF Advanced, Overlaid
<1>11. /\ r2 \in IoCalls /\ r2.offset = to /\ r2.copied = new
       /\ r2.stream = r.stream /\ r2.first = r.first /\ r2.end = r.end
       /\ r2.room = r.room /\ r2.start = r.start
  BY <1>6, <1>8, <1>9 DEF IoCalls
<1>12. new = Region(r2)
  <2>1. Region(r2) = StreamRegion(BlobSize, r2.first, r2.offset, r2.start)
    BY <1>2, <1>11 DEF Region, StreamRegion
  <2> QED
    BY <1>7, <1>11, <2>1
<1>13. Located(r2, size)
  BY <1>2, <1>3, <1>6, <1>11, <1>12 DEF Located
<1> QED
  BY <1>1, <1>6, <1>10, <1>11, <1>12, <1>13

(* A chunk of the blob has been written into the stream.                   *)
Drained(r) == [r EXCEPT !.offset = @ + Len(r.chunk), !.copied = @ \o r.chunk]

LEMMA DrainedLocated ==
  ASSUME NEW r \in IoCalls, NEW size \in Nat, InPlace(r, size), r.at = "draining"
  PROVE  /\ Drained(r) \in IoCalls
         /\ Located(Drained(r), size)
         /\ Drained(r).copied = Region(Drained(r))
         /\ Drained(r).stream = r.stream
<1> DEFINE new == r.copied \o r.chunk
<1>0. /\ r.first \in Nat /\ r.offset \in Nat /\ r.end \in Nat /\ r.start \in Nat
      /\ r.room \in Nat /\ r.copied \in Seq(Nat) /\ r.chunk \in Seq(Nat)
      /\ r.first <= r.offset
  BY CallFields DEF InPlace
<1>1. PICK len \in Nat : /\ len = Len(r.chunk)
                         /\ r.stream \notin Readable /\ r.offset < r.end
                         /\ r.room <= size /\ len <= r.end - r.offset /\ r.copied = Region(r)
                         /\ r.chunk = [i \in 1..len |-> r.offset + i]
  BY CallFields DEF InPlace
<1>2. PICK n \in Nat : n = r.offset - r.first
  BY <1>0
<1>3. r.copied = [i \in 1..n |-> r.first + i]
  BY <1>1, <1>2 DEF Region
<1>4. Len(r.copied) = n
  <2>1. [i \in 1..n |-> r.first + i] \in [1..n -> Nat]
    BY <1>0
  <2> QED
    BY <1>3, <2>1, FunctionIsSeq
<1>5. /\ new \in Seq(Nat) /\ Len(new) = n + len
      /\ \A i \in 1..(n + len) : new[i] = IF i <= n THEN r.copied[i] ELSE r.chunk[i - n]
  <2>1. PICK f \in Seq(Nat), g \in Seq(Nat) : f = r.copied /\ g = r.chunk
    BY <1>0
  <2>2. /\ f \o g \in Seq(Nat) /\ Len(f \o g) = Len(f) + Len(g)
        /\ \A i \in 1..(Len(f) + Len(g)) :
             (f \o g)[i] = IF i <= Len(f) THEN f[i] ELSE g[i - Len(f)]
    BY ConcatProperties
  <2> QED
    BY <1>1, <1>4, <2>1, <2>2
<1>6. \A i \in 1..(n + len) : new[i] = r.first + i
  <2> SUFFICES ASSUME NEW i \in 1..(n + len) PROVE new[i] = r.first + i
    OBVIOUS
  <2>1. CASE i <= n
    <3>1. i \in 1..n
      BY <2>1
    <3> QED
      BY <1>3, <1>5, <2>1, <3>1
  <2>2. CASE ~(i <= n)
    <3>1. PICK j \in 1..len : j = i - n
      BY <2>2
    <3>2. r.offset + j = r.first + i
      <4>1. PICK offset \in Nat, first \in Nat : offset = r.offset /\ first = r.first
        BY <1>0
      <4>2. n = offset - first
        BY <1>2, <4>1
      <4>3. i \in Int /\ j \in Int
        OBVIOUS
      <4>4. offset + j = first + i
        BY ONLY <3>1, <4>2, <4>3, offset \in Nat, first \in Nat, n \in Nat
      <4> QED
        BY <4>1, <4>4
    <3>3. r.chunk[j] = r.offset + j
      BY <1>1
    <3> QED
      BY <1>5, <2>2, <3>1, <3>2, <3>3
  <2> QED
    BY <2>1, <2>2
<1>7. new = [i \in 1..(n + len) |-> r.first + i]
  <2>1. new = [i \in 1..(n + len) |-> new[i]]
    BY <1>5, LenProperties
  <2> HIDE DEF new
  <2> QED
    BY <1>6, <2>1
<1>8. PICK r2 : r2 = Drained(r)
  OBVIOUS
<1>9. /\ r2 \in IoCalls /\ r2.offset = r.offset + len /\ r2.copied = new
      /\ r2.stream = r.stream /\ r2.first = r.first /\ r2.end = r.end
      /\ r2.room = r.room /\ r2.start = r.start
  <2>1. r2 = [r EXCEPT !.offset = r.offset + len, !.copied = new]
    BY <1>1, <1>8 DEF Drained
  <2>2. r.offset + len \in Nat
    BY <1>0
  <2> HIDE DEF new
  <2> QED
    BY <1>5, <2>1, <2>2 DEF IoCalls
<1>10. r2.copied = Region(r2)
  <2>1. r2.offset - r2.first = n + len
    BY <1>0, <1>2, <1>9
  <2>2. Region(r2) = [i \in 1..(n + len) |-> r.first + i]
    BY <1>1, <1>9, <2>1 DEF Region
  <2> HIDE DEF new
  <2> QED
    BY <1>7, <1>9, <2>2
<1>11. Located(r2, size)
  <2> HIDE DEF new
  <2> QED
    BY <1>0, <1>1, <1>9, <1>10 DEF Located
<1> QED
  BY <1>8, <1>9, <1>10, <1>11

-----------------------------------------------------------------------------
(* blob_io.js: what a step of a call does to the others.                   *)

LEMMA SizeIs ==
  ASSUME BlobInv, NEW s \in BlobCalls, io[s].at # "none"
  PROVE  Size(s) \in Nat
<1>1. borrowed[s] # <<>>
  BY DEF BlobInv, TypeOK
<1>2. PICK size \in BufferSizes : borrowed[s] = BlobArgs(size)
  BY <1>1 DEF BlobInv, IoTyped
<1>3. Size(s) = size
  BY <1>2 DEF Size, BlobArgs
<1> QED
  BY <1>2, <1>3, BlobAssumption

Reads(s, p) == io[s].at \in {"reading", "writing"} /\ io[s].stream = p

Changes(s, r2, how) ==
  /\ io' = [io EXCEPT ![s] = r2]
  /\ reading' = [reading EXCEPT ![s] = how]
  /\ Outside

Fits(s, r2, how) ==
  /\ r2 \in IoCalls /\ InPlace(r2, Size(s))
  /\ how \in {"no", "yes", "orphan"} /\ (how = "yes" => r2.at = "filling")

Streams(s, r2) ==
  /\ locked' \subseteq Ptrs /\ taken' \in [Ptrs -> 0..StreamSize]
  /\ \A p \in Ptrs : p \in locked \ locked' \/ taken'[p] # taken[p] => Reads(s, p)
  /\ r2.at \in {"reading", "writing"} =>
       /\ r2.stream \in locked'
       /\ taken'[r2.stream] =
            r2.start + r2.offset - r2.first + IF r2.at = "writing" THEN Len(r2.chunk) ELSE 0
       /\ Reads(s, r2.stream) \/ r2.stream \notin locked

LEMMA ChangesKeep ==
  ASSUME BlobInv, NEW s \in BlobCalls, io[s].at # "none", NEW r2, NEW how,
         Changes(s, r2, how), Fits(s, r2, how), Streams(s, r2), CellsInv'
  PROVE  BlobInv'
<1>1. /\ io \in [BlobCalls -> {[at |-> "none"]} \cup IoCalls]
      /\ borrowed \in [BlobCalls -> {<<>>} \cup {BlobArgs(size) : size \in BufferSizes}]
      /\ reading \in [BlobCalls -> {"no", "yes", "orphan"}]
  BY DEF BlobInv, IoTyped
<1>2. /\ borrowed' = borrowed /\ pc' = pc
      /\ io'[s] = r2 /\ reading'[s] = how
      /\ \A t \in BlobCalls \ {s} : io'[t] = io[t] /\ reading'[t] = reading[t]
  BY <1>1 DEF Changes, Outside, stmtVars
<1>3. r2 \in IoCalls /\ r2.at # "none"
  BY CallFields DEF Fits
<1>4. IoTyped'
  BY <1>1, <1>2, <1>3 DEF IoTyped, Changes, Fits, Streams
<1>5. TypeOK'
  <2>1. FunctionsTypeOK'
    BY DEF CellsInv
  <2>2. locked' \subseteq Ptrs /\ \A p \in Ptrs : taken'[p] \in 0..StreamSize
    BY DEF Streams
  <2>3. ASSUME NEW t \in BlobCalls
        PROVE  /\ io'[t].at = "none" <=> pc'[t] # "awaiting"
               /\ io'[t].at = "none" <=> borrowed'[t] = <<>>
               /\ reading'[t] \in {"no", "yes", "orphan"}
    BY <1>1, <1>2, <1>3 DEF BlobInv, TypeOK, Fits
  <2> QED
    BY <2>1, <2>2, <2>3 DEF TypeOK
<1>6. ASSUME NEW t \in BlobCalls \ {s}, io[t].at \in {"reading", "writing"}
      PROVE  /\ io[t].stream \in Ptrs /\ io[t].stream \in locked
             /\ io[t].stream \in locked' /\ taken'[io[t].stream] = taken[io[t].stream]
  <2>1. io[t].stream \in Ptrs
    BY <1>1, <1>6, CallFields
  <2>2. io[t].stream \in locked
    BY <1>6 DEF BlobInv, Progress
  <2>3. ~Reads(s, io[t].stream)
    BY <1>6 DEF BlobInv, OneReader, Reads
  <2> QED
    BY <2>1, <2>2, <2>3 DEF Streams
<1>7. OneReader'
  <2>1. ASSUME NEW t \in BlobCalls \ {s}, r2.at \in {"reading", "writing"},
               io[t].at \in {"reading", "writing"}
        PROVE  r2.stream # io[t].stream
    <3>1. CASE Reads(s, r2.stream)
      BY <2>1, <3>1 DEF Reads, BlobInv, OneReader
    <3>2. CASE r2.stream \notin locked
      BY <1>6, <2>1, <3>2
    <3> QED
      BY <2>1, <3>1, <3>2 DEF Streams
  <2>2. ASSUME NEW t \in BlobCalls, NEW u \in BlobCalls, t # u,
               {io'[t].at, io'[u].at} \subseteq {"reading", "writing"}
        PROVE  io'[t].stream # io'[u].stream
    <3>1. CASE t = s
      BY <1>2, <2>1, <2>2, <3>1
    <3>2. CASE u = s
      BY <1>2, <2>1, <2>2, <3>2
    <3>3. CASE t # s /\ u # s
      BY <1>2, <2>2, <3>3 DEF BlobInv, OneReader
    <3> QED
      BY <3>1, <3>2, <3>3
  <2> QED
    BY <2>2 DEF OneReader
<1>8. Progress(s)'
  <2>1. Size(s)' = Size(s)
    BY <1>2 DEF Size
  <2> QED
    BY <1>2, <2>1 DEF Progress, Fits, Streams
<1>9. ASSUME NEW t \in BlobCalls \ {s} PROVE Progress(t)'
  <2>1. Size(t)' = Size(t)
    BY <1>2 DEF Size
  <2>2. Progress(t)
    BY DEF BlobInv
  <2> QED
    BY <1>2, <1>6, <2>1, <2>2 DEF Progress
<1> QED
  BY <1>4, <1>5, <1>7, <1>8, <1>9 DEF BlobInv

(* Nothing that a call of blob_io has changes.                             *)
LEMMA QuietKeeps ==
  ASSUME BlobInv, UNCHANGED blobVars, CellsInv',
         \A s \in BlobCalls : pc'[s] = "awaiting" <=> pc[s] = "awaiting"
  PROVE  BlobInv'
<1>1. IoTyped' /\ OneReader'
  BY DEF BlobInv, IoTyped, OneReader, blobVars
<1>2. TypeOK'
  BY DEF BlobInv, TypeOK, CellsInv, blobVars
<1>3. \A s \in BlobCalls : Progress(s)'
  BY DEF BlobInv, Progress, Size, blobVars
<1> QED
  BY <1>1, <1>2, <1>3 DEF BlobInv

(* A call that stops where it is, to close, to cancel, or to finish.       *)
LEMMA StopKeeps ==
  ASSUME BlobInv, NEW s \in BlobCalls, io[s].at # "none", CellsInv',
         NEW x \in {"closing", "cancelling", "finishing"}, NEW y \in {"plain", "error"},
         NEW how \in {"no", "orphan"}, Changes(s, Marked(io[s], x, y), how),
         UNCHANGED <<locked, taken>>
  PROVE  BlobInv'
<1>1. io[s] \in IoCalls
  BY DEF BlobInv, IoTyped
<1>2. InPlace(io[s], Size(s))
  BY DEF BlobInv, Progress
<1>3. x \in Awaits
  BY DEF Awaits
<1>4. /\ Marked(io[s], x, y) \in IoCalls /\ Marked(io[s], x, y).at = x
      /\ InPlace(Marked(io[s], x, y), Size(s))
  BY <1>1, <1>2, <1>3, InPlaceLocated, MarkedIs, MarkedInPlace
<1>5. Fits(s, Marked(io[s], x, y), how)
  BY <1>4 DEF Fits
<1>6. Streams(s, Marked(io[s], x, y))
  BY <1>4 DEF Streams, BlobInv, TypeOK, IoTyped
<1> QED
  BY <1>5, <1>6, ChangesKeep

(* The head of the loops.                                                  *)
LEMMA LoopsKeep ==
  ASSUME BlobInv, NEW s \in BlobCalls, io[s].at # "none", CellsInv', reading[s] # "yes",
         NEW r \in IoCalls, Located(r, Size(s)), r.copied = Region(r),
         r.stream \in Readable => /\ taken[r.stream] = r.start + r.offset - r.first
                                  /\ Reads(s, r.stream) \/ r.stream \notin locked,
         Loops(s, r), taken' = taken, Outside
  PROVE  BlobInv'
<1>1. /\ io \in [BlobCalls -> {[at |-> "none"]} \cup IoCalls]
      /\ reading \in [BlobCalls -> {"no", "yes", "orphan"}]
      /\ reading = [reading EXCEPT ![s] = reading[s]]
      /\ taken \in [Ptrs -> 0..StreamSize] /\ locked \subseteq Ptrs
  BY DEF BlobInv, TypeOK, IoTyped
<1>2. /\ r.stream \in Ptrs /\ r.ret \in {"plain", "error"}
      /\ r.start \in Nat /\ r.offset \in Nat /\ r.first \in Nat
  BY CallFields
<1>3. ASSUME NEW x \in {"reading", "closing", "filling", "finishing"}, NEW y \in {"plain", "error"},
             x \in {"reading", "filling"} => More(r),
             x = "reading" => r.stream \in Readable,
             x = "filling" => r.stream \notin Readable
      PROVE  /\ Marked(r, x, y) \in IoCalls /\ InPlace(Marked(r, x, y), Size(s))
             /\ Marked(r, x, y).at = x /\ Marked(r, x, y).stream = r.stream
             /\ Marked(r, x, y).start = r.start /\ Marked(r, x, y).offset = r.offset
             /\ Marked(r, x, y).first = r.first
  <2>1. x \in Awaits /\ x \in Awaits \ {"opening", "writing", "draining"}
    BY DEF Awaits
  <2> QED
    BY <1>3, <2>1, MarkedIs, MarkedInPlace
<1>4. CASE r.stream \in Readable /\ More(r)
  <2> DEFINE r2 == Marked(r, "reading", r.ret)
  <2>1. [r EXCEPT !.at = "reading"] = r2
    BY MarkAt DEF Awaits
  <2>2. Changes(s, r2, reading[s]) /\ locked' = locked \cup {r.stream}
    BY <1>1, <1>4, <2>1 DEF Loops, Io, Changes
  <2>3. /\ r2 \in IoCalls /\ InPlace(r2, Size(s)) /\ r2.at = "reading"
        /\ r2.stream = r.stream /\ r2.start = r.start /\ r2.offset = r.offset
        /\ r2.first = r.first
    BY <1>2, <1>3, <1>4
  <2> HIDE DEF r2
  <2>4. Fits(s, r2, reading[s])
    BY <1>1, <2>3 DEF Fits
  <2>5. Streams(s, r2)
    BY <1>1, <1>2, <1>4, <2>2, <2>3 DEF Streams
  <2> QED
    BY <2>2, <2>4, <2>5, ChangesKeep
<1>5. CASE r.stream \in Readable /\ ~More(r)
  <2> DEFINE r2 == Marked(r, "closing", "plain")
  <2>1. Closing(r, "plain") = r2
    BY DEF Closing, Marked
  <2>2. Changes(s, r2, reading[s]) /\ locked' = locked \ {r.stream}
    BY <1>1, <1>5, <2>1 DEF Loops, Io, Changes
  <2>3. r2 \in IoCalls /\ InPlace(r2, Size(s)) /\ r2.at = "closing"
    BY <1>3
  <2> HIDE DEF r2
  <2>4. Fits(s, r2, reading[s])
    BY <1>1, <2>3 DEF Fits
  <2>5. Streams(s, r2)
    BY <1>1, <1>2, <1>5, <2>2, <2>3 DEF Streams
  <2> QED
    BY <2>2, <2>4, <2>5, ChangesKeep
<1>6. CASE r.stream \notin Readable
  <2>1. PICK x \in {"filling", "finishing"} : x = IF More(r) THEN "filling" ELSE "finishing"
    OBVIOUS
  <2>2. PICK how \in {"no", "yes", "orphan"} : how = IF More(r) THEN "yes" ELSE reading[s]
    BY <1>1
  <2> DEFINE r2 == Marked(r, x, r.ret)
  <2>3. [r EXCEPT !.at = x] = r2
    BY <2>1, MarkAt DEF Awaits
  <2>4. Changes(s, r2, how) /\ locked' = locked \cup {r.stream}
    BY <1>6, <2>1, <2>2, <2>3 DEF Loops, Io, Reading, Changes
  <2>5. r2 \in IoCalls /\ InPlace(r2, Size(s)) /\ r2.at = x
    BY <1>2, <1>3, <1>6, <2>1
  <2> HIDE DEF r2
  <2>6. Fits(s, r2, how)
    BY <2>1, <2>2, <2>5 DEF Fits
  <2>7. Streams(s, r2)
    BY <1>1, <1>2, <2>1, <2>4, <2>5 DEF Streams
  <2> QED
    BY <2>4, <2>6, <2>7, ChangesKeep
<1> QED
  BY <1>4, <1>5, <1>6

-----------------------------------------------------------------------------
(* blob_io.js: every step keeps the invariant.                             *)

(* What every step of a call may use.                                      *)
LEMMA CallIs ==
  ASSUME BlobInv, NEW s \in BlobCalls, io[s].at # "none"
  PROVE  /\ io[s] \in IoCalls /\ InPlace(io[s], Size(s)) /\ Located(io[s], Size(s))
         /\ io = [io EXCEPT ![s] = io[s]]
         /\ reading = [reading EXCEPT ![s] = reading[s]]
         /\ io[s].at # "filling" => reading[s] \in {"no", "orphan"}
         /\ reading[s] \in {"no", "yes", "orphan"}
         /\ taken \in [Ptrs -> 0..StreamSize] /\ locked \subseteq Ptrs
<1>1. /\ io \in [BlobCalls -> {[at |-> "none"]} \cup IoCalls]
      /\ reading \in [BlobCalls -> {"no", "yes", "orphan"}]
      /\ taken \in [Ptrs -> 0..StreamSize] /\ locked \subseteq Ptrs
  BY DEF BlobInv, TypeOK, IoTyped
<1>2. InPlace(io[s], Size(s)) /\ (reading[s] = "yes" => io[s].at = "filling")
  BY DEF BlobInv, Progress
<1> QED
  BY <1>1, <1>2, InPlaceLocated

LEMMA FailsKeep ==
  ASSUME BlobInv, CellsInv', NEW s \in BlobCalls, io[s].at \notin {"none", "filling"},
         Fails(s), taken' = taken, Outside
  PROVE  BlobInv'
<1>1. Changes(s, Marked(io[s], "closing", "error"), reading[s])
  BY CallIs DEF Fails, Io, Closing, Marked, Changes
<1> QED
  BY <1>1, CallIs, StopKeeps DEF Fails

LEMMA OpensKeep ==
  ASSUME BlobInv, CellsInv', NEW s \in BlobCalls, BlobOpens(s)
  PROVE  BlobInv'
<1>1. io[s].at = "opening" /\ taken' = taken /\ Outside
  BY DEF BlobOpens, At
<1>2. CASE Fails(s)
  BY <1>1, <1>2, FailsKeep
<1>3. CASE ~Fails(s)
  <2> DEFINE zeros == [i \in 1..BlobSize |-> 0]
             new == IF io[s].stream \in Readable THEN zeros ELSE <<>>
  <2>1. PICK r \in IoCalls : r = io[s]
    BY <1>1, CallIs
  <2>2. PICK size : size = Size(s) /\ InPlace(r, size)
    BY <1>1, <2>1, CallIs
  <2>3. PICK copied : copied = new
    OBVIOUS
  <2>4. PICK start \in Nat : start = taken[r.stream]
    <3>1. r.stream \in Ptrs /\ StreamSize \in Nat
      BY CallFields, BlobAssumption
    <3> QED
      BY <1>1, <3>1, CallIs
  <2>5. PICK r2 : r2 = [r EXCEPT !.start = start, !.copied = copied]
    OBVIOUS
  <2>6. r.stream \notin locked /\ Loops(s, r2)
    BY <1>1, <1>3, <2>1, <2>3, <2>4, <2>5 DEF BlobOpens
  <2>7. copied \in Seq(Nat)
    <3>1. zeros \in [1..BlobSize -> Nat] /\ BlobSize \in Nat
      BY BlobAssumption
    <3>2. zeros \in Seq(Nat)
      BY <3>1, FunctionIsSeq
    <3> HIDE DEF zeros
    <3> QED
      BY <2>3, <3>2
  <2>8. /\ r2 \in IoCalls /\ r2.stream = r.stream /\ r2.first = r.first
        /\ r2.offset = r.offset /\ r2.end = r.end /\ r2.room = r.room
        /\ r2.start = start /\ r2.copied = copied
    BY <2>5, <2>7 DEF IoCalls
  <2>9. r.offset = r.first /\ r.room <= size /\ r.first <= r.offset /\ r.first \in Nat
    BY <1>1, <2>1, <2>2, CallFields DEF InPlace
  <2>10. copied = Region(r2)
    <3>1. r2.offset - r2.first = 0 /\ 1..0 = {}
      BY <2>8, <2>9
    <3>2. CASE r2.stream \in Readable
      <4>1. Region(r2) = [i \in 1..BlobSize |->
                            IF i - r2.first \in {} THEN r2.start + i - r2.first ELSE 0]
        BY <3>1, <3>2 DEF Region
      <4>2. Region(r2) = zeros
        BY <4>1
      <4> QED
        BY <2>1, <2>3, <2>8, <3>2, <4>2
    <3>3. CASE r2.stream \notin Readable
      <4>1. Region(r2) = [i \in {} |-> r2.first + i]
        BY <3>1, <3>3 DEF Region
      <4>2. Region(r2) = <<>>
        BY <4>1
      <4> QED
        BY <2>1, <2>3, <2>8, <3>3, <4>2
    <3> QED
      BY <3>2, <3>3
  <2>11. Located(r2, size)
    BY <2>8, <2>9, <2>10 DEF Located
  <2>12. /\ taken[r2.stream] = r2.start + r2.offset - r2.first
         /\ r2.stream \notin locked
    BY <2>4, <2>6, <2>8, <2>9
  <2>13. io[s].at # "none" /\ reading[s] # "yes"
    BY <1>1, CallIs
  <2> QED
    BY <1>1, <2>2, <2>6, <2>8, <2>10, <2>11, <2>12, <2>13, LoopsKeep
<1> QED
  BY <1>2, <1>3

LEMMA ReadsKeep ==
  ASSUME BlobInv, CellsInv', NEW s \in BlobCalls, StreamReads(s)
  PROVE  BlobInv'
<1>1. io[s].at = "reading" /\ UNCHANGED <<locked, reading>> /\ Outside
  BY DEF StreamReads, At
<1>2. PICK r \in IoCalls : r = io[s]
  BY <1>1, CallIs
<1>3. PICK size \in Nat : size = Size(s) /\ InPlace(r, size)
  BY <1>1, <1>2, CallIs, SizeIs
<1>4. PICK before \in 0..StreamSize : before = taken[r.stream]
  BY <1>1, <1>2, CallIs, CallFields
<1>5. PICK n \in 0..r.room :
        /\ before + n <= StreamSize
        /\ Io(s, [r EXCEPT !.at = "writing", !.room = n, !.chunk = [i \in 1..n |-> before + i]])
        /\ taken' = [taken EXCEPT ![r.stream] = before + n]
  BY <1>2, <1>4 DEF StreamReads
<1>6. /\ r.stream \in Ptrs /\ r.room \in Nat /\ r.start \in Nat /\ r.first \in Nat
      /\ r.offset \in Nat /\ StreamSize \in Nat /\ before \in Nat /\ n \in Nat
  BY <1>5, CallFields, BlobAssumption
<1>7. PICK chunk \in Seq(Nat) : chunk = [i \in 1..n |-> before + i] /\ Len(chunk) = n
  <2>1. [i \in 1..n |-> before + i] \in [1..n -> Nat]
    BY <1>6
  <2> QED
    BY <1>6, <2>1, FunctionIsSeq
<1>8. PICK r2 : r2 = [r EXCEPT !.at = "writing", !.room = n, !.chunk = chunk]
  OBVIOUS
<1>9. /\ r2 \in IoCalls /\ r2.at = "writing" /\ r2.stream = r.stream /\ r2.first = r.first
      /\ r2.offset = r.offset /\ r2.end = r.end /\ r2.room = n /\ r2.start = r.start
      /\ r2.copied = r.copied /\ r2.chunk = chunk
  BY <1>6, <1>8 DEF IoCalls, Awaits
<1>10. Changes(s, r2, reading[s])
  BY <1>1, <1>5, <1>7, <1>8, CallIs DEF Io, Changes
<1>11. r.stream \in locked /\ before = r.start + r.offset - r.first
  <2>1. Progress(s)
    BY DEF BlobInv
  <2>2. /\ r.stream \in locked
        /\ taken[r.stream] = r.start + r.offset - r.first + 0
    BY <1>1, <1>2, <2>1 DEF Progress
  <2> QED
    BY <1>4, <1>6, <2>2
<1>12. Region(r2) = Region(r)
  BY <1>9 DEF Region
<1>13. InPlace(r2, size)
  <2>1. /\ r.stream \in Readable /\ r.first <= r.offset /\ r.offset < r.end
        /\ r.room <= size /\ r.copied = Region(r)
        /\ r.offset = r.first \/ r.offset < r.end + size
    BY <1>1, <1>2, <1>3 DEF InPlace
  <2>2. n <= size
    BY <1>3, <1>5, <1>6, <2>1
  <2>3. chunk = [i \in 1..n |-> r2.start + r2.offset - r2.first + i]
    BY <1>7, <1>9, <1>11
  <2> QED
    BY <1>7, <1>9, <1>12, <2>1, <2>2, <2>3 DEF InPlace
<1>14. Fits(s, r2, reading[s])
  BY <1>1, <1>3, <1>9, <1>13, CallIs DEF Fits
<1>15. Streams(s, r2)
  <2>1. Reads(s, r.stream)
    BY <1>1, <1>2 DEF Reads
  <2>2. taken' \in [Ptrs -> 0..StreamSize] /\ taken'[r.stream] = before + n
        /\ \A p \in Ptrs : taken'[p] # taken[p] => p = r.stream
    BY <1>1, <1>5, <1>6, CallIs
  <2>3. locked' \subseteq Ptrs /\ r.stream \in locked'
    BY <1>1, <1>11, CallIs
  <2> QED
    BY <1>1, <1>7, <1>9, <1>11, <2>1, <2>2, <2>3 DEF Streams
<1> QED
  BY <1>1, <1>10, <1>14, <1>15, ChangesKeep

LEMMA WritesKeep ==
  ASSUME BlobInv, CellsInv', NEW s \in BlobCalls, BlobWrites(s)
  PROVE  BlobInv'
<1>1. io[s].at = "writing" /\ taken' = taken /\ Outside
  BY DEF BlobWrites, At
<1>2. io[s].at # "none" /\ reading[s] \in {"no", "orphan"}
  BY <1>1, CallIs
<1>3. CASE io[s].chunk = <<>>
  <2>1. /\ Changes(s, Marked(io[s], "closing", "plain"), reading[s])
        /\ UNCHANGED <<locked, taken>>
    BY <1>1, <1>2, <1>3, CallIs DEF BlobWrites, Io, Closing, Marked, Changes
  <2> QED
    BY <1>2, <2>1, StopKeeps
<1>4. CASE io[s].chunk # <<>>
  <2>1. PICK r \in IoCalls : r = io[s]
    BY <1>2, CallIs
  <2>2. PICK size \in Nat : size = Size(s) /\ InPlace(r, size)
    BY <1>2, <2>1, CallIs, SizeIs
  <2>3. PICK r2 : r2 = Advanced(s, r)
    OBVIOUS
  <2>4. /\ r2 \in IoCalls /\ Located(r2, size) /\ r2.copied = Region(r2)
        /\ r2.stream = r.stream /\ r2.first = r.first /\ r2.start = r.start
        /\ r2.offset = r.offset + Len(r.chunk)
    BY <1>1, <2>1, <2>2, <2>3, AdvancedLocated
  <2>5. Loops(s, r2)
    BY <1>4, <2>1, <2>3 DEF BlobWrites
  <2>6. taken[r.stream] = r.start + r.offset - r.first + Len(r.chunk)
    <3>1. Progress(s)
      BY DEF BlobInv
    <3> QED
      BY <1>1, <2>1, <3>1 DEF Progress
  <2>7. taken[r2.stream] = r2.start + r2.offset - r2.first
    BY <2>1, <2>4, <2>6, CallFields
  <2>8. Reads(s, r2.stream)
    BY <1>1, <2>1, <2>4 DEF Reads
  <2> QED
    BY <1>1, <1>2, <2>2, <2>4, <2>5, <2>7, <2>8, LoopsKeep
<1> QED
  BY <1>3, <1>4

LEMMA RefusesKeep ==
  ASSUME BlobInv, CellsInv', NEW s \in BlobCalls, BlobRefuses(s)
  PROVE  BlobInv'
<1>1. io[s].at = "writing" /\ UNCHANGED <<locked, taken, reading>> /\ Outside
  BY DEF BlobRefuses, At
<1>2. io[s] \in IoCalls /\ reading[s] \in {"no", "orphan"} /\ io[s].ret \in {"plain", "error"}
  BY <1>1, CallIs, CallFields
<1>3. Changes(s, Marked(io[s], "cancelling", io[s].ret), reading[s])
  BY <1>1, <1>2, CallIs, MarkAt DEF BlobRefuses, Io, Changes, Awaits
<1> QED
  BY <1>1, <1>2, <1>3, StopKeeps

LEMMA BlobReadsKeep ==
  ASSUME BlobInv, CellsInv', NEW s \in BlobCalls, BlobReads(s)
  PROVE  BlobInv'
<1>1. /\ reading' = [reading EXCEPT ![s] = "no"]
      /\ UNCHANGED <<locked, taken, io, pc, borrowed>>
  BY DEF BlobReads, Reading, Outside, stmtVars
<1>2. reading \in [BlobCalls -> {"no", "yes", "orphan"}]
  BY DEF BlobInv, IoTyped
<1>3. IoTyped' /\ OneReader'
  BY <1>1, <1>2 DEF BlobInv, IoTyped, OneReader
<1>4. TypeOK'
  <2>1. FunctionsTypeOK'
    BY DEF CellsInv
  <2> QED
    BY <1>1, <1>2, <2>1 DEF BlobInv, TypeOK
<1>5. ASSUME NEW t \in BlobCalls PROVE Progress(t)'
  <2>1. Progress(t) /\ Size(t)' = Size(t) /\ (reading'[t] = "yes" => reading[t] = "yes")
    BY <1>1, <1>2 DEF BlobInv, Size
  <2> QED
    BY <1>1, <2>1 DEF Progress
<1> QED
  BY <1>3, <1>4, <1>5 DEF BlobInv

LEMMA ReadyKeeps ==
  ASSUME BlobInv, CellsInv', NEW s \in BlobCalls, WriterIsReady(s)
  PROVE  BlobInv'
<1>1. /\ io[s].at = "filling" /\ reading[s] = "no"
      /\ UNCHANGED <<locked, taken, reading>> /\ Outside
  BY DEF WriterIsReady, At
<1>2. PICK r \in IoCalls : r = io[s]
  BY <1>1, CallIs
<1>3. CASE Io(s, [r EXCEPT !.at = "cancelling"])
  <2>1. Changes(s, Marked(io[s], "cancelling", io[s].ret), reading[s])
    BY <1>1, <1>2, <1>3, CallIs, MarkAt DEF Io, Changes, Awaits
  <2>2. io[s].ret \in {"plain", "error"}
    BY <1>2, CallFields
  <2> QED
    BY <1>1, <2>1, <2>2, StopKeeps
<1>4. CASE Io(s, [r EXCEPT !.at = "draining",
                           !.chunk = [i \in 1..ChunkLen(s) |-> r.offset + i]])
  <2>1. PICK size \in Nat : size = Size(s) /\ InPlace(r, size)
    BY <1>1, <1>2, CallIs, SizeIs
  <2>2. /\ r.stream \in Ptrs /\ r.room \in Nat /\ r.start \in Nat /\ r.first \in Nat
        /\ r.offset \in Nat /\ r.end \in Nat
    BY CallFields
  <2>3. /\ r.stream \notin Readable /\ r.first <= r.offset /\ r.offset < r.end
        /\ r.room <= size /\ r.copied = Region(r)
    BY <1>1, <1>2, <2>1 DEF InPlace
  <2>4. PICK n \in Nat : n = ChunkLen(s) /\ n <= size /\ n <= r.end - r.offset
    BY <1>2, <2>1, <2>2, <2>3 DEF ChunkLen
  <2>5. PICK chunk \in Seq(Nat) : chunk = [i \in 1..n |-> r.offset + i] /\ Len(chunk) = n
    <3>1. [i \in 1..n |-> r.offset + i] \in [1..n -> Nat]
      BY <2>2, <2>4
    <3> QED
      BY <2>4, <3>1, FunctionIsSeq
  <2>6. PICK r2 : r2 = [r EXCEPT !.at = "draining", !.chunk = chunk]
    OBVIOUS
  <2>7. /\ r2 \in IoCalls /\ r2.at = "draining" /\ r2.stream = r.stream /\ r2.first = r.first
        /\ r2.offset = r.offset /\ r2.end = r.end /\ r2.room = r.room /\ r2.start = r.start
        /\ r2.copied = r.copied /\ r2.chunk = chunk
    BY <2>5, <2>6 DEF IoCalls, Awaits
  <2>8. Changes(s, r2, "no")
    BY <1>1, <1>4, <2>4, <2>5, <2>6, CallIs DEF Io, Changes
  <2>9. Region(r2) = Region(r)
    BY <2>7 DEF Region
  <2>10. InPlace(r2, size)
    BY <2>2, <2>3, <2>4, <2>5, <2>7, <2>9 DEF InPlace
  <2>11. Fits(s, r2, "no")
    BY <2>1, <2>7, <2>10 DEF Fits
  <2>12. Streams(s, r2)
    BY <1>1, <2>7, CallIs DEF Streams
  <2> QED
    BY <1>1, <2>8, <2>11, <2>12, ChangesKeep
<1> QED
  BY <1>2, <1>3, <1>4 DEF WriterIsReady

LEMMA RejectsKeep ==
  ASSUME BlobInv, CellsInv', NEW s \in BlobCalls, WriterRejects(s)
  PROVE  BlobInv'
<1>1. io[s].at = "filling" /\ UNCHANGED <<locked, taken>> /\ Outside
  BY DEF WriterRejects, At
<1>2. PICK how \in {"no", "orphan"} : how = IF reading[s] = "yes" THEN "orphan" ELSE reading[s]
  BY <1>1, CallIs
<1>3. Changes(s, Marked(io[s], "closing", "error"), how)
  BY <1>1, <1>2 DEF WriterRejects, Io, Reading, Closing, Marked, Changes
<1> QED
  BY <1>1, <1>3, StopKeeps

LEMMA StreamWritesKeep ==
  ASSUME BlobInv, CellsInv', NEW s \in BlobCalls, StreamWrites(s)
  PROVE  BlobInv'
<1>1. io[s].at = "draining" /\ taken' = taken /\ Outside
  BY DEF StreamWrites, At
<1>2. io[s].at # "none" /\ reading[s] \in {"no", "orphan"}
  BY <1>1, CallIs
<1>3. PICK r \in IoCalls : r = io[s]
  BY <1>2, CallIs
<1>4. PICK size \in Nat : size = Size(s) /\ InPlace(r, size)
  BY <1>2, <1>3, CallIs, SizeIs
<1>5. PICK r2 : r2 = Drained(r)
  OBVIOUS
<1>6. /\ r2 \in IoCalls /\ Located(r2, size) /\ r2.copied = Region(r2)
      /\ r2.stream = r.stream
  BY <1>1, <1>3, <1>4, <1>5, DrainedLocated
<1>7. Loops(s, r2)
  BY <1>3, <1>5 DEF StreamWrites, Drained
<1>8. r2.stream \notin Readable
  BY <1>1, <1>3, <1>4, <1>6 DEF InPlace
<1> QED
  BY <1>1, <1>2, <1>4, <1>6, <1>7, <1>8, LoopsKeep

LEMMA ClosesKeep ==
  ASSUME BlobInv, CellsInv', NEW s \in BlobCalls, StreamCloses(s)
  PROVE  BlobInv'
<1>1. io[s].at = "finishing" /\ UNCHANGED <<locked, taken, reading>> /\ Outside
  BY DEF StreamCloses, At
<1>2. reading[s] \in {"no", "orphan"}
  BY <1>1, CallIs
<1>3. Changes(s, Marked(io[s], "closing", "plain"), reading[s])
  BY <1>1, <1>2, CallIs DEF StreamCloses, Io, Closing, Marked, Changes
<1> QED
  BY <1>1, <1>2, <1>3, StopKeeps

LEMMA StreamFailsKeep ==
  ASSUME BlobInv, CellsInv', NEW s \in BlobCalls, StreamFails(s)
  PROVE  BlobInv'
  BY FailsKeep DEF StreamFails

(* The call of s begins or ends.                                           *)
Swaps(s, r2, block) ==
  /\ io' = [io EXCEPT ![s] = r2]
  /\ borrowed' = [borrowed EXCEPT ![s] = block]
  /\ UNCHANGED <<locked, taken, reading>>

LEMMA SwapsKeep ==
  ASSUME BlobInv, CellsInv', NEW s \in BlobCalls, reading[s] # "yes",
         NEW r2, NEW block, Swaps(s, r2, block),
         \A t \in BlobCalls \ {s} : pc'[t] = pc[t],
         \/ r2 = [at |-> "none"] /\ block = <<>> /\ pc'[s] # "awaiting"
         \/ /\ r2 \in IoCalls /\ r2.at = "opening" /\ pc'[s] = "awaiting"
            /\ block \in {BlobArgs(size) : size \in BufferSizes}
            /\ InPlace(r2, block[2])
  PROVE  BlobInv'
<1>1. /\ io \in [BlobCalls -> {[at |-> "none"]} \cup IoCalls]
      /\ borrowed \in [BlobCalls -> {<<>>} \cup {BlobArgs(size) : size \in BufferSizes}]
      /\ reading \in [BlobCalls -> {"no", "yes", "orphan"}]
  BY DEF BlobInv, IoTyped
<1>2. /\ io'[s] = r2 /\ borrowed'[s] = block
      /\ \A t \in BlobCalls \ {s} : io'[t] = io[t] /\ borrowed'[t] = borrowed[t]
      /\ UNCHANGED <<locked, taken, reading>>
  BY <1>1 DEF Swaps
<1>3. IoTyped'
  BY <1>1 DEF BlobInv, IoTyped, Swaps
<1>4. TypeOK'
  <2>1. FunctionsTypeOK'
    BY DEF CellsInv
  <2>2. \A size \in BufferSizes : BlobArgs(size) # <<>>
    BY DEF BlobArgs
  <2>3. ASSUME NEW t \in BlobCalls
        PROVE  /\ io'[t].at = "none" <=> pc'[t] # "awaiting"
               /\ io'[t].at = "none" <=> borrowed'[t] = <<>>
               /\ reading'[t] \in {"no", "yes", "orphan"}
    BY <1>1, <1>2, <2>2 DEF BlobInv, TypeOK
  <2> QED
    BY <1>2, <2>1, <2>3 DEF BlobInv, TypeOK
<1>5. r2.at \notin {"reading", "writing"}
  OBVIOUS
<1>6. OneReader'
  BY <1>2, <1>5 DEF BlobInv, OneReader
<1>7. Progress(s)'
  BY <1>2, <1>5 DEF Progress, Size
<1>8. ASSUME NEW t \in BlobCalls \ {s} PROVE Progress(t)'
  BY <1>2 DEF BlobInv, Progress, Size
<1> QED
  BY <1>3, <1>4, <1>6, <1>7, <1>8 DEF BlobInv

LEMMA EndKeeps ==
  ASSUME BlobInv, CellsInv', NEW s \in BlobCalls, BlobCloses(s)
  PROVE  BlobInv'
<1>1. io[s].at = "closing" /\ PromiseSettles(s, io[s].ret)
  BY DEF BlobCloses, At
<1>2. Swaps(s, [at |-> "none"], <<>>)
  BY DEF BlobCloses, Io, Freed, Swaps
<1>3. /\ scarce \in BOOLEAN /\ pc \in [Stmts -> Places]
      /\ s \in Stmts
  BY BlobAssumption DEF BlobInv, CellsInv, FunctionsTypeOK
<1>4. pc' = [pc EXCEPT ![s] = Unguarded(io[s].ret)]
  BY <1>1 DEF PromiseSettles, Answer, Goto
<1>5. io[s].ret \in Values
  BY <1>1, CallIs, CallFields DEF Values
<1>6. Unguarded(io[s].ret) # "awaiting"
  BY <1>3, <1>5, AnswerIs
<1>7. \A t \in BlobCalls \ {s} : pc'[t] = pc[t]
  BY <1>3, <1>4, BlobAssumption
<1>8. pc'[s] # "awaiting" /\ reading[s] # "yes"
  BY <1>1, <1>3, <1>4, <1>6, CallIs
<1> QED
  BY <1>2, <1>7, <1>8, SwapsKeep

LEMMA BeginKeeps ==
  ASSUME BlobInv, CellsInv', NEW s \in BlobCalls, NEW a \in Args, BlobCall(s, a[1], a[2], a[3])
  PROVE  BlobInv'
<1>1. PICK size \in BufferSizes, offset \in 0..MaxOffset, length \in -1..MaxOffset :
        a = <<size, offset, length>>
  BY DEF Args
<1>2. BlobCall(s, size, offset, length)
  BY <1>1
<1>3. /\ size \in Nat /\ offset \in Nat /\ length \in Int /\ BlobSize \in Nat
      /\ length < 0 \/ length \in Nat
      /\ s \in Stmts /\ pc \in [Stmts -> Places] /\ BlobCalls \subseteq Stmts
  BY <1>1, BlobAssumption DEF BlobInv, CellsInv, FunctionsTypeOK
<1>4. PICK end \in Nat : end = IF length < 0 THEN BlobSize ELSE offset + length
  BY <1>3
<1>5. PICK r2 : r2 = [at |-> "opening", stream |-> param[s], ret |-> "plain",
                      first |-> offset, offset |-> offset, end |-> end,
                      room |-> size, chunk |-> <<>>, start |-> 0, copied |-> <<>>]
  OBVIOUS
<1>6. Swaps(s, r2, BlobArgs(size)) /\ pc[s] = "ready" /\ pc' = [pc EXCEPT ![s] = "awaiting"]
  BY <1>2, <1>4, <1>5 DEF BlobCall, Io, Goto, Swaps
<1>7. param[s] \in Ptrs
  BY <1>2, PtrsAssumption DEF BlobCall, ToJs
<1>8. /\ r2 \in IoCalls /\ r2.at = "opening" /\ r2.copied = <<>>
      /\ r2.room = size /\ r2.first = offset /\ r2.offset = offset
  BY <1>3, <1>5, <1>7 DEF IoCalls, Awaits
<1>9. InPlace(r2, size)
  BY <1>3, <1>8 DEF InPlace
<1>10. BlobArgs(size)[2] = size
  BY DEF BlobArgs
<1>11. reading[s] # "yes"
  <2>1. io[s].at = "none"
    BY <1>6 DEF BlobInv, TypeOK
  <2> QED
    BY <2>1 DEF BlobInv, Progress
<1>12. pc'[s] = "awaiting" /\ \A t \in BlobCalls \ {s} : pc'[t] = pc[t]
  BY <1>3, <1>6
<1> QED
  BY <1>6, <1>8, <1>9, <1>10, <1>11, <1>12, SwapsKeep

(* The steps of the statements that no call of blob_io takes part in.      *)
LEMMA OtherPlace ==
  ASSUME BlobInv, NEW s \in Stmts, NEW place, pc' = [pc EXCEPT ![s] = place],
         s \notin BlobCalls \/ (pc[s] # "awaiting" /\ place # "awaiting")
  PROVE  \A t \in BlobCalls : pc'[t] = "awaiting" <=> pc[t] = "awaiting"
  BY BlobAssumption DEF BlobInv, CellsInv, FunctionsTypeOK

LEMMA StatementKeeps ==
  ASSUME BlobInv, NEW s \in Stmts, NEW v \in Values,
         Bind(s, v) \/ Clear(s) \/ Reset(s) \/ Finalize(s)
  PROVE  \A t \in BlobCalls : pc'[t] = "awaiting" <=> pc[t] = "awaiting"
<1>1. pc[s] # "awaiting" /\ pc \in [Stmts -> Places]
  BY DEF Bind, Clear, Reset, Finalize, BlobInv, CellsInv, FunctionsTypeOK
<1>2. PICK place \in {pc[s], "torn", "ready", "finalized"} : pc' = [pc EXCEPT ![s] = place]
  <2>1. pc = [pc EXCEPT ![s] = pc[s]]
    BY <1>1
  <2> QED
    BY <2>1 DEF Bind, Clear, Reset, Finalize, LetGo, Goto
<1> QED
  BY <1>1, <1>2, OtherPlace

LEMMA FunctionKeeps ==
  ASSUME BlobInv, NEW s \in Stmts \ BlobCalls, NEW v \in Values,
         CallReturns(s, v) \/ CallThrows(s, v) \/ PromiseSettles(s, v) \/ CallAwaits(s)
  PROVE  \A t \in BlobCalls : pc'[t] = "awaiting" <=> pc[t] = "awaiting"
<1>1. PICK place : pc' = [pc EXCEPT ![s] = place]
  BY DEF CallReturns, CallThrows, PromiseSettles, CallAwaits, Answer, Goto
<1> QED
  BY <1>1, OtherPlace

LEMMA ThrowsKeep ==
  ASSUME BlobInv, NEW s \in BlobCalls, BlobCallThrows(s)
  PROVE  \A t \in BlobCalls : pc'[t] = "awaiting" <=> pc[t] = "awaiting"
<1>1. s \in Stmts /\ pc[s] = "ready" /\ scarce \in BOOLEAN /\ "error" \in Values
  BY BlobAssumption DEF BlobCallThrows, BlobInv, CellsInv, FunctionsTypeOK, Values
<1>2. PICK place \in {Unguarded("error"), "failed"} : pc' = [pc EXCEPT ![s] = place]
  BY DEF BlobCallThrows, Answer, Goto
<1>3. place # "awaiting"
  BY <1>1, <1>2, AnswerIs
<1> QED
  BY <1>1, <1>2, <1>3, OtherPlace

LEMMA BlobMovesKeep ==
  ASSUME BlobInv, CellsInv', NEW s \in BlobCalls, BlobStep(s)
  PROVE  BlobInv'
  BY OpensKeep, ReadsKeep, WritesKeep, RefusesKeep, BlobReadsKeep, ReadyKeeps, RejectsKeep,
     StreamWritesKeep, ClosesKeep, StreamFailsKeep, EndKeeps DEF BlobStep

LEMMA BlobInitially == Init => BlobInv
<1> SUFFICES ASSUME Init PROVE BlobInv
  OBVIOUS
<1>1. CellsInv
  BY CellsInit DEF Init
<1>2. /\ \A s \in BlobCalls : io[s] = [at |-> "none"] /\ borrowed[s] = <<>> /\ reading[s] = "no"
      /\ \A s \in BlobCalls : pc[s] = "ready"
  BY BlobAssumption DEF Init, FunctionsInit
<1>3. \A s \in BlobCalls : io[s].at = "none"
  BY <1>2
<1>4. IoTyped
  BY BlobAssumption DEF Init, IoTyped
<1>5. TypeOK
  BY <1>1, <1>2, <1>3, BlobAssumption DEF Init, TypeOK, CellsInv
<1>6. OneReader
  BY <1>3 DEF OneReader
<1>7. \A s \in BlobCalls : Progress(s)
  BY <1>2, <1>3 DEF Progress
<1> QED
  BY <1>1, <1>4, <1>5, <1>6, <1>7 DEF BlobInv

LEMMA BlobNext ==
  ASSUME BlobInv, [Next]_vars
  PROVE  BlobInv' /\ Destroyed
<1>1. RetTyped
  <2> SUFFICES ASSUME NEW s \in BlobCalls, io[s].at = "closing"
               PROVE  io[s].ret \in {"plain", "error"}
    BY DEF RetTyped
  <2> QED
    BY CallIs, CallFields
<1>2. CellsInv' /\ Destroyed
  BY <1>1, CellsNext DEF BlobInv
<1>3. CASE \E s \in Stmts, v \in Values : Bind(s, v) /\ UNCHANGED blobVars
  BY <1>2, <1>3, StatementKeeps, QuietKeeps
<1>4. CASE \E s \in Stmts : (Clear(s) \/ Reset(s) \/ Finalize(s)) /\ UNCHANGED blobVars
  <2>1. "plain" \in Values
    BY DEF Values
  <2> QED
    BY <1>2, <1>4, <2>1, StatementKeeps, QuietKeeps
<1>5. CASE \E p \in Ptrs : BindToNothing(p) /\ UNCHANGED blobVars
  <2>1. pc' = pc
    BY <1>5 DEF BindToNothing, stmtVars
  <2> QED
    BY <1>2, <1>5, <2>1, QuietKeeps
<1>6. CASE \E s \in Stmts \ BlobCalls, v \in Values :
             (CallReturns(s, v) \/ CallThrows(s, v) \/ PromiseSettles(s, v)) /\ UNCHANGED blobVars
  BY <1>2, <1>6, FunctionKeeps, QuietKeeps
<1>7. CASE \E s \in Stmts \ BlobCalls : CallAwaits(s) /\ UNCHANGED blobVars
  <2>1. "plain" \in Values
    BY DEF Values
  <2> QED
    BY <1>2, <1>7, <2>1, FunctionKeeps, QuietKeeps
<1>8. CASE \E s \in BlobCalls, a \in Args : BlobCall(s, a[1], a[2], a[3])
  BY <1>2, <1>8, BeginKeeps
<1>9. CASE \E s \in BlobCalls : BlobCallThrows(s)
  <2>1. UNCHANGED blobVars
    BY <1>9 DEF BlobCallThrows
  <2> QED
    BY <1>2, <1>9, <2>1, ThrowsKeep, QuietKeeps
<1>10. CASE \E s \in BlobCalls : BlobStep(s)
  BY <1>2, <1>10, BlobMovesKeep
<1>11. CASE (MemoryChanges /\ UNCHANGED <<stmtVars, blobVars>>) \/ UNCHANGED vars
  <2>1. UNCHANGED <<pc, blobVars>>
    BY <1>11 DEF stmtVars, vars
  <2> QED
    BY <1>2, <2>1, QuietKeeps
<1> QED
  BY <1>2, <1>3, <1>4, <1>5, <1>6, <1>7, <1>8, <1>9, <1>10, <1>11 DEF Next

-----------------------------------------------------------------------------
(* The inductive invariant: the calls of functions and of blob_io, and the *)
(* cells of SQLite, in every order.                                        *)
THEOREM BlobInvariant == Spec => []BlobInv
<1>1. Init => BlobInv
  BY BlobInitially
<1>2. BlobInv /\ [Next]_vars => BlobInv'
  BY BlobNext
<1> QED
  BY <1>1, <1>2, PTL DEF Spec

(* A statement awaits a call of blob_io exactly as long as the call runs,  *)
(* and as long as it runs its memory is borrowed.                          *)
THEOREM BlobTypes == Spec => []TypeOK
<1>1. BlobInv => TypeOK
  BY DEF BlobInv
<1> QED
  BY <1>1, BlobInvariant, PTL

(* value.js:135, 78-107: refs counts the cells of SQLite that hold the     *)
(* Pointer, and each block has one cell that will free it; a statement     *)
(* that is torn leaves one too many at most.                               *)
THEOREM EveryCellIsCounted == Spec => []CellsAreCounted
<1>1. BlobInv => CellsAreCounted
  BY DEF BlobInv, CellsInv
<1> QED
  BY <1>1, BlobInvariant, PTL

(* value.js:155: release destroys a Pointer only when no cell holds it.    *)
THEOREM NothingHeldIsDestroyed == Spec => DestroyedWhenUnheld
<1>1. BlobInv /\ [Next]_vars =>
        [\A p \in DOMAIN pointers \ DOMAIN pointers' : Holders(p)' = 0]_<<stmtVars, valueVars>>
  BY BlobNext DEF Destroyed
<1> QED
  BY <1>1, BlobInvariant, PTL DEF Spec, DestroyedWhenUnheld

(* blob_io.js:61-78: at every await the region that offset has passed is   *)
(* what the stream gave, or what it got, byte by byte and in order; what   *)
(* is copied passes the end of the region by less than the buffer.         *)
THEOREM EveryByteInOrder == Spec => []CopiedInOrder
<1>1. ASSUME BlobInv PROVE CopiedInOrder
  <2> SUFFICES ASSUME NEW s \in BlobCalls, io[s].at \notin {"none", "opening"}
               PROVE  InPlace(io[s], Size(s))
    BY DEF CopiedInOrder, InPlace
  <2> QED
    BY <1>1 DEF BlobInv, Progress
<1> QED
  BY <1>1, BlobInvariant, PTL

(* memory.js:149, blob_io.js:66-94: a chunk is never longer than the Span  *)
(* it is copied into or out of, and the Spans share no byte.  Whether they *)
(* are still borrowed is no part of this: see the next theorem.            *)
THEOREM ChunksFitBuffers == Spec => []ChunkFitsBuffer
<1>1. ASSUME BlobInv PROVE ChunkFitsBuffer
  <2> SUFFICES ASSUME NEW s \in BlobCalls
               PROVE  /\ reading[s] = "yes" => io[s].at = "filling" /\ ChunkLen(s) <= Size(s)
                      /\ io[s].at \in {"writing", "draining"} => Len(io[s].chunk) <= Size(s)
                      /\ Apart(borrowed[s])
    BY DEF ChunkFitsBuffer
  <2>1. Progress(s)
    BY <1>1 DEF BlobInv
  <2>2. io[s].at = "filling" => ChunkLen(s) <= Size(s)
    <3> SUFFICES ASSUME io[s].at = "filling" PROVE ChunkLen(s) <= Size(s)
      OBVIOUS
    <3>1. Size(s) \in Nat /\ io[s].end \in Nat /\ io[s].offset \in Nat
      BY <1>1, SizeIs, CallIs, CallFields
    <3> QED
      BY <3>1 DEF ChunkLen
  <2>3. borrowed[s] \in Seq(Nat)
    <3>1. borrowed[s] = <<>> \/ \E size \in BufferSizes : borrowed[s] = BlobArgs(size)
      BY <1>1 DEF BlobInv, IoTyped
    <3>2. ASSUME NEW size \in BufferSizes PROVE BlobArgs(size) \in Seq(Nat)
      <4>1. size \in Nat
        BY BlobAssumption
      <4> QED
        BY <4>1 DEF BlobArgs
    <3>3. <<>> \in Seq(Nat)
      OBVIOUS
    <3> HIDE DEF BlobArgs
    <3> QED
      BY <3>1, <3>2, <3>3
  <2>4. Apart(borrowed[s])
    BY <2>3, BorrowedSpansAreApart
  <2> QED
    BY <2>1, <2>2, <2>4 DEF Progress, InPlace
<1> QED
  BY <1>1, BlobInvariant, PTL

(* What Promise.all leaves of a chunk when the writer rejects first.       *)
NoOrphan == \A s \in BlobCalls : reading[s] # "orphan"

LoneRejection == \A s \in BlobCalls : WriterRejects(s) => reading[s] # "yes"

LEMMA OrphansAreRejected ==
  ASSUME BlobInv, NoOrphan, [Next]_vars, [LoneRejection]_vars
  PROVE  NoOrphan'
<1>1. reading \in [BlobCalls -> {"no", "yes", "orphan"}]
  BY DEF BlobInv, IoTyped
<1>2. ASSUME reading' = reading PROVE NoOrphan'
  BY <1>2 DEF NoOrphan
<1>3. ASSUME NEW s \in BlobCalls, NEW v, v # "orphan", Reading(s, v) PROVE NoOrphan'
  BY <1>1, <1>3 DEF NoOrphan, Reading
<1>4. ASSUME NEW s \in BlobCalls, NEW r, Loops(s, r) PROVE NoOrphan'
  <2>1. CASE r.stream \in Readable
    BY <1>2, <1>4, <2>1 DEF Loops
  <2>2. CASE r.stream \notin Readable
    <3>1. Reading(s, IF More(r) THEN "yes" ELSE reading[s])
      BY <1>4, <2>2 DEF Loops
    <3>2. reading[s] # "orphan"
      BY DEF NoOrphan
    <3> QED
      BY <1>3, <3>1, <3>2
  <2> QED
    BY <2>1, <2>2
<1>5. ASSUME NEW s \in BlobCalls, BlobStep(s) PROVE NoOrphan'
  <2>1. CASE BlobOpens(s)
    BY <1>2, <1>4, <2>1 DEF BlobOpens, Fails
  <2>2. CASE BlobWrites(s)
    BY <1>2, <1>4, <2>2 DEF BlobWrites
  <2>3. CASE StreamWrites(s)
    BY <1>4, <2>3 DEF StreamWrites
  <2>4. CASE BlobReads(s)
    BY <1>3, <2>4 DEF BlobReads
  <2>5. CASE WriterRejects(s)
    <3>1. Reading(s, IF reading[s] = "yes" THEN "orphan" ELSE reading[s])
      BY <2>5 DEF WriterRejects
    <3>2. reading[s] # "orphan"
      BY DEF NoOrphan
    <3>3. CASE LoneRejection
      <4>1. reading[s] # "yes"
        BY <2>5, <3>3 DEF LoneRejection
      <4> QED
        BY <1>3, <3>1, <3>2, <4>1
    <3>4. CASE UNCHANGED vars
      BY <1>2, <3>4 DEF vars, blobVars
    <3> QED
      BY <3>3, <3>4
  <2>6. CASE \/ StreamReads(s) \/ BlobRefuses(s) \/ WriterIsReady(s)
             \/ StreamCloses(s) \/ StreamFails(s) \/ BlobCloses(s)
    BY <1>2, <2>6 DEF StreamReads, BlobRefuses, WriterIsReady, StreamCloses, StreamFails,
       Fails, BlobCloses
  <2> QED
    BY <1>5, <2>1, <2>2, <2>3, <2>4, <2>5, <2>6 DEF BlobStep
<1>6. ASSUME NEW s \in BlobCalls, NEW a, BlobCall(s, a[1], a[2], a[3]) PROVE NoOrphan'
  BY <1>2, <1>6 DEF BlobCall
<1>7. ASSUME NEW s \in BlobCalls, BlobCallThrows(s) PROVE NoOrphan'
  BY <1>2, <1>7 DEF BlobCallThrows, blobVars
<1>8. ASSUME UNCHANGED blobVars PROVE NoOrphan'
  BY <1>2, <1>8 DEF blobVars
<1>9. UNCHANGED vars => UNCHANGED blobVars
  BY DEF vars
<1> QED
  BY <1>5, <1>6, <1>7, <1>8, <1>9 DEF Next

(* memory.js:177, blob_io.js:86-94: the buffer is borrowed as long as      *)
(* SQLite fills it, in every behaviour but those in which a writer rejects *)
(* while SQLite still reads.  That is the one case Promise.all does not    *)
(* wait for; in it the code does use the buffer after it has been freed,   *)
(* and nothing is claimed.                                                 *)
THEOREM BufferBorrowedUnlessRejected ==
  Spec /\ [][\A s \in BlobCalls : WriterRejects(s) => reading[s] # "yes"]_vars
    => []BufferBorrowed
<1>1. Init => NoOrphan
  BY DEF Init, NoOrphan
<1>2. BlobInv /\ NoOrphan /\ [Next]_vars
        /\ [\A s \in BlobCalls : WriterRejects(s) => reading[s] # "yes"]_vars => NoOrphan'
  BY OrphansAreRejected DEF LoneRejection
<1>3. ASSUME BlobInv, NoOrphan PROVE BufferBorrowed
  <2> SUFFICES ASSUME NEW s \in BlobCalls, reading[s] # "no" PROVE borrowed[s] # <<>>
    BY DEF BufferBorrowed
  <2>1. reading[s] = "yes"
    BY <1>3 DEF BlobInv, IoTyped, NoOrphan
  <2>2. io[s].at = "filling"
    BY <1>3, <2>1 DEF BlobInv, Progress
  <2> QED
    BY <1>3, <2>2 DEF BlobInv, TypeOK
<1> QED
  BY <1>1, <1>2, <1>3, BlobInvariant, PTL DEF Spec
===============================================================================
