------------------------------- MODULE BorrowMem -------------------------------
(***************************************************************************)
(* src/memory.js: borrow_mem gives a function one block of memory for all  *)
(* its arguments and frees it when the function returns, or when the       *)
(* promise it returns settles.  An argument is the number of its bytes: 0  *)
(* for one that needs none, which is undefined, empty, a Span already, or  *)
(* a string that has been leaked.                                          *)
(***************************************************************************)
EXTENDS Integers, Sequences

Align(n) == n + ((-n) % 4)

(* alloc_size when the first i arguments have got their places.            *)
AllocSize(args) ==
  LET size[i \in 0..Len(args)] ==
        IF i = 0 THEN 0
        ELSE IF args[i] = 0 THEN size[i - 1]
        ELSE Align(size[i - 1]) + args[i]
  IN size

(* The pointers are relative to the block; a null span has no bytes.       *)
Spans(args) ==
  [i \in DOMAIN args |->
     [ptr |-> IF args[i] = 0 THEN 0 ELSE Align(AllocSize(args)[i - 1]), len |-> args[i]]]

Total(args) == AllocSize(args)[Len(args)]

(* memory.js:149: the arguments are aligned, inside the block, and no two  *)
(* of them share a byte, whichever of them need no memory.                 *)
Apart(args) ==
  LET span == Spans(args) IN
  \A i, j \in DOMAIN args :
    /\ span[i].ptr % 4 = 0
    /\ span[i].ptr + span[i].len <= Total(args)
    /\ i < j /\ args[i] > 0 /\ args[j] > 0 => span[i].ptr + span[i].len <= span[j].ptr
===============================================================================
