--------------------------------- MODULE Pages ---------------------------------
(* The content of a file: a sequence of pages, of which SQLite writes one at *)
(* a time.  Offsets count pages from zero.                                   *)
EXTENDS Integers, Sequences

(* Page p of content c; SQLite does not read past the end.                   *)
PageOf(c, p) == c[p + 1]

(* A write of a page in the file, or of the one that follows its last.       *)
Put(c, p, d) ==
  [i \in 1..(IF p < Len(c) THEN Len(c) ELSE p + 1) |-> IF i = p + 1 THEN d ELSE c[i]]

Cut(c, n) == [i \in 1..n |-> c[i]]
================================================================================
