-------------------------------- MODULE Values --------------------------------
(***************************************************************************)
(* src/value.js: how JavaScript values get into SQLite's cells (parameters *)
(* and results of functions) and back.  Text and bytes are copied into a   *)
(* block that SQLite frees; a Pointer goes by its number, and SQLite calls *)
(* release for every cell that lets go of one.                             *)
(***************************************************************************)
EXTENDS Integers, Functions

CONSTANT Ptrs           \* the Pointer objects

ASSUME PtrsAssumption ==
  Ptrs \cap {"empty", "plain", "block", "bytes", "error", "object"} = {}

VARIABLES
  pointers,     \* the map of that name, with the refs of the objects in it
  heap,         \* blocks that bind and result have allocated, not freed yet
  scarce        \* whether malloc fails

valueVars == <<pointers, heap, scarce>>

(* What JavaScript has: a Pointer, a value that needs no memory (a number, *)
(* null, a ZeroBlob, bytes that are in SQLite's memory), text or bytes, an *)
(* Error, or an object that is neither Bindable nor Resultable.            *)
Values == Ptrs \cup {"plain", "bytes", "error", "object"}

(* What SQLite has in a cell.                                              *)
Cells == Ptrs \cup {"empty", "plain", "block"}
Cell(v) == IF v = "bytes" THEN "block" ELSE v

(* Whether [Bindable] and [Resultable] get as far as calling SQLite.       *)
Allocates(v) == v \in {"bytes", "error"}
Bindable(v) == v \notin {"error", "object"} /\ (Allocates(v) => ~scarce)

(* What Resultable.result does: it sets a value or an error, or throws.    *)
Handled(v) ==
  CASE v = "object" -> "Error"
    [] Allocates(v) /\ scarce -> "OutOfMemError"
    [] v = "error" /\ ~scarce -> "failed"
    [] OTHER -> "row"

(* ++this.refs: of no consequence once the object has left the map.        *)
Referred(map, v) == IF v \in DOMAIN map THEN [map EXCEPT ![v] = @ + 1] ELSE map

(* imports.value.release, which throws when the object is not in the map.  *)
Known(map, c) == c \in Ptrs => c \in DOMAIN map
Released(map, c) ==
  CASE c \notin DOMAIN map -> map
    [] c \in DOMAIN map /\ map[c] = 1 -> Restrict(map, DOMAIN map \ {c})
    [] OTHER -> [map EXCEPT ![c] = @ - 1]

(* value_to_js: a pointer that is not in the map is a NULL to SQLite.      *)
ToJs(c) == IF Known(pointers, c) THEN c ELSE "plain"

(* The blocks in cells that are written (+) and overwritten (-).           *)
Block(c) == IF c = "block" THEN 1 ELSE 0

ValuesInit ==
  /\ pointers = [p \in Ptrs |-> 0]
  /\ heap = 0
  /\ scarce \in BOOLEAN

MemoryChanges ==
  /\ scarce' = ~scarce
  /\ UNCHANGED <<pointers, heap>>
===============================================================================
