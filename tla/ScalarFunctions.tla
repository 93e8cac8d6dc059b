---------------------------- MODULE ScalarFunctions ----------------------------
(***************************************************************************)
(* src/func/basics.js: a statement of one parameter and one column, which  *)
(* calls a registered function.  The function returns or throws at once,   *)
(* or gives a promise, and then the step is suspended (see Asyncify) until *)
(* the promise settles.  An exception that gets out of the function leaves *)
(* the step as an error does; one that release throws while SQLite drops   *)
(* a cell tears the statement, because SQLite has not emptied that cell    *)
(* and finalizing it throws again: its cells stay.                         *)
(***************************************************************************)
EXTENDS Values, FiniteSets

CONSTANT Stmts

VARIABLES
  pc,           \* where each statement is
  param, out    \* its parameter, and the result of its function

stmtVars == <<pc, param, out>>

Places == {"ready", "awaiting", "row", "failed", "thrown", "torn", "finalized"}

FunctionsInit ==
  /\ ValuesInit
  /\ pc = [s \in Stmts |-> "ready"]
  /\ param = [s \in Stmts |-> "empty"]
  /\ out = [s \in Stmts |-> "empty"]

Goto(s, place) == pc' = [pc EXCEPT ![s] = place]

-----------------------------------------------------------------------------
(* SQLite drops the cell of s; release may throw in the middle of that.    *)
LetGo(cells, s, map, place) ==
  IF Known(map, cells[s])
  THEN /\ cells' = [cells EXCEPT ![s] = "empty"]
       /\ pointers' = Released(map, cells[s])
       /\ heap' = heap - Block(cells[s])
       /\ Goto(s, place)
  ELSE /\ Goto(s, "torn")
       /\ pointers' = map
       /\ UNCHANGED <<cells, heap>>

(* Mutant: this.refs is incremented after sqlite3_bind_pointer.            *)
BindRefersLast(s, v) ==
  /\ pc[s] = "ready"
  /\ Bindable(v)
  /\ IF Known(pointers, param[s])
     THEN /\ param' = [param EXCEPT ![s] = Cell(v)]
          /\ pointers' = Referred(Released(pointers, param[s]), v)
          /\ heap' = heap + Block(Cell(v)) - Block(param[s])
          /\ UNCHANGED pc
     ELSE /\ Goto(s, "torn")
          /\ heap' = heap + Block(Cell(v))
          /\ UNCHANGED <<param, pointers>>
  /\ UNCHANGED <<out, scarce>>

(* Bindable.bind: the reference is taken, or the block allocated, before   *)
(* the old value is dropped; they stay when that tears the statement.      *)
Bind(s, v) ==
  /\ pc[s] = "ready"
  /\ Bindable(v)
  /\ LET map == Referred(pointers, v) IN
     IF Known(map, param[s])
     THEN /\ param' = [param EXCEPT ![s] = Cell(v)]
          /\ pointers' = Released(map, param[s])
          /\ heap' = heap + Block(Cell(v)) - Block(param[s])
          /\ UNCHANGED pc
     ELSE /\ Goto(s, "torn")
          /\ pointers' = map
          /\ heap' = heap + Block(Cell(v))
          /\ UNCHANGED param
  /\ UNCHANGED <<out, scarce>>

(* Statement.bind binds to statement `undefined`: SQLite refuses and calls *)
(* the destructor of what it has been given.                               *)
BindToNothing(p) ==
  /\ p \in DOMAIN pointers
  /\ pointers' = Released(Referred(pointers, p), p)
  /\ UNCHANGED <<stmtVars, heap, scarce>>

Clear(s) ==
  /\ pc[s] = "ready"
  /\ LetGo(param, s, pointers, "ready")
  /\ UNCHANGED <<out, scarce>>

-----------------------------------------------------------------------------
(***************************************************************************)
(* FuncCtx.call.  handle sets v as the result, an error, or throws.        *)
(***************************************************************************)
(* Mutant: the block of an error message is not freed by [Resultable].     *)
AnswerLeaks(s, v, place) ==
  /\ Goto(s, place)
  /\ IF place = "row"
     THEN /\ out' = [out EXCEPT ![s] = Cell(v)]
          /\ pointers' = Referred(pointers, v)
          /\ heap' = heap + Block(Cell(v))
     ELSE /\ heap' = heap + (IF v = "error" /\ place = "failed" THEN 1 ELSE 0)
          /\ UNCHANGED <<out, pointers>>
  /\ UNCHANGED <<param, scarce>>

Answer(s, v, place) ==
  /\ Goto(s, place)
  /\ IF place = "row"
     THEN /\ out' = [out EXCEPT ![s] = Cell(v)]
          /\ pointers' = Referred(pointers, v)
          /\ heap' = heap + Block(Cell(v))
     ELSE UNCHANGED <<out, pointers, heap>>
  /\ UNCHANGED <<param, scarce>>

(* What becomes of a result, an error or an exception: handle is called    *)
(* with it where nothing catches what handle throws, and sqlite3_step      *)
(* throws or rejects in its turn.                                          *)
Unguarded(v) == IF Handled(v) \in {"row", "failed"} THEN Handled(v) ELSE "thrown"

(* A value that is returned is handled inside the try: the exception is    *)
(* handled in its turn, an OutOfMemError without allocating.               *)
Guarded(v) ==
  CASE Handled(v) = "OutOfMemError" -> "failed"
    [] Handled(v) = "Error" -> Unguarded("error")
    [] OTHER -> Handled(v)

CallReturns(s, v) ==
  /\ pc[s] = "ready"
  /\ Answer(s, v, Guarded(v))

CallThrows(s, v) ==
  /\ pc[s] = "ready"
  /\ Answer(s, v, Unguarded(v))

CallAwaits(s) ==
  /\ pc[s] = "ready"
  /\ Goto(s, "awaiting")
  /\ UNCHANGED <<param, out, valueVars>>

(* ret.then(handle, handle): either way, and with nothing around it.       *)
PromiseSettles(s, v) ==
  /\ pc[s] = "awaiting"
  /\ Answer(s, v, Unguarded(v))

-----------------------------------------------------------------------------
(* The execution ends, by its last step or by sqlite3_reset, which conn.js *)
(* calls however the step has ended.                                       *)
Reset(s) ==
  /\ pc[s] \in {"row", "failed", "thrown"}
  /\ LetGo(out, s, pointers, "ready")
  /\ UNCHANGED <<param, scarce>>

Finalize(s) ==
  /\ pc[s] = "ready"
  /\ LetGo(param, s, pointers, "finalized")
  /\ UNCHANGED <<out, scarce>>

-----------------------------------------------------------------------------
FunctionsTypeOK ==
  /\ DOMAIN pointers \subseteq Ptrs
  /\ \A p \in DOMAIN pointers : pointers[p] \in Nat
  /\ heap \in Nat
  /\ scarce \in BOOLEAN
  /\ pc \in [Stmts -> Places]
  /\ param \in [Stmts -> Cells]
  /\ out \in [Stmts -> Cells]

Count(cells, c) == Cardinality({s \in Stmts : cells[s] = c})
Holders(c) == Count(param, c) + Count(out, c)
Torn == Cardinality({s \in Stmts : pc[s] = "torn"})

(* value.js:135, 78-107: refs counts the cells of SQLite that hold the     *)
(* Pointer, and each block has one cell that will free it, in every order  *)
(* of binding again, clearing, returning, failing and finalizing; each     *)
(* statement that is torn while it binds may leave one too many, no more.  *)
CellsAreCounted ==
  /\ \A p \in DOMAIN pointers : pointers[p] - Holders(p) \in 0..Torn
  /\ heap - Holders("block") \in 0..Torn

(* What the counts rest on: a statement has a result only between its row  *)
(* and its reset, and only what has been used can hold anything.           *)
CellsInv ==
  /\ FunctionsTypeOK
  /\ \A s \in Stmts : pc[s] \notin {"row", "torn"} => out[s] = "empty"
  /\ IsFiniteSet({s \in Stmts : pc[s] = "torn" \/ param[s] # "empty" \/ out[s] # "empty"})
  /\ CellsAreCounted

(* value.js:155: a Pointer is destroyed only by the release of the last    *)
(* cell that holds it.  (One that is bound again after that is in a cell   *)
(* and not in the map: see ToJs and LetGo.)                                *)
DestroyedWhenUnheld ==
  [][\A p \in DOMAIN pointers \ DOMAIN pointers' : Holders(p)' = 0]_<<stmtVars, valueVars>>
===============================================================================
