------------------------------ MODULE Statements ------------------------------
(***************************************************************************)
(* src/conn.js: one Conn and the queries made on it with conn.sql`...`,    *)
(* which iterates over the rows of the statements that conn.stmts`...`     *)
(* prepares, yields and finalizes one after the other.                     *)
(*                                                                         *)
(* A call into SQLite that is awaited may be suspended in the VFS (see     *)
(* Asyncify): pc names it.  sqlite3_reset and sqlite3_finalize are not     *)
(* awaited: when they are suspended, because the VFS answers xUnlock with  *)
(* a promise, they go on later (late), whatever the query does meanwhile.  *)
(***************************************************************************)
EXTENDS Integers, FiniteSets

CONSTANTS
  Queries,        \* the conn.sql`...` iterations on the connection
  MaxStmts,       \* bound on the statements in the text of a query
  MaxOpens,       \* bound on the calls of conn.open()
  AsyncUnlock     \* whether the VFS's unlock returns a promise

ASSUME MaxStmtsAssumption == MaxStmts \in Nat \ {0}
ASSUME MaxOpensAssumption == MaxOpens \in Nat
ASSUME AsyncUnlockAssumption == AsyncUnlock \in BOOLEAN

VARIABLES
  ptr,        \* Conn.ptr: 0, or the database handle
  dbs,        \* what SQLite has of each handle
  fresh,      \* handles that an open() in progress has in its variable conn
  opened,     \* how many handles sqlite3_open_v2 has made
  pc,         \* where each query is
  nth,        \* how many statements of its text have been prepared
  on,         \* the handle the query's current statement is prepared on
  vm,         \* what SQLite has of that statement
  late,       \* the calls on that statement which nobody awaits
  mem         \* the SQL text and out parameters the query has borrowed

connVars == <<ptr, dbs, fresh, opened>>
queryVars == <<pc, nth, on, vm, late, mem>>
vars == <<connVars, queryVars>>

Dbs == 1..MaxOpens
Settled == {"returned", "thrown"}
Steps == {"idle", "preparing", "prepared", "stepping", "row", "abandoned"} \cup Settled
Alive == {"ready", "running"}

Init ==
  /\ ptr = 0
  /\ dbs = [d \in Dbs |-> "none"]
  /\ fresh = {}
  /\ opened = 0
  /\ pc = [q \in Queries |-> "idle"]
  /\ nth = [q \in Queries |-> 0]
  /\ on = [q \in Queries |-> 0]
  /\ vm = [q \in Queries |-> "none"]
  /\ late = [q \in Queries |-> {}]
  /\ mem = [q \in Queries |-> "none"]

Goto(q, step) == pc' = [pc EXCEPT ![q] = step]

-----------------------------------------------------------------------------
(***************************************************************************)
(* SQLite's side: handles and statements.                                  *)
(***************************************************************************)
StatementsOn(d) == {q \in Queries : on[q] = d /\ vm[q] \in Alive}

(* sqlite3_close_v2: a handle with statements becomes a zombie.            *)
Closed(d) == IF StatementsOn(d) = {} THEN "freed" ELSE "zombie"

(* The statement of q is deleted, and a zombie with its last one.          *)
Delete(q) ==
  /\ vm' = [vm EXCEPT ![q] = "freed"]
  /\ dbs' = [d \in Dbs |->
               IF dbs[d] = "zombie" /\ StatementsOn(d) \ {q} = {} THEN "freed" ELSE dbs[d]]

-----------------------------------------------------------------------------
(***************************************************************************)
(* Conn.open and Conn.close                                                *)
(***************************************************************************)
(* sqlite3_open_v2 has returned, with an error code or none: there is a    *)
(* handle either way.  When the call throws there is none: the catch       *)
(* clause closes `undefined`, which does nothing, so that no state changes.*)
OpenV2 ==
  /\ opened < MaxOpens
  /\ opened' = opened + 1
  /\ dbs' = [dbs EXCEPT ![opened + 1] = "open"]
  /\ fresh' = fresh \cup {opened + 1}
  /\ UNCHANGED <<ptr, queryVars>>

(* handle_error throws, and the handle is closed.                          *)
OpenFails(d) ==
  /\ d \in fresh
  /\ fresh' = fresh \ {d}
  /\ dbs' = [dbs EXCEPT ![d] = Closed(d)]
  /\ UNCHANGED <<ptr, opened, queryVars>>

(* Mutant: a connection that is open already is not closed.                *)
OpenReplaces(d) ==
  /\ d \in fresh
  /\ fresh' = fresh \ {d}
  /\ ptr' = d
  /\ UNCHANGED <<dbs, opened, queryVars>>

(* open() goes on: the handle replaces whatever is open by now.            *)
Opened(d) ==
  /\ d \in fresh
  /\ fresh' = fresh \ {d}
  /\ ptr' = d
  /\ dbs' = IF ptr = 0 THEN dbs ELSE [dbs EXCEPT ![ptr] = Closed(ptr)]
  /\ UNCHANGED <<opened, queryVars>>

Close ==
  /\ ptr # 0
  /\ ptr' = 0
  /\ dbs' = [dbs EXCEPT ![ptr] = Closed(ptr)]
  /\ UNCHANGED <<fresh, opened, queryVars>>

-----------------------------------------------------------------------------
(***************************************************************************)
(* stmts: its beginning, the call of sqlite3_prepare_v3, its end.          *)
(***************************************************************************)
Prepare(q) ==
  /\ Goto(q, "preparing")
  /\ on' = [on EXCEPT ![q] = ptr]

(* Mutant: release_mem is called after the loop, not in a finally.         *)
SettleUnreleased(q, outcome) ==
  /\ Goto(q, outcome)
  /\ mem' = IF outcome = "returned" THEN [mem EXCEPT ![q] = "freed"] ELSE mem

Settle(q, outcome) ==
  /\ Goto(q, outcome)
  /\ mem' = [mem EXCEPT ![q] = "freed"]

(* The connection is closed, or malloc fails.                              *)
Refuse(q) ==
  /\ pc[q] = "idle"
  /\ Goto(q, "thrown")
  /\ UNCHANGED <<connVars, nth, on, vm, late, mem>>

(* An empty text has nothing to prepare.                                   *)
Start(q) ==
  /\ pc[q] = "idle"
  /\ ptr # 0
  /\ \/ mem' = [mem EXCEPT ![q] = "held"] /\ Prepare(q)
     \/ Settle(q, "returned") /\ UNCHANGED on
  /\ UNCHANGED <<connVars, nth, vm, late>>

(* Mutant: remainder > 0, although the text ends with a NUL.               *)
GoOnOffByOne(q, n) ==
  \/ n <= MaxStmts /\ Prepare(q) /\ UNCHANGED mem
  \/ Settle(q, "returned") /\ UNCHANGED on

(* A statement is done with: the loop goes on with the rest of the text.   *)
GoOn(q, n) ==
  \/ n < MaxStmts /\ Prepare(q) /\ UNCHANGED mem
  \/ Settle(q, "returned") /\ UNCHANGED on

Prepared(q) ==
  /\ pc[q] = "preparing"
  /\ on[q] # 0
  /\ nth' = [nth EXCEPT ![q] = nth[q] + 1]
  /\ vm' = [vm EXCEPT ![q] = "ready"]
  /\ Goto(q, "prepared")
  /\ UNCHANGED <<connVars, on, late, mem>>

(* White space or a comment: no statement.                                 *)
PreparedNothing(q) ==
  /\ pc[q] = "preparing"
  /\ on[q] # 0
  /\ nth' = [nth EXCEPT ![q] = nth[q] + 1]
  /\ GoOn(q, nth[q] + 1)
  /\ UNCHANGED <<connVars, vm, late>>

(* An error in the SQL, or prepare on a connection closed meanwhile.       *)
PrepareFails(q) ==
  /\ pc[q] = "preparing"
  /\ Settle(q, "thrown")
  /\ UNCHANGED <<connVars, nth, on, vm, late>>

(* Mutant: clear() and bind_all() are called before the inner try.         *)
BindFailsUnfinalized(q) ==
  /\ pc[q] = "prepared"
  /\ Settle(q, "thrown")
  /\ UNCHANGED <<connVars, nth, on, vm, late>>

(* bind_all throws: the statement is finalized, the memory given back.     *)
BindFails(q) ==
  /\ pc[q] = "prepared"
  /\ Settle(q, "thrown")
  /\ Delete(q)
  /\ UNCHANGED <<ptr, fresh, opened, nth, on, late>>

(***************************************************************************)
(* The rows: Statement's iterator, and the two finally clauses at its end. *)
(***************************************************************************)
Step(q) ==
  /\ pc[q] \in {"prepared", "row"}
  /\ vm' = [vm EXCEPT ![q] = "running"]
  /\ Goto(q, "stepping")
  /\ UNCHANGED <<connVars, nth, on, late, mem>>

StepRow(q) ==
  /\ pc[q] = "stepping"
  /\ Goto(q, "row")
  /\ UNCHANGED <<connVars, nth, on, vm, late, mem>>

(* sqlite3_step has ended the statement itself: reset has nothing to do    *)
(* and finalize deletes it.                                                *)
StepDone(q) ==
  /\ pc[q] = "stepping"
  /\ Delete(q)
  /\ GoOn(q, nth[q])
  /\ UNCHANGED <<ptr, fresh, opened, nth, late>>

StepFails(q) ==
  /\ pc[q] = "stepping"
  /\ Delete(q)
  /\ Settle(q, "thrown")
  /\ UNCHANGED <<ptr, fresh, opened, nth, on, late>>

(* reset, then finalize, of a statement that still runs.  The VFS is asked *)
(* to unlock when no other statement reads the database; then reset is     *)
(* suspended, and finalize, which finds the statement half reset, may be.  *)
(* handle_error takes the promise of finalize for an error.                *)
TearDown(q, outcome) ==
  \/ /\ Delete(q)
     /\ Settle(q, outcome)
     /\ \/ UNCHANGED late
        \/ AsyncUnlock /\ late' = [late EXCEPT ![q] = {"reset"}]
  \/ /\ AsyncUnlock
     /\ late' = [late EXCEPT ![q] = {"reset", "finalize"}]
     /\ Settle(q, "thrown")
     /\ UNCHANGED <<vm, dbs>>

(* SQLITE_BUSY from sqlite3_step, which keeps a lock it already has.       *)
StepBusy(q) ==
  /\ pc[q] = "stepping"
  /\ TearDown(q, "thrown")
  /\ UNCHANGED <<ptr, fresh, opened, nth, on>>

(* The consumer leaves its loop: return() at a yield.                      *)
Break(q) ==
  /\ pc[q] = "row"
  /\ TearDown(q, "returned")
  /\ UNCHANGED <<ptr, fresh, opened, nth, on>>

(* The consumer never calls the generator again.                           *)
Abandon(q) ==
  /\ pc[q] = "row"
  /\ Goto(q, "abandoned")
  /\ UNCHANGED <<connVars, nth, on, vm, late, mem>>

(* The FinalizationRegistry finalizes the statement of a generator that    *)
(* has been collected; nothing calls its release_mem.                      *)
Collect(q) ==
  /\ pc[q] = "abandoned"
  /\ vm[q] = "running"
  /\ late[q] = {}
  /\ \/ Delete(q) /\ UNCHANGED late
     \/ AsyncUnlock /\ late' = [late EXCEPT ![q] = {"finalize"}] /\ UNCHANGED <<vm, dbs>>
  /\ UNCHANGED <<ptr, fresh, opened, pc, nth, on, mem>>

(* The promise of a suspended xUnlock resolves, the call goes on.          *)
LateReset(q) ==
  /\ "reset" \in late[q]
  /\ late' = [late EXCEPT ![q] = @ \ {"reset"}]
  /\ UNCHANGED <<connVars, pc, nth, on, vm, mem>>

LateFinalize(q) ==
  /\ "finalize" \in late[q]
  /\ late' = [late EXCEPT ![q] = @ \ {"finalize"}]
  /\ Delete(q)
  /\ UNCHANGED <<ptr, fresh, opened, pc, nth, on, mem>>

-----------------------------------------------------------------------------
(* What happens without the consumer.                                      *)
Continue(q) ==
  \/ Prepared(q) \/ PreparedNothing(q) \/ PrepareFails(q)
  \/ pc[q] = "prepared" /\ Step(q)
  \/ BindFails(q)
  \/ StepRow(q) \/ StepDone(q) \/ StepFails(q) \/ StepBusy(q)

Consume(q) == (pc[q] = "row" /\ Step(q)) \/ Break(q) \/ Abandon(q)

Next ==
  \/ OpenV2 \/ Close
  \/ \E d \in Dbs : Opened(d) \/ OpenFails(d)
  \/ \E q \in Queries : \/ Refuse(q) \/ Start(q) \/ Continue(q) \/ Consume(q)
                        \/ Collect(q) \/ LateReset(q) \/ LateFinalize(q)

Spec == Init /\ [][Next]_vars

(* Calls into SQLite return, queries have finitely many rows, and whoever  *)
(* reads a row goes on, breaks off or forgets about it.  The garbage       *)
(* collector promises nothing.                                             *)
Fairness ==
  \A q \in Queries :
    /\ WF_vars(Continue(q))
    /\ SF_vars(StepDone(q))
    /\ WF_vars(Consume(q))
    /\ WF_vars(LateFinalize(q))

FairSpec == Spec /\ Fairness

-----------------------------------------------------------------------------
(* The variables keep their types.                                         *)
TypeOK ==
  /\ ptr \in 0..MaxOpens
  /\ dbs \in [Dbs -> {"none", "open", "zombie", "freed"}]
  /\ fresh \subseteq Dbs
  /\ opened \in 0..MaxOpens
  /\ pc \in [Queries -> Steps]
  /\ nth \in [Queries -> 0..MaxStmts]
  /\ on \in [Queries -> 0..MaxOpens]
  /\ vm \in [Queries -> {"none", "freed"} \cup Alive]
  /\ late \in [Queries -> SUBSET {"reset", "finalize"}]
  /\ mem \in [Queries -> {"none", "held", "freed"}]

(* The memory that sqlite3_prepare_v3 reads the text from and writes to is *)
(* there as long as the generator may call it, and it is given back on     *)
(* every way out of the generator; only an abandoned one keeps it.         *)
MemoryOutlivesUse ==
  \A q \in Queries :
    /\ pc[q] \notin Settled \cup {"idle"} => mem[q] = "held"
    /\ pc[q] \in Settled => mem[q] # "held"

(* However a query ends, its last statement has been finalized, or its     *)
(* finalize is on the way; only an abandoned one has a live statement.     *)
StatementsFinalized ==
  \A q \in Queries :
    /\ pc[q] \in Settled /\ vm[q] \in Alive => "finalize" \in late[q]
    /\ pc[q] = "preparing" => vm[q] \notin Alive /\ late[q] = {}

(* No handle is lost: an open one is the connection's, or in the hands of  *)
(* an open() that is still in progress, also when open() and close() are   *)
(* called while another open() is; and a zombie has a statement to wait for*)
HandlesOwned ==
  \A d \in Dbs :
    /\ dbs[d] = "open" => d = ptr \/ d \in fresh
    /\ dbs[d] = "zombie" => StatementsOn(d) # {}

(* sqlite3_step and the bindings are only called on a statement that is    *)
(* there and that no late call is busy with; before the next statement is  *)
(* prepared, the one before has gone.                                      *)
StatementInUse ==
  \A q \in Queries :
    /\ pc[q] = "idle" =>
         nth[q] = 0 /\ vm[q] = "none" /\ late[q] = {} /\ mem[q] = "none"
    /\ pc[q] = "preparing" => nth[q] < MaxStmts
    /\ pc[q] \in {"prepared", "stepping", "row"} => vm[q] \in Alive /\ late[q] = {}

(* The inductive invariant of the proofs.                                  *)
StatementInv ==
  TypeOK /\ MemoryOutlivesUse /\ StatementsFinalized /\ HandlesOwned /\ StatementInUse

(* A database that was closed while queries were reading it is let go,     *)
(* unless one of them was abandoned.                                       *)
ZombiesEnd ==
  \A d \in Dbs :
    dbs[d] = "zombie" ~> (dbs[d] = "freed"
                            \/ \E q \in StatementsOn(d) : pc[q] = "abandoned")

(* vendor/sqlite3.h:5287: "It is a grievous error for the application to   *)
(* try to use a prepared statement after it has been finalized."  Once     *)
(* sqlite3_finalize is called, the call of sqlite3_reset is over.          *)
FinalizedIsLeftAlone ==
  \A q \in Queries :
    "finalize" \in late[q] \/ vm[q] = "freed" => "reset" \notin late[q]
===============================================================================
