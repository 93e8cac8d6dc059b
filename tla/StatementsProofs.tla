---------------------------- MODULE StatementsProofs ----------------------------
(***************************************************************************)
(* What holds of src/conn.js for every number of queries on a connection,  *)
(* whatever they ask for, however often the connection is opened and       *)
(* closed under them, and whether or not the VFS unlocks synchronously.    *)
(***************************************************************************)
EXTENDS Statements, TLAPS

LEMMA InitStatements == Init => StatementInv
<1> USE MaxOpensAssumption, MaxStmtsAssumption DEF Init
<1>1. Init => TypeOK
  BY DEF TypeOK, Dbs, Steps
<1>2. Init => MemoryOutlivesUse /\ StatementsFinalized /\ HandlesOwned /\ StatementInUse
  BY DEF MemoryOutlivesUse, StatementsFinalized, HandlesOwned, StatementInUse,
         Settled, Alive, Dbs
<1> QED
  BY <1>1, <1>2 DEF StatementInv

-----------------------------------------------------------------------------
(* What the calls into SQLite do to its handles.                           *)

(* Nothing that happens to statements without deleting one loses a handle. *)
LEMMA HandlesKept ==
  ASSUME StatementInv, UNCHANGED <<ptr, dbs, fresh>>,
         \A q \in Queries : vm[q] \in Alive => vm'[q] \in Alive /\ on'[q] = on[q]
  PROVE  HandlesOwned'
<1> SUFFICES ASSUME NEW d \in Dbs, dbs'[d] = "zombie"
             PROVE  StatementsOn(d)' # {}
  BY DEF HandlesOwned, StatementInv
<1>1. PICK q \in Queries : on[q] = d /\ vm[q] \in Alive
  BY DEF StatementInv, HandlesOwned, StatementsOn
<1> QED
  BY <1>1 DEF StatementsOn

(* Deleting a statement frees the zombie it was the last one of.           *)
LEMMA HandlesAfterDelete ==
  ASSUME StatementInv, NEW q \in Queries, Delete(q), UNCHANGED <<ptr, fresh>>,
         \A r \in Queries : r # q => on'[r] = on[r]
  PROVE  /\ HandlesOwned'
         /\ dbs' \in [Dbs -> {"none", "open", "zombie", "freed"}]
         /\ vm' \in [Queries -> {"none", "freed"} \cup Alive]
         /\ vm' = [vm EXCEPT ![q] = "freed"]
<1> USE DEF StatementInv, TypeOK, Delete
<1>1. ASSUME NEW d \in Dbs, dbs'[d] = "zombie"
      PROVE  StatementsOn(d)' # {}
  <2>1. PICK r \in Queries : r # q /\ on[r] = d /\ vm[r] \in Alive
    BY <1>1 DEF StatementsOn
  <2>2. on'[r] = d /\ vm'[r] \in Alive
    BY <2>1
  <2> QED
    BY <2>2 DEF StatementsOn
<1>2. ASSUME NEW d \in Dbs, dbs'[d] = "open"
      PROVE  d = ptr' \/ d \in fresh'
  BY <1>2 DEF HandlesOwned
<1> QED
  BY <1>1, <1>2 DEF HandlesOwned

(* Closing a handle leaves no open handle behind, and a zombie only for    *)
(* its statements.                                                         *)
LEMMA ClosedHandle ==
  ASSUME NEW d
  PROVE  /\ Closed(d) \in {"freed", "zombie"}
         /\ Closed(d) = "zombie" => StatementsOn(d) # {}
  BY DEF Closed

(* Opening and closing touch no query.                                     *)
LEMMA QueriesUntouched ==
  ASSUME StatementInv, UNCHANGED queryVars
  PROVE  /\ MemoryOutlivesUse' /\ StatementsFinalized' /\ StatementInUse'
         /\ \A d \in Dbs : StatementsOn(d)' = StatementsOn(d)
  BY DEF StatementInv, queryVars, MemoryOutlivesUse, StatementsFinalized,
         StatementInUse, StatementsOn

LEMMA NextConnection ==
  ASSUME StatementInv,
         OpenV2 \/ Close \/ \E d \in Dbs : Opened(d) \/ OpenFails(d)
  PROVE  StatementInv'
<1> USE MaxOpensAssumption DEF Dbs
<1>1. UNCHANGED queryVars
  BY DEF OpenV2, Close, Opened, OpenFails
<1>2. TypeOK'
  <2> USE DEF StatementInv, TypeOK, queryVars
  <2>1. CASE OpenV2
    BY <1>1, <2>1 DEF OpenV2
  <2>2. CASE Close
    BY <1>1, <2>2, ClosedHandle DEF Close
  <2>3. ASSUME NEW d \in Dbs, Opened(d) PROVE TypeOK'
    BY <1>1, <2>3, ClosedHandle DEF Opened
  <2>4. ASSUME NEW d \in Dbs, OpenFails(d) PROVE TypeOK'
    BY <1>1, <2>4, ClosedHandle DEF OpenFails
  <2> QED
    BY <2>1, <2>2, <2>3, <2>4
<1>3. HandlesOwned'
  <2> SUFFICES ASSUME NEW e \in Dbs
               PROVE  /\ dbs'[e] = "open" => e = ptr' \/ e \in fresh'
                      /\ dbs'[e] = "zombie" => StatementsOn(e) # {}
    BY <1>1, QueriesUntouched DEF HandlesOwned
  <2> USE DEF StatementInv, TypeOK, HandlesOwned
  <2>1. CASE OpenV2
    BY <2>1 DEF OpenV2
  <2>2. CASE Close
    BY <2>2, ClosedHandle DEF Close
  <2>3. ASSUME NEW d \in Dbs, Opened(d)
        PROVE  /\ dbs'[e] = "open" => e = ptr' \/ e \in fresh'
               /\ dbs'[e] = "zombie" => StatementsOn(e) # {}
    BY <2>3, ClosedHandle DEF Opened
  <2>4. ASSUME NEW d \in Dbs, OpenFails(d)
        PROVE  /\ dbs'[e] = "open" => e = ptr' \/ e \in fresh'
               /\ dbs'[e] = "zombie" => StatementsOn(e) # {}
    BY <2>4, ClosedHandle DEF OpenFails
  <2> QED
    BY <2>1, <2>2, <2>3, <2>4
<1> QED
  BY <1>1, <1>2, <1>3, QueriesUntouched DEF StatementInv

-----------------------------------------------------------------------------
(* The steps of a query.                                                   *)

(* The part of the invariant that is about one query.                      *)
QueryOK(q) ==
  /\ pc[q] \notin Settled \cup {"idle"} => mem[q] = "held"
  /\ pc[q] \in Settled => mem[q] # "held"
  /\ pc[q] \in Settled /\ vm[q] \in Alive => "finalize" \in late[q]
  /\ pc[q] = "preparing" => vm[q] \notin Alive /\ late[q] = {} /\ nth[q] < MaxStmts
  /\ pc[q] = "idle" => nth[q] = 0 /\ vm[q] = "none" /\ late[q] = {} /\ mem[q] = "none"
  /\ pc[q] \in {"prepared", "stepping", "row"} => vm[q] \in Alive /\ late[q] = {}

LEMMA QueryParts ==
  StatementInv <=> TypeOK /\ HandlesOwned /\ \A q \in Queries : QueryOK(q)
  BY DEF StatementInv, MemoryOutlivesUse, StatementsFinalized, StatementInUse, QueryOK

LEMMA QueryStep ==
  ASSUME StatementInv, NEW q \in Queries,
         \A r \in Queries : r # q =>
           /\ pc'[r] = pc[r] /\ nth'[r] = nth[r] /\ vm'[r] = vm[r]
           /\ late'[r] = late[r] /\ mem'[r] = mem[r],
         TypeOK', HandlesOwned', QueryOK(q)'
  PROVE  StatementInv'
<1>1. ASSUME NEW r \in Queries PROVE QueryOK(r)'
  <2>1. QueryOK(r)
    BY QueryParts
  <2> QED
    BY <2>1 DEF QueryOK
<1> QED
  BY <1>1 DEF StatementInv, MemoryOutlivesUse, StatementsFinalized, StatementInUse, QueryOK

LEMMA NextQuery ==
  ASSUME StatementInv, NEW q \in Queries,
         \/ Refuse(q) \/ Start(q) \/ Continue(q) \/ Consume(q)
         \/ Collect(q) \/ LateReset(q) \/ LateFinalize(q)
  PROVE  StatementInv'
<1> DEFINE Others == \A r \in Queries : r # q =>
                       /\ pc'[r] = pc[r] /\ nth'[r] = nth[r] /\ vm'[r] = vm[r]
                       /\ late'[r] = late[r] /\ mem'[r] = mem[r]
<1>1. QueryOK(q) /\ TypeOK
  BY QueryParts
<1> SUFFICES Others /\ TypeOK' /\ HandlesOwned' /\ QueryOK(q)'
  BY QueryStep
<1> USE MaxStmtsAssumption, MaxOpensAssumption
    DEF TypeOK, Steps, Settled, Goto, connVars, Prepare, Settle
<1>2. CASE Refuse(q)
  BY <1>1, <1>2, HandlesKept DEF Refuse, QueryOK, Alive
<1>3. CASE Start(q)
  BY <1>1, <1>3, HandlesKept DEF Start, QueryOK, Alive
<1>4. CASE Prepared(q)
  BY <1>1, <1>4, HandlesKept DEF Prepared, QueryOK, Alive
<1>5. CASE PreparedNothing(q)
  BY <1>1, <1>5, HandlesKept DEF PreparedNothing, GoOn, QueryOK
<1>6. CASE PrepareFails(q)
  BY <1>1, <1>6, HandlesKept DEF PrepareFails, QueryOK
<1>7. CASE Step(q)
  BY <1>1, <1>7, HandlesKept DEF Step, QueryOK, Alive
<1>8. CASE BindFails(q)
  BY <1>1, <1>8, HandlesAfterDelete DEF BindFails, QueryOK, Alive
<1>9. CASE StepRow(q)
  BY <1>1, <1>9, HandlesKept DEF StepRow, QueryOK, Alive
<1>10. CASE StepDone(q)
  BY <1>1, <1>10, HandlesAfterDelete DEF StepDone, GoOn, QueryOK, Alive
<1>11. CASE StepFails(q)
  BY <1>1, <1>11, HandlesAfterDelete DEF StepFails, QueryOK, Alive
<1>12. CASE StepBusy(q)
  BY <1>1, <1>12, HandlesAfterDelete, HandlesKept
     DEF StepBusy, TearDown, QueryOK, Alive
<1>13. CASE Break(q)
  BY <1>1, <1>13, HandlesAfterDelete, HandlesKept
     DEF Break, TearDown, QueryOK, Alive
<1>14. CASE Abandon(q)
  BY <1>1, <1>14, HandlesKept DEF Abandon, QueryOK, Alive
<1>15. CASE Collect(q)
  BY <1>1, <1>15, HandlesAfterDelete, HandlesKept DEF Collect, QueryOK, Alive
<1>16. CASE LateReset(q)
  BY <1>1, <1>16, HandlesKept DEF LateReset, QueryOK, Alive
<1>17. CASE LateFinalize(q)
  BY <1>1, <1>17, HandlesAfterDelete DEF LateFinalize, QueryOK, Alive
<1> QED
  BY <1>2, <1>3, <1>4, <1>5, <1>6, <1>7, <1>8, <1>9, <1>10, <1>11, <1>12, <1>13,
     <1>14, <1>15, <1>16, <1>17 DEF Continue, Consume

LEMMA NextStatements == StatementInv /\ [Next]_vars => StatementInv'
<1> SUFFICES ASSUME StatementInv, [Next]_vars PROVE StatementInv'
  OBVIOUS
<1>1. CASE UNCHANGED vars
  BY <1>1 DEF vars, connVars, queryVars, StatementInv, TypeOK, MemoryOutlivesUse,
     StatementsFinalized, HandlesOwned, StatementInUse, StatementsOn
<1> QED
  BY <1>1, NextConnection, NextQuery DEF Next

THEOREM StatementInvariant == Spec => []StatementInv
  BY InitStatements, NextStatements, PTL DEF Spec

(* Every variable keeps its type.                                          *)
THEOREM StatementTypes == Spec => []TypeOK
<1>1. StatementInv => TypeOK
  BY DEF StatementInv
<1> QED
  BY <1>1, StatementInvariant, PTL

(* The SQL text and the out parameters are there as long as the generator  *)
(* may call sqlite3_prepare_v3, and given back on every way out of it.     *)
THEOREM MemoryHeld == Spec => []MemoryOutlivesUse
<1>1. StatementInv => MemoryOutlivesUse
  BY DEF StatementInv
<1> QED
  BY <1>1, StatementInvariant, PTL

(* A query that is over has finalized its statement, or that is on its way.*)
THEOREM Finalized == Spec => []StatementsFinalized
<1>1. StatementInv => StatementsFinalized
  BY DEF StatementInv
<1> QED
  BY <1>1, StatementInvariant, PTL

(* Whatever open() and close() interleave, no open handle is lost, and a   *)
(* zombie always has the statement that keeps it.                          *)
THEOREM NoHandleLost == Spec => []HandlesOwned
<1>1. StatementInv => HandlesOwned
  BY DEF StatementInv
<1> QED
  BY <1>1, StatementInvariant, PTL

(* What is bound and stepped is a statement that is alive and that no      *)
(* unawaited reset or finalize is still busy with.                         *)
THEOREM StatementsUsedAlive == Spec => []StatementInUse
<1>1. StatementInv => StatementInUse
  BY DEF StatementInv
<1> QED
  BY <1>1, StatementInvariant, PTL

-----------------------------------------------------------------------------
(* The late calls come from an unlock that returns a promise, and from     *)
(* nothing else: with a VFS that unlocks synchronously no call is ever     *)
(* late, so no statement is reset after it was finalized.                  *)
NothingLate == \A q \in Queries : late[q] = {}

THEOREM SynchronousUnlock ==
  ASSUME ~AsyncUnlock
  PROVE  Spec => [](NothingLate /\ FinalizedIsLeftAlone)
<1>1. Init => NothingLate
  BY DEF Init, NothingLate
<1>2. NothingLate /\ [Next]_vars => NothingLate'
  <2> SUFFICES ASSUME NothingLate, [Next]_vars PROVE NothingLate'
    OBVIOUS
  <2> USE DEF NothingLate, connVars, queryVars
  <2>1. CASE UNCHANGED vars
    BY <2>1 DEF vars
  <2>2. CASE OpenV2 \/ Close \/ \E d \in Dbs : Opened(d) \/ OpenFails(d)
    BY <2>2 DEF OpenV2, Close, Opened, OpenFails
  <2>3. ASSUME NEW q \in Queries,
               Refuse(q) \/ Start(q) \/ Continue(q) \/ Consume(q) \/ Collect(q)
        PROVE  NothingLate'
    BY <2>3 DEF Refuse, Start, Continue, Consume, Collect, Prepared, PreparedNothing,
       PrepareFails, BindFails, Step, StepRow, StepDone, StepFails, StepBusy, Break,
       Abandon, TearDown
  <2>4. ASSUME NEW q \in Queries, LateReset(q) \/ LateFinalize(q) PROVE FALSE
    BY <2>4 DEF LateReset, LateFinalize
  <2> QED
    BY <2>1, <2>2, <2>3, <2>4 DEF Next
<1>3. NothingLate => FinalizedIsLeftAlone
  BY DEF NothingLate, FinalizedIsLeftAlone
<1> QED
  BY <1>1, <1>2, <1>3, PTL DEF Spec
===============================================================================
