---------------------------- MODULE ConnPoolProofs ----------------------------
(***************************************************************************)
(* What holds of src/pool.js for every set of calls, every max_conns, every*)
(* max_delay and every combination of failures around the pool.            *)
(***************************************************************************)
EXTENDS ConnPool, ArrayLemmas, FiniteSetTheorems

-----------------------------------------------------------------------------
(* Types.  They are inductive only together with SlotIffHolding: what a    *)
(* call hands over or begins a transaction on must be a connection.        *)

TypeInv == TypeOK /\ SlotIffHolding

LEMMA InitType == Init => TypeInv
<1> SUFFICES ASSUME Init PROVE TypeInv
  OBVIOUS
<1>1. options \in [initialized : {"function", "pending", "fulfilled", "rejected"},
                   max_delay : MaxDelays]
  BY GivenOptionsAssumption DEF Init
<1>2. QED
  BY <1>1, MaxConnsAssumption, NestingsAssumption, EmptySeq
     DEF Init, TypeInv, TypeOK, SlotIffHolding, Steps, Slots, Holding, Making

LEMMA HolderSlot ==
  ASSUME TypeInv, NEW t \in Calls, pc[t] \in Holding
  PROVE  slot[t] \in Slots
  BY MaxConnsAssumption DEF TypeInv, TypeOK, SlotIffHolding, Slots

LEMMA HandOverType ==
  ASSUME TypeInv, NEW t \in Calls, pc[t] \in Holding, HandOver(t),
         UNCHANGED <<conn_count, options, inside, engine>>, in_tx' \subseteq in_tx
  PROVE  TypeInv'
<1>1. slot[t] \in Slots /\ slot[t] # 0 /\ slot[t] \in 0..MaxConns
  BY HolderSlot, MaxConnsAssumption DEF Slots
<1>2. /\ conn_count' \in 0..MaxConns
      /\ options' \in [initialized : {"function", "pending", "fulfilled", "rejected"},
                    max_delay : MaxDelays]
      /\ inside' \in [Calls -> Calls \cup {Nobody}]
      /\ engine' \in {"loading", "ready", "rejected"}
      /\ in_tx' \subseteq Slots
  BY DEF TypeInv, TypeOK
<1> USE DEF TypeInv, TypeOK, SlotIffHolding
<1>3. CASE waiters = <<>>
  <2>1. /\ conns' = Append(conns, slot[t])
        /\ waiters' = waiters
        /\ pc' = [pc EXCEPT ![t] = "returned"]
        /\ slot' = [slot EXCEPT ![t] = 0]
    BY <1>3 DEF HandOver, Abandon, Goto
  <2>2. conns' \in Seq(Slots)
    BY <1>1, <2>1, AppendLast
  <2> QED
    BY <1>2, <2>1, <2>2, MaxConnsAssumption DEF Steps, Holding, Making, Settled
<1>4. CASE waiters # <<>>
  <2> DEFINE w == Head(waiters)
  <2>1. w \in Calls /\ Tail(waiters) \in Seq(Calls)
    BY <1>4, HeadTail
  <2>2. /\ conns' = conns
        /\ waiters' = Tail(waiters)
    BY <1>4 DEF HandOver
  <2>3. \/ /\ pc[w] = "waiting"
           /\ pc' = [pc EXCEPT ![t] = "returned", ![w] = "using"]
           /\ slot' = [slot EXCEPT ![t] = 0, ![w] = slot[t]]
        \/ /\ pc' = [pc EXCEPT ![t] = "returned"]
           /\ slot' = [slot EXCEPT ![t] = 0]
    BY <1>4 DEF HandOver, Abandon, Goto
  <2> HIDE DEF w
  <2>4. CASE /\ pc[w] = "waiting"
             /\ pc' = [pc EXCEPT ![t] = "returned", ![w] = "using"]
             /\ slot' = [slot EXCEPT ![t] = 0, ![w] = slot[t]]
    <3>1. pc' \in [Calls -> Steps] /\ slot' \in [Calls -> 0..MaxConns]
      BY <1>1, <2>1, <2>4, MaxConnsAssumption DEF Steps, Holding, Making, Settled
    <3>2. w # t
      BY <2>4 DEF Holding, Making
    <3>3. SlotIffHolding'
      BY <1>1, <2>1, <2>4, <3>2 DEF Holding, Making
    <3> QED
      BY <1>2, <2>1, <2>2, <3>1, <3>3
  <2>5. CASE /\ pc' = [pc EXCEPT ![t] = "returned"]
             /\ slot' = [slot EXCEPT ![t] = 0]
    BY <1>2, <2>1, <2>2, <2>5, MaxConnsAssumption
       DEF Steps, Holding, Making, Settled
  <2> QED
    BY <2>3, <2>4, <2>5
<1> QED
  BY <1>3, <1>4

LEMMA NextType == TypeInv /\ [Next]_vars => TypeInv'
<1> SUFFICES ASSUME TypeInv, [Next]_vars PROVE TypeInv'
  OBVIOUS
<1> USE MaxConnsAssumption
<1> USE DEF TypeInv, TypeOK, SlotIffHolding, Goto, Abandon,
            Steps, Making, Holding, Settled
<1>1. CASE UNCHANGED vars
  BY <1>1 DEF vars
<1>2. ASSUME NEW t \in Calls, GetConn(t) PROVE TypeInv'
  <2>1. CASE PopConn(t)
    <3>1. Front(conns) \in Seq(Slots) /\ Last(conns) \in Slots
      BY <2>1, FrontLast DEF PopConn
    <3>2. Last(conns) \in 0..MaxConns /\ Last(conns) # 0
      BY <3>1 DEF Slots
    <3> QED
      BY <2>1, <3>1, <3>2 DEF PopConn
  <2>2. CASE MakeConn(t)
    BY <2>2 DEF MakeConn
  <2>3. CASE GiveUp(t)
    BY <2>3 DEF GiveUp
  <2>4. CASE Wait(t)
    BY <2>4, AppendLast DEF Wait
  <2> QED
    BY <1>2, <2>1, <2>2, <2>3, <2>4 DEF GetConn
<1>3. ASSUME NEW t \in Calls, ContinueMakeConn(t) PROVE TypeInv'
  <2>1. CASE CallInitialized(t)
    BY <2>1 DEF CallInitialized
  <2>2. CASE InitializedThrows(t)
    BY <2>2 DEF InitializedThrows
  <2>3. CASE CallNonFunction(t)
    BY <2>3 DEF CallNonFunction
  <2>4. CASE InitializedReady(t)
    BY <2>4 DEF InitializedReady
  <2>5. CASE Opened(t)
    BY <2>5 DEF Opened
  <2>6. CASE Configured(t)
    BY <2>6 DEF Configured
  <2>7. CASE MakeConnRejects(t)
    BY <2>7 DEF MakeConnRejects
  <2> QED
    BY <1>3, <2>1, <2>2, <2>3, <2>4, <2>5, <2>6, <2>7 DEF ContinueMakeConn
<1>4. ASSUME NEW t \in Calls, FinishBorrow(t) PROVE TypeInv'
  <2>1. CASE ReturnConn(t)
    BY <2>1, HandOverType DEF ReturnConn
  <2>2. CASE RolledBack(t)
    BY <2>2, HandOverType DEF RolledBack
  <2>3. CASE StartRollback(t)
    BY <2>3 DEF StartRollback
  <2>4. CASE RollbackFails(t)
    BY <2>4 DEF RollbackFails
  <2> QED
    BY <1>4, <2>1, <2>2, <2>3, <2>4 DEF FinishBorrow
<1>5. ASSUME NEW t \in Calls, Timeout(t) PROVE TypeInv'
  BY <1>5 DEF Timeout
<1>6. ASSUME NEW t \in Calls, BeginTransaction(t) \/ EndTransaction(t)
      PROVE  TypeInv'
  <2>1. slot[t] \in Slots
    BY <1>6, HolderSlot DEF BeginTransaction, EndTransaction
  <2> QED
    BY <1>6, <2>1 DEF BeginTransaction, EndTransaction
<1>7. CASE SettleEngine \/ SettleInitialized
  BY <1>7 DEF SettleEngine, SettleInitialized
<1> HIDE DEF TypeInv
<1> QED
  BY <1>1, <1>2, <1>3, <1>4, <1>5, <1>6, <1>7 DEF Next

(* At every moment of every run the variables of pool.js keep their types. *)
THEOREM TypeCorrect == Spec => []TypeOK
<1>1. Spec => []TypeInv
  BY InitType, NextType, PTL DEF Spec
<1>2. TypeInv => TypeOK
  BY DEF TypeInv
<1> QED
  BY <1>1, <1>2, PTL

-----------------------------------------------------------------------------
(* The inductive invariant PoolInv: what each kind of step does to the     *)
(* connections.                                                            *)

LoanInv == Counted /\ Queued /\ ExclusiveLoan /\ WaitOnlyWhenFull /\ CleanLoan

LEMMA ConnsFacts ==
  ASSUME TypeInv
  PROVE  /\ Len(conns) \in Nat
         /\ DOMAIN conns = 1..Len(conns)
         /\ \A i \in DOMAIN conns : conns[i] \in Slots /\ conns[i] # 0
         /\ Len(waiters) \in Nat
         /\ DOMAIN waiters = 1..Len(waiters)
<1>1. conns \in Seq(Slots) /\ waiters \in Seq(Calls)
  BY DEF TypeInv, TypeOK
<1>2. \A s \in Slots : s # 0
  BY MaxConnsAssumption DEF Slots
<1> QED
  BY <1>1, <1>2, LenProperties, ElementOfSeq

(* A call that only moves on, keeping what it has.                         *)
LEMMA MoveOn ==
  ASSUME TypeInv, LoanInv, NEW t \in Calls, NEW step,
         Goto(t, step), step # "waiting", step \in Making => pc[t] \in Making,
         UNCHANGED <<conn_count, conns, waiters, slot, in_tx>>
  PROVE  LoanInv'
<1> USE DEF LoanInv, TypeInv, TypeOK, Goto
<1>1. Counted'
  BY DEF Counted
<1>2. Queued'
  BY DEF Queued
<1>3. ExclusiveLoan'
  BY DEF ExclusiveLoan
<1>4. WaitOnlyWhenFull'
  BY DEF WaitOnlyWhenFull
<1>5. CleanLoan'
  BY DEF CleanLoan
<1> QED
  BY <1>1, <1>2, <1>3, <1>4, <1>5

(* A call that settles and drops what it has.                              *)
LEMMA Drop ==
  ASSUME TypeInv, LoanInv, NEW t \in Calls, NEW outcome \in Settled,
         Abandon(t, outcome),
         UNCHANGED <<conn_count, conns, waiters, in_tx>>
  PROVE  LoanInv'
<1> USE DEF LoanInv, TypeInv, TypeOK, Goto, Abandon
<1>1. Counted'
  BY DEF Counted
<1>2. Queued'
  BY DEF Queued, Settled
<1>3. ExclusiveLoan'
  BY ConnsFacts DEF ExclusiveLoan
<1>4. WaitOnlyWhenFull'
  BY DEF WaitOnlyWhenFull
<1>5. CleanLoan'
  BY DEF CleanLoan, Settled, Making
<1> QED
  BY <1>1, <1>2, <1>3, <1>4, <1>5

(* return_conn puts the connection back when nobody is queued.             *)
LEMMA PutBack ==
  ASSUME TypeInv, LoanInv, NEW t \in Calls, pc[t] \in Holding,
         waiters = <<>>, HandOver(t),
         in_tx' = in_tx \ {slot[t]}, UNCHANGED conn_count
  PROVE  LoanInv'
<1> USE DEF LoanInv
<1>1. slot[t] \in Slots /\ slot[t] # 0
  BY HolderSlot, MaxConnsAssumption DEF Slots
<1>2. /\ conns' = Append(conns, slot[t])
      /\ waiters' = waiters
      /\ pc' = [pc EXCEPT ![t] = "returned"]
      /\ slot' = [slot EXCEPT ![t] = 0]
  BY DEF HandOver, Abandon, Goto
<1>3. pc \in [Calls -> Steps] /\ slot \in [Calls -> 0..MaxConns]
  BY DEF TypeInv, TypeOK
<1>4. /\ DOMAIN conns' = 1..(Len(conns) + 1)
      /\ \A i \in 1..Len(conns) : conns'[i] = conns[i] /\ i \in DOMAIN conns
      /\ conns'[Len(conns) + 1] = slot[t]
      /\ \A i \in DOMAIN conns' : i \in 1..Len(conns) \/ i = Len(conns) + 1
  <2>1. conns \in Seq(Slots)
    BY DEF TypeInv, TypeOK
  <2>2. Append(conns, slot[t]) \in Seq(Slots)
    BY <1>1, <2>1, AppendLast
  <2>3. DOMAIN Append(conns, slot[t]) = 1..Len(Append(conns, slot[t]))
    BY <2>2, LenProperties
  <2>4. /\ Len(conns) \in Nat
        /\ Len(Append(conns, slot[t])) = Len(conns) + 1
        /\ \A i \in 1..Len(conns) : Append(conns, slot[t])[i] = conns[i]
        /\ Append(conns, slot[t])[Len(conns)+1] = slot[t]
    BY <1>1, <2>1, AppendLast
  <2>5. DOMAIN conns = 1..Len(conns)
    BY ConnsFacts
  <2> QED
    BY <1>2, <2>3, <2>4, <2>5
<1>5. Counted'
  BY <1>1, <1>2, <1>3, <1>4 DEF Counted, TypeInv, TypeOK
<1>6. Queued'
  BY <1>2, <1>3 DEF Queued
<1>7. ExclusiveLoan'
  <2>1. \A u, v \in Calls : slot'[u] # 0 /\ slot'[u] = slot'[v] => u = v
    BY <1>2, <1>3 DEF ExclusiveLoan
  <2>2. ASSUME NEW i \in DOMAIN conns', NEW u \in Calls PROVE slot'[u] # conns'[i]
    <3>1. CASE u = t
      BY <1>1, <1>2, <1>3, <1>4, <3>1, ConnsFacts
    <3>2. CASE u # t
      BY <1>1, <1>2, <1>3, <1>4, <3>2 DEF ExclusiveLoan
    <3> QED
      BY <3>1, <3>2
  <2>3. IsInjective(conns')
    BY <1>4 DEF ExclusiveLoan, IsInjective
  <2> QED
    BY <2>1, <2>2, <2>3 DEF ExclusiveLoan
<1>8. WaitOnlyWhenFull'
  BY <1>2 DEF WaitOnlyWhenFull
<1>9. CleanLoan'
  BY <1>2, <1>3, <1>4 DEF CleanLoan, Making
<1> QED
  BY <1>5, <1>6, <1>7, <1>8, <1>9

(* return_conn resolves the oldest waiter, which may have timed out.       *)
LEMMA GiveToWaiter ==
  ASSUME TypeInv, LoanInv, NEW t \in Calls, pc[t] \in Holding,
         waiters # <<>>, HandOver(t),
         in_tx' = in_tx \ {slot[t]}, UNCHANGED conn_count
  PROVE  LoanInv'
<1> DEFINE w == Head(waiters)
<1>1. slot[t] \in Slots /\ slot[t] # 0
  BY HolderSlot, MaxConnsAssumption DEF Slots
<1>2. conns' = conns /\ waiters' = Tail(waiters)
  BY DEF HandOver
<1>3. \/ /\ pc[w] = "waiting"
         /\ pc' = [pc EXCEPT ![t] = "returned", ![w] = "using"]
         /\ slot' = [slot EXCEPT ![t] = 0, ![w] = slot[t]]
      \/ /\ pc[w] # "waiting"
         /\ Abandon(t, "returned")
  BY DEF HandOver
<1>4. /\ w \in Calls /\ w = waiters[1]
      /\ Tail(waiters) \in Seq(Calls)
      /\ Len(waiters) \in Nat \ {0}
      /\ DOMAIN Tail(waiters) = 1..(Len(waiters) - 1)
      /\ \A i \in 1..(Len(waiters) - 1) : Tail(waiters)[i] = waiters[i+1]
  <2>1. waiters \in Seq(Calls)
    BY DEF TypeInv, TypeOK
  <2> QED
    BY <2>1, HeadTail, LenProperties
<1>5. pc \in [Calls -> Steps] /\ slot \in [Calls -> 0..MaxConns]
  BY DEF TypeInv, TypeOK
<1>6. conns = <<>> /\ conn_count = MaxConns
  BY DEF LoanInv, WaitOnlyWhenFull
<1>7. \A u \in Calls : pc[u] = "waiting" /\ u # w => \E i \in DOMAIN waiters' : waiters'[i] = u
  <2> SUFFICES ASSUME NEW u \in Calls, pc[u] = "waiting", u # w
               PROVE  \E i \in DOMAIN waiters' : waiters'[i] = u
    OBVIOUS
  <2>1. PICK j \in DOMAIN waiters : waiters[j] = u
    BY DEF LoanInv, Queued
  <2>2. j \in 1..Len(waiters) /\ j # 1
    BY <1>4, <2>1, ConnsFacts
  <2>3. (j-1) \in 1..(Len(waiters) - 1) /\ (j-1)+1 = j
    BY <1>4, <2>2
  <2>4. waiters'[j-1] = u /\ (j-1) \in DOMAIN waiters'
    BY <1>2, <1>4, <2>1, <2>3
  <2> QED
    BY <2>4
<1> HIDE DEF w
<1>8. WaitOnlyWhenFull'
  BY <1>2, <1>6 DEF WaitOnlyWhenFull
<1>9. CASE /\ pc[w] = "waiting"
           /\ pc' = [pc EXCEPT ![t] = "returned", ![w] = "using"]
           /\ slot' = [slot EXCEPT ![t] = 0, ![w] = slot[t]]
  <2>1. w # t /\ slot[w] = 0
    BY <1>4, <1>9 DEF TypeInv, SlotIffHolding, Holding, Making
  <2>2. \A u \in Calls : slot'[u] = IF u = w THEN slot[t] ELSE IF u = t THEN 0 ELSE slot[u]
    BY <1>4, <1>5, <1>9, <2>1
  <2>3. Counted'
    <3>1. \A u \in Calls : slot'[u] \in 0..MaxConns
      BY <1>1, <1>5, <2>2, MaxConnsAssumption DEF Slots
    <3> QED
      BY <1>2, <1>6, <3>1, MaxConnsAssumption DEF LoanInv, Counted
  <2>4. Queued'
    BY <1>4, <1>5, <1>7, <1>9 DEF Queued
  <2>5. ExclusiveLoan'
    BY <1>1, <1>2, <1>6, <2>2 DEF LoanInv, ExclusiveLoan
  <2>6. CleanLoan'
    BY <1>2, <1>4, <1>5, <1>6, <1>9, <2>2 DEF LoanInv, CleanLoan, Making
  <2> QED
    BY <1>8, <2>3, <2>4, <2>5, <2>6 DEF LoanInv
<1>10. CASE pc[w] # "waiting" /\ Abandon(t, "returned")
  <2>1. /\ pc' = [pc EXCEPT ![t] = "returned"]
        /\ slot' = [slot EXCEPT ![t] = 0]
    BY <1>10 DEF Abandon, Goto
  <2>2. Counted'
    BY <1>2, <1>5, <2>1, MaxConnsAssumption DEF LoanInv, Counted, TypeInv, TypeOK
  <2>3. Queued'
    BY <1>5, <1>7, <1>10, <2>1 DEF Queued
  <2>4. ExclusiveLoan'
    BY <1>2, <1>5, <1>6, <2>1 DEF LoanInv, ExclusiveLoan
  <2>5. CleanLoan'
    BY <1>2, <1>5, <1>6, <2>1 DEF LoanInv, CleanLoan, Making
  <2> QED
    BY <1>8, <2>2, <2>3, <2>4, <2>5 DEF LoanInv
<1> QED
  BY <1>3, <1>9, <1>10

(* get_conn pops an idle connection.                                       *)
LEMMA Pop ==
  ASSUME TypeInv, LoanInv, NEW t \in Calls, PopConn(t)
  PROVE  LoanInv'
<1>1. /\ pc \in [Calls -> Steps] /\ slot \in [Calls -> 0..MaxConns]
      /\ conns \in Seq(Slots)
  BY DEF TypeInv, TypeOK
<1> DEFINE n == Len(conns)
<1>2. /\ conns' = Front(conns)
      /\ slot' = [slot EXCEPT ![t] = Last(conns)]
      /\ pc' = [pc EXCEPT ![t] = "using"]
      /\ UNCHANGED <<conn_count, waiters, in_tx>>
  BY DEF PopConn, Goto
<1>3. /\ n \in Nat \ {0} /\ Last(conns) = conns[n]
      /\ DOMAIN conns = 1..n /\ DOMAIN conns' = 1..(n-1)
      /\ \A i \in 1..(n-1) : conns'[i] = conns[i]
  <2>1. Len(Front(conns)) = n-1 /\ Front(conns) \in Seq(Slots)
    BY <1>1, FrontLast DEF PopConn
  <2>2. DOMAIN Front(conns) = 1..(n-1)
    BY <2>1, LenProperties
  <2> QED
    BY <1>1, <1>2, <2>1, <2>2, FrontLast, ConnsFacts DEF PopConn
<1> HIDE DEF n
<1>4. \A i \in DOMAIN conns' : i \in DOMAIN conns /\ i # n /\ conns'[i] = conns[i]
  BY <1>3
<1>5. n \in DOMAIN conns /\ slot'[t] = conns[n] /\ conns[n] \in Slots
  BY <1>1, <1>2, <1>3, ConnsFacts
<1>6. \A u \in Calls : u # t => slot'[u] = slot[u] /\ slot[u] # conns[n]
  BY <1>1, <1>2, <1>5 DEF LoanInv, ExclusiveLoan
<1>7. waiters = <<>>
  BY DEF LoanInv, WaitOnlyWhenFull, PopConn
<1>8. Counted'
  BY <1>1, <1>2, <1>4, <1>5, <1>6 DEF LoanInv, Counted
<1>9. Queued'
  BY <1>1, <1>2 DEF LoanInv, Queued
<1>10. ExclusiveLoan'
  <2>1. \A u, v \in Calls : slot'[u] # 0 /\ slot'[u] = slot'[v] => u = v
    BY <1>5, <1>6 DEF LoanInv, ExclusiveLoan
  <2>2. \A i \in DOMAIN conns' : \A u \in Calls : slot'[u] # conns'[i]
    BY <1>4, <1>5, <1>6 DEF LoanInv, ExclusiveLoan, IsInjective
  <2>3. IsInjective(conns')
    BY <1>4 DEF LoanInv, ExclusiveLoan, IsInjective
  <2> QED
    BY <2>1, <2>2, <2>3 DEF ExclusiveLoan
<1>11. WaitOnlyWhenFull'
  BY <1>2, <1>7 DEF WaitOnlyWhenFull
<1>12. CleanLoan'
  BY <1>1, <1>2, <1>4 DEF LoanInv, CleanLoan, Making
<1> QED
  BY <1>8, <1>9, <1>10, <1>11, <1>12 DEF LoanInv

(* get_conn starts a connection that nobody has seen before.               *)
LEMMA Make ==
  ASSUME TypeInv, LoanInv, NEW t \in Calls, MakeConn(t)
  PROVE  LoanInv'
<1> DEFINE step == IF options.initialized = "function" THEN "await_engine" ELSE "await_initialized"
<1>1. /\ pc \in [Calls -> Steps] /\ slot \in [Calls -> 0..MaxConns]
      /\ conn_count \in 0..MaxConns /\ in_tx \subseteq Slots
  BY DEF TypeInv, TypeOK
<1>2. /\ conns = <<>> /\ conn_count < MaxConns /\ conn_count' = conn_count + 1
      /\ slot' = [slot EXCEPT ![t] = conn_count + 1]
      /\ pc' = [pc EXCEPT ![t] = step]
      /\ UNCHANGED <<conns, waiters, in_tx>>
  BY DEF MakeConn, Goto
<1>3. step # "waiting"
  OBVIOUS
<1> HIDE DEF step
<1>4. waiters = <<>>
  BY <1>1, <1>2, MaxConnsAssumption DEF LoanInv, WaitOnlyWhenFull
<1>5. Counted'
  BY <1>1, <1>2, MaxConnsAssumption DEF LoanInv, Counted, Slots
<1>6. Queued'
  BY <1>1, <1>2, <1>3 DEF LoanInv, Queued
<1>7. ExclusiveLoan'
  BY <1>1, <1>2, MaxConnsAssumption DEF LoanInv, ExclusiveLoan, Counted
<1>8. WaitOnlyWhenFull'
  BY <1>2, <1>4 DEF WaitOnlyWhenFull
<1>9. CleanLoan'
  BY <1>1, <1>2, MaxConnsAssumption DEF LoanInv, CleanLoan, Counted
<1> QED
  BY <1>5, <1>6, <1>7, <1>8, <1>9 DEF LoanInv

LEMMA Enqueue ==
  ASSUME TypeInv, LoanInv, NEW t \in Calls, Wait(t)
  PROVE  LoanInv'
<1>1. /\ pc \in [Calls -> Steps] /\ waiters \in Seq(Calls)
      /\ conn_count \in 0..MaxConns
  BY DEF TypeInv, TypeOK
<1>2. /\ conns = <<>> /\ conn_count >= MaxConns
      /\ waiters' = Append(waiters, t) /\ pc' = [pc EXCEPT ![t] = "waiting"]
      /\ UNCHANGED <<conn_count, conns, slot, in_tx>>
  BY DEF Wait, Goto
<1>3. /\ Len(waiters) \in Nat
      /\ DOMAIN waiters = 1..Len(waiters)
      /\ DOMAIN waiters' = 1..(Len(waiters) + 1)
      /\ \A i \in 1..Len(waiters) : waiters'[i] = waiters[i]
      /\ waiters'[Len(waiters) + 1] = t
  BY <1>1, <1>2, AppendLast, LenProperties
<1>4. Counted'
  BY <1>2 DEF LoanInv, Counted
<1>5. Queued'
  <2>1. \A i \in DOMAIN waiters : i \in DOMAIN waiters' /\ waiters'[i] = waiters[i]
    BY <1>3
  <2>2. Len(waiters) + 1 \in DOMAIN waiters'
    BY <1>3
  <2> QED
    BY <1>1, <1>2, <1>3, <2>1, <2>2 DEF LoanInv, Queued
<1>6. ExclusiveLoan'
  BY <1>2 DEF LoanInv, ExclusiveLoan
<1>7. WaitOnlyWhenFull'
  BY <1>1, <1>2, MaxConnsAssumption DEF WaitOnlyWhenFull
<1>8. CleanLoan'
  BY <1>1, <1>2 DEF LoanInv, CleanLoan, Making
<1> QED
  BY <1>4, <1>5, <1>6, <1>7, <1>8 DEF LoanInv

LEMMA Transact ==
  ASSUME TypeInv, LoanInv, NEW t \in Calls, BeginTransaction(t) \/ EndTransaction(t)
  PROVE  LoanInv'
<1>1. /\ pc[t] = "using" /\ slot[t] \in Slots /\ slot[t] # 0
      /\ in_tx' \subseteq in_tx \cup {slot[t]}
      /\ UNCHANGED <<conn_count, conns, waiters, pc, slot>>
  BY HolderSlot, MaxConnsAssumption
     DEF BeginTransaction, EndTransaction, Holding, Slots
<1>2. Counted'
  BY <1>1 DEF LoanInv, Counted
<1>3. Queued' /\ ExclusiveLoan' /\ WaitOnlyWhenFull'
  BY <1>1 DEF LoanInv, Queued, ExclusiveLoan, WaitOnlyWhenFull
<1>4. CleanLoan'
  <2>1. \A i \in DOMAIN conns : conns[i] # slot[t]
    BY DEF LoanInv, ExclusiveLoan
  <2>2. \A u \in Calls : pc[u] \in Making => slot[u] # slot[t]
    BY <1>1 DEF LoanInv, ExclusiveLoan, Making
  <2> QED
    BY <1>1, <2>1, <2>2 DEF LoanInv, CleanLoan
<1> QED
  BY <1>2, <1>3, <1>4 DEF LoanInv

LEMMA InitLoan == Init => LoanInv
  BY MaxConnsAssumption
     DEF Init, LoanInv, Counted, Queued, ExclusiveLoan, WaitOnlyWhenFull,
         CleanLoan, IsInjective, Making

LEMMA NextLoan == TypeInv /\ LoanInv /\ [Next]_vars => LoanInv'
<1> SUFFICES ASSUME TypeInv, LoanInv, [Next]_vars PROVE LoanInv'
  OBVIOUS
<1>1. CASE UNCHANGED vars
  BY <1>1 DEF vars, LoanInv, Counted, Queued, ExclusiveLoan, WaitOnlyWhenFull,
              CleanLoan
<1>2. ASSUME NEW t \in Calls, GetConn(t) PROVE LoanInv'
  <2>1. CASE GiveUp(t)
    BY <2>1, MoveOn DEF GiveUp, Making
  <2> QED
    BY <1>2, <2>1, Pop, Make, Enqueue DEF GetConn
<1>3. ASSUME NEW t \in Calls, ContinueMakeConn(t) PROVE LoanInv'
  <2>1. CASE CallInitialized(t)
    BY <2>1, MoveOn DEF CallInitialized, Making
  <2>2. CASE InitializedThrows(t) \/ MakeConnRejects(t)
    BY <2>2, Drop DEF InitializedThrows, MakeConnRejects, Settled
  <2>3. CASE CallNonFunction(t)
    BY <2>3, Drop DEF CallNonFunction, Settled
  <2>4. CASE InitializedReady(t)
    BY <2>4, MoveOn DEF InitializedReady, Making
  <2>5. CASE Opened(t)
    BY <2>5, MoveOn DEF Opened, Making
  <2>6. CASE Configured(t)
    BY <2>6, MoveOn DEF Configured, Making
  <2> QED
    BY <1>3, <2>1, <2>2, <2>3, <2>4, <2>5, <2>6 DEF ContinueMakeConn
<1>4. ASSUME NEW t \in Calls, FinishBorrow(t) PROVE LoanInv'
  <2>1. CASE ReturnConn(t)
    <3>1. pc[t] \in Holding /\ in_tx' = in_tx \ {slot[t]}
      BY <2>1 DEF ReturnConn, Holding
    <3> QED
      BY <2>1, <3>1, PutBack, GiveToWaiter DEF ReturnConn
  <2>2. CASE RolledBack(t)
    <3>1. pc[t] \in Holding
      BY <2>2 DEF RolledBack, Holding
    <3> QED
      BY <2>2, <3>1, PutBack, GiveToWaiter DEF RolledBack
  <2>3. CASE StartRollback(t)
    BY <2>3, MoveOn DEF StartRollback, Making
  <2>4. CASE RollbackFails(t)
    BY <2>4, Drop DEF RollbackFails, Settled
  <2> QED
    BY <1>4, <2>1, <2>2, <2>3, <2>4 DEF FinishBorrow
<1>5. ASSUME NEW t \in Calls, Timeout(t) PROVE LoanInv'
  BY <1>5, MoveOn DEF Timeout, Making
<1>6. CASE SettleEngine \/ SettleInitialized
  BY <1>6 DEF SettleEngine, SettleInitialized, LoanInv, Counted, Queued,
              ExclusiveLoan, WaitOnlyWhenFull, CleanLoan
<1> QED
  BY <1>1, <1>2, <1>3, <1>4, <1>5, <1>6, Transact DEF Next

THEOREM PoolInvariant == Spec => []PoolInv
<1>1. Init => TypeInv /\ LoanInv
  BY InitType, InitLoan
<1>2. TypeInv /\ LoanInv /\ [Next]_vars => (TypeInv /\ LoanInv)'
  BY NextType, NextLoan
<1>3. TypeInv /\ LoanInv => PoolInv
  BY DEF PoolInv, TypeInv, LoanInv
<1> QED
  BY <1>1, <1>2, <1>3, PTL DEF Spec

(* No connection is ever lent to two borrow() calls, or lent and idle.     *)
THEOREM LoansAreExclusive == Spec => []ExclusiveLoan
<1>1. PoolInv => ExclusiveLoan
  BY DEF PoolInv
<1> QED
  BY <1>1, PoolInvariant, PTL

(* Whenever #waiters is not empty, #conns is, and the limit is reached.    *)
THEOREM WaitersMeanFull == Spec => []WaitOnlyWhenFull
<1>1. PoolInv => WaitOnlyWhenFull
  BY DEF PoolInv
<1> QED
  BY <1>1, PoolInvariant, PTL

(* No idle or new connection carries a transaction of an earlier borrower. *)
THEOREM LoansAreClean == Spec => []CleanLoan
<1>1. PoolInv => CleanLoan
  BY DEF PoolInv
<1> QED
  BY <1>1, PoolInvariant, PTL

-----------------------------------------------------------------------------
(* Action properties.                                                      *)

(* The only calls a step brings to func, or to capacity of their own, are  *)
(* the one that takes the step and the oldest waiter.                      *)
LEMMA HandOverStep ==
  ASSUME TypeInv, NEW t \in Calls, pc[t] \in Holding, HandOver(t),
         NEW u \in Calls, pc[u] # pc'[u], pc'[u] # "returned"
  PROVE  /\ u # t /\ pc[u] = "waiting" /\ pc'[u] = "using"
         /\ waiters # <<>> /\ u = Head(waiters)
         /\ slot'[u] = slot[t]
<1>1. pc \in [Calls -> Steps] /\ slot \in [Calls -> 0..MaxConns]
  BY DEF TypeInv, TypeOK
<1>2. CASE Abandon(t, "returned")
  BY <1>1, <1>2 DEF Abandon, Goto
<1>3. CASE /\ waiters # <<>> /\ pc[Head(waiters)] = "waiting"
           /\ pc' = [pc EXCEPT ![t] = "returned", ![Head(waiters)] = "using"]
           /\ slot' = [slot EXCEPT ![t] = 0, ![Head(waiters)] = slot[t]]
  <2>1. Head(waiters) \in Calls
    BY <1>3, HeadTail DEF TypeInv, TypeOK
  <2>2. Head(waiters) # t
    BY <1>3 DEF Holding, Making
  <2> QED
    BY <1>1, <1>3, <2>1, <2>2
<1> QED
  BY <1>2, <1>3 DEF HandOver

LEMMA StartsClean ==
  ASSUME TypeInv, LoanInv, Next,
         NEW u \in Calls, pc[u] # "using", pc'[u] = "using"
  PROVE  slot'[u] \notin in_tx'
<1>1. pc \in [Calls -> Steps] /\ slot \in [Calls -> 0..MaxConns]
  BY DEF TypeInv, TypeOK
<1>2. ASSUME NEW t \in Calls, GetConn(t) PROVE slot'[u] \notin in_tx'
  <2>1. CASE PopConn(t)
    <3>1. t = u /\ slot'[u] = Last(conns) /\ in_tx' = in_tx
      BY <1>1, <2>1 DEF PopConn, Goto
    <3>2. Last(conns) = conns[Len(conns)] /\ Len(conns) \in DOMAIN conns
      <4>1. conns \in Seq(Slots) /\ conns # <<>>
        BY <2>1 DEF PopConn, TypeInv, TypeOK
      <4>2. Last(conns) = conns[Len(conns)] /\ Len(conns) \in Nat \ {0}
        BY <4>1, FrontLast
      <4> QED
        BY <4>2, ConnsFacts
    <3> QED
      BY <3>1, <3>2 DEF LoanInv, CleanLoan
  <2>2. CASE MakeConn(t)
    BY <1>1, <2>2 DEF MakeConn, Goto
  <2> QED
    BY <1>1, <1>2, <2>1, <2>2 DEF GetConn, GiveUp, Wait, Goto
<1>3. ASSUME NEW t \in Calls, ContinueMakeConn(t) PROVE slot'[u] \notin in_tx'
  <2>1. CASE Configured(t)
    BY <1>1, <2>1 DEF Configured, Goto, LoanInv, CleanLoan, Making
  <2> QED
    BY <1>1, <1>3, <2>1
       DEF ContinueMakeConn, CallInitialized, InitializedThrows, CallNonFunction,
           InitializedReady, Opened, MakeConnRejects, Abandon, Goto
<1>4. ASSUME NEW t \in Calls, FinishBorrow(t) PROVE slot'[u] \notin in_tx'
  <2>1. CASE StartRollback(t) \/ RollbackFails(t)
    BY <1>1, <2>1 DEF StartRollback, RollbackFails, Abandon, Goto
  <2>2. CASE ReturnConn(t) \/ RolledBack(t)
    <3>1. pc[t] \in Holding /\ HandOver(t) /\ slot[t] \notin in_tx'
      BY <2>2 DEF ReturnConn, RolledBack, Holding
    <3>2. slot'[u] = slot[t]
      BY <3>1, HandOverStep
    <3> QED
      BY <3>1, <3>2
  <2> QED
    BY <1>4, <2>1, <2>2 DEF FinishBorrow
<1>5. ASSUME NEW t \in Calls, Timeout(t) PROVE slot'[u] \notin in_tx'
  BY <1>1, <1>5 DEF Timeout, Goto
<1> QED
  BY <1>2, <1>3, <1>4, <1>5
     DEF Next, BeginTransaction, EndTransaction, SettleEngine, SettleInitialized

(* Every borrower receives its connection outside any transaction.         *)
THEOREM EveryLoanStartsClean == Spec => CleanStart
<1>1. TypeInv /\ LoanInv /\ [Next]_vars =>
        [\A t \in Calls : pc[t] # "using" /\ pc'[t] = "using" => slot'[t] \notin in_tx']_vars
  BY StartsClean
<1>2. Init => TypeInv /\ LoanInv
  BY InitType, InitLoan
<1>3. TypeInv /\ LoanInv /\ [Next]_vars => (TypeInv /\ LoanInv)'
  BY NextType, NextLoan
<1> QED
  BY <1>1, <1>2, <1>3, PTL DEF Spec, CleanStart

LEMMA KeepsOrder ==
  ASSUME TypeInv, LoanInv, Next, NEW t \in Calls, NEW u \in Calls,
         pc[t] \notin Holding, pc'[t] \in Holding,
         u # t, pc[u] = "waiting", pc'[u] = "waiting"
  PROVE  Ahead(t, u)
<1>1. pc \in [Calls -> Steps] /\ slot \in [Calls -> 0..MaxConns]
      /\ conn_count \in 0..MaxConns
  BY DEF TypeInv, TypeOK
<1>2. PICK j \in DOMAIN waiters : waiters[j] = u
  BY DEF LoanInv, Queued
<1>3. waiters # <<>> /\ conns = <<>> /\ conn_count = MaxConns
  BY <1>2, ConnsFacts DEF LoanInv, WaitOnlyWhenFull
<1>4. PICK s \in Calls : GetConn(s) \/ ContinueMakeConn(s) \/ FinishBorrow(s) \/ Timeout(s)
  BY DEF Next, BeginTransaction, EndTransaction, SettleEngine, SettleInitialized
<1>5. CASE GetConn(s)
  BY <1>1, <1>3, <1>5, MaxConnsAssumption
     DEF GetConn, PopConn, MakeConn, GiveUp, Wait, Goto, Holding, Making
<1>6. CASE ContinueMakeConn(s)
  BY <1>1, <1>6
     DEF ContinueMakeConn, CallInitialized, InitializedThrows, CallNonFunction,
         InitializedReady, Opened, Configured, MakeConnRejects, Abandon, Goto,
         Holding, Making
<1>7. CASE FinishBorrow(s)
  <2>1. CASE StartRollback(s) \/ RollbackFails(s)
    BY <1>1, <2>1 DEF StartRollback, RollbackFails, Abandon, Goto, Holding, Making
  <2>2. CASE ReturnConn(s) \/ RolledBack(s)
    <3>1. pc[s] \in Holding /\ HandOver(s)
      BY <2>2 DEF ReturnConn, RolledBack, Holding
    <3>2. pc'[t] # pc[t] /\ pc'[t] # "returned"
      BY DEF Holding, Making
    <3>3. t = Head(waiters)
      BY <3>1, <3>2, HandOverStep
    <3>4. t = waiters[1] /\ Len(waiters) \in Nat \ {0} /\ DOMAIN waiters = 1..Len(waiters)
      BY <1>3, <3>3, HeadTail, ConnsFacts DEF TypeInv, TypeOK
    <3>5. 1 \in DOMAIN waiters /\ 1 < j
      BY <1>2, <3>4
    <3> QED
      BY <1>2, <3>4, <3>5 DEF Ahead
  <2> QED
    BY <1>7, <2>1, <2>2 DEF FinishBorrow
<1>8. CASE Timeout(s)
  BY <1>1, <1>8 DEF Timeout, Goto, Holding, Making
<1> QED
  BY <1>4, <1>5, <1>6, <1>7, <1>8

(* How a step changes #waiters: a new call joins at the end, or the first  *)
(* one leaves, and it stops waiting.                                       *)
LEMMA WaitersStep ==
  ASSUME TypeInv, LoanInv, Next
  PROVE  \/ /\ waiters' = waiters
            /\ \A t \in Calls : pc'[t] = "waiting" => pc[t] = "waiting"
         \/ \E t \in Calls : /\ waiters' = Append(waiters, t)
                             /\ \A u \in Calls \ {t} : pc'[u] = pc[u]
         \/ /\ waiters # <<>> /\ waiters' = Tail(waiters)
            /\ pc'[Head(waiters)] # "waiting"
            /\ \A t \in Calls : pc'[t] = "waiting" => pc[t] = "waiting"
<1>1. pc \in [Calls -> Steps] /\ waiters \in Seq(Calls)
  BY DEF TypeInv, TypeOK
<1>2. ASSUME UNCHANGED waiters, NEW t \in Calls, NEW step, step # "waiting", Goto(t, step)
      PROVE  waiters' = waiters /\ \A u \in Calls : pc'[u] = "waiting" => pc[u] = "waiting"
  BY <1>1, <1>2 DEF Goto
<1>3. CASE \E t \in Calls : GetConn(t)
  <2>1. ASSUME NEW t \in Calls, Wait(t)
        PROVE  waiters' = Append(waiters, t) /\ \A u \in Calls \ {t} : pc'[u] = pc[u]
    BY <1>1, <2>1 DEF Wait, Goto
  <2> QED
    BY <1>2, <1>3, <2>1 DEF GetConn, PopConn, MakeConn, GiveUp
<1>4. CASE \E t \in Calls : ContinueMakeConn(t) \/ Timeout(t)
  BY <1>2, <1>4
     DEF ContinueMakeConn, CallInitialized, InitializedThrows, CallNonFunction,
         InitializedReady, Opened, Configured, MakeConnRejects, Abandon, Timeout
<1>5. CASE \E t \in Calls : FinishBorrow(t)
  <2>1. PICK t \in Calls : FinishBorrow(t)
    BY <1>5
  <2>2. CASE StartRollback(t) \/ RollbackFails(t)
    BY <1>2, <2>2 DEF StartRollback, RollbackFails, Abandon
  <2>3. CASE ReturnConn(t) \/ RolledBack(t)
    <3>1. HandOver(t) /\ pc[t] # "waiting"
      BY <2>3 DEF ReturnConn, RolledBack
    <3>2. CASE waiters = <<>>
      BY <1>2, <3>1, <3>2 DEF HandOver, Abandon
    <3>3. CASE waiters # <<>> /\ pc[Head(waiters)] # "waiting"
      <4>1. Head(waiters) \in Calls /\ waiters' = Tail(waiters)
            /\ pc' = [pc EXCEPT ![t] = "returned"]
        BY <1>1, <3>1, <3>3, HeadTail DEF HandOver, Abandon, Goto
      <4> QED
        BY <1>1, <3>3, <4>1
    <3>4. CASE waiters # <<>> /\ pc[Head(waiters)] = "waiting"
      <4>1. Head(waiters) \in Calls /\ waiters' = Tail(waiters)
            /\ pc' = [pc EXCEPT ![t] = "returned", ![Head(waiters)] = "using"]
        BY <1>1, <3>1, <3>4, HeadTail DEF HandOver
      <4> QED
        BY <1>1, <3>4, <4>1
    <3> QED
      BY <3>2, <3>3, <3>4
  <2> QED
    BY <2>1, <2>2, <2>3 DEF FinishBorrow
<1> QED
  BY <1>3, <1>4, <1>5
     DEF Next, BeginTransaction, EndTransaction, SettleEngine, SettleInitialized

LEMMA JoinsBehind ==
  ASSUME TypeInv, LoanInv, Next, NEW t \in Calls, NEW u \in Calls, u # t,
         pc[u] = "waiting", pc[t] # "waiting", pc'[t] = "waiting"
  PROVE  Ahead(u, t)'
<1>1. PICK i \in DOMAIN waiters : waiters[i] = u
  BY DEF LoanInv, Queued
<1>2. waiters \in Seq(Calls) /\ DOMAIN waiters = 1..Len(waiters)
  BY ConnsFacts DEF TypeInv, TypeOK
<1>3. waiters' = Append(waiters, t)
  BY WaitersStep
<1>4. /\ Len(waiters) \in Nat /\ Len(waiters') = Len(waiters) + 1
      /\ waiters' \in Seq(Calls) /\ waiters'[Len(waiters) + 1] = t
      /\ \A k \in 1..Len(waiters) : waiters'[k] = waiters[k]
  BY <1>2, <1>3, AppendLast
<1>5. DOMAIN waiters' = 1..(Len(waiters) + 1)
  BY <1>4, LenProperties
<1>6. /\ i \in DOMAIN waiters' /\ Len(waiters) + 1 \in DOMAIN waiters'
      /\ i < Len(waiters) + 1 /\ waiters'[i] = u
  BY <1>1, <1>2, <1>4, <1>5
<1> QED
  BY <1>4, <1>6 DEF Ahead

LEMMA StaysAhead ==
  ASSUME TypeInv, LoanInv, Next, NEW t \in Calls, NEW u \in Calls,
         pc[t] = "waiting", pc'[t] = "waiting", Ahead(t, u)
  PROVE  Ahead(t, u)'
<1>1. PICK i, j \in DOMAIN waiters : i < j /\ waiters[i] = t /\ waiters[j] = u
  BY DEF Ahead
<1>2. waiters \in Seq(Calls) /\ Len(waiters) \in Nat /\ DOMAIN waiters = 1..Len(waiters)
  BY ConnsFacts, LenProperties DEF TypeInv, TypeOK
<1>3. CASE waiters' = waiters
  BY <1>1, <1>3 DEF Ahead
<1>4. ASSUME NEW s \in Calls, waiters' = Append(waiters, s) PROVE Ahead(t, u)'
  <2>1. /\ Len(waiters') = Len(waiters) + 1 /\ waiters' \in Seq(Calls)
        /\ \A k \in 1..Len(waiters) : waiters'[k] = waiters[k]
    BY <1>2, <1>4, AppendLast
  <2>2. DOMAIN waiters' = 1..(Len(waiters) + 1)
    BY <2>1, LenProperties
  <2>3. i \in DOMAIN waiters' /\ j \in DOMAIN waiters'
        /\ waiters'[i] = t /\ waiters'[j] = u
    BY <1>1, <1>2, <2>1, <2>2
  <2> QED
    BY <1>1, <2>3 DEF Ahead
<1>5. CASE waiters # <<>> /\ waiters' = Tail(waiters) /\ pc'[Head(waiters)] # "waiting"
  <2>1. /\ Head(waiters) = waiters[1] /\ Len(waiters') = Len(waiters) - 1
        /\ waiters' \in Seq(Calls)
        /\ \A k \in 1..(Len(waiters) - 1) : waiters'[k] = waiters[k + 1]
    BY <1>2, <1>5, HeadTail
  <2>2. DOMAIN waiters' = 1..(Len(waiters) - 1)
    BY <2>1, LenProperties
  <2>3. i # 1
    BY <1>1, <1>5, <2>1
  <2>4. /\ i - 1 \in DOMAIN waiters' /\ j - 1 \in DOMAIN waiters' /\ i - 1 < j - 1
        /\ waiters'[i - 1] = waiters[i] /\ waiters'[j - 1] = waiters[j]
    <3>1. i - 1 \in 1..(Len(waiters) - 1) /\ j - 1 \in 1..(Len(waiters) - 1)
      BY <1>1, <1>2, <2>3
    <3>2. (i - 1) + 1 = i /\ (j - 1) + 1 = j /\ i - 1 < j - 1
      BY <1>1, <1>2
    <3> QED
      BY <2>1, <2>2, <3>1, <3>2
  <2> QED
    BY <1>1, <2>4 DEF Ahead
<1> QED
  BY <1>3, <1>4, <1>5, WaitersStep

(* Calls are served in the order in which they began to wait, and none is  *)
(* served before a call that was already waiting.                          *)
THEOREM ServedInOrder == Spec => NoOvertaking
<1> DEFINE InOrder ==
      \A t, u \in Calls :
        u # t /\ pc[u] = "waiting" /\ pc'[u] = "waiting" =>
        /\ pc[t] \notin Holding /\ pc'[t] \in Holding => Ahead(t, u)
        /\ pc[t] # "waiting" /\ pc'[t] = "waiting" => Ahead(u, t)'
        /\ pc[t] = "waiting" /\ pc'[t] = "waiting" /\ Ahead(t, u) => Ahead(t, u)'
<1>1. TypeInv /\ LoanInv /\ [Next]_vars => [InOrder]_vars
  BY KeepsOrder, JoinsBehind, StaysAhead
<1>2. Init => TypeInv /\ LoanInv
  BY InitType, InitLoan
<1>3. TypeInv /\ LoanInv /\ [Next]_vars => (TypeInv /\ LoanInv)'
  BY NextType, NextLoan
<1> QED
  BY <1>1, <1>2, <1>3, PTL DEF Spec, NoOvertaking

-----------------------------------------------------------------------------
(* The pool implements exclusive lending.                                  *)

Holders == [s \in Slots |-> {t \in Calls : slot[t] = s}]

LEMMA HoldsAlone ==
  ASSUME TypeInv, LoanInv, NEW t \in Calls, pc[t] \in Holding
  PROVE  /\ slot[t] \in Slots
         /\ Holders[slot[t]] = {t}
<1>1. slot[t] \in Slots /\ slot[t] # 0
  BY HolderSlot, MaxConnsAssumption DEF Slots
<1>2. {u \in Calls : slot[u] = slot[t]} = {t}
  BY <1>1 DEF LoanInv, ExclusiveLoan
<1> QED
  BY <1>1, <1>2 DEF Holders

LEMMA HoldsNothing ==
  ASSUME TypeInv, NEW t \in Calls, pc[t] \notin Holding
  PROVE  slot[t] = 0 /\ Loans!EmptyHanded(t)
<1>1. slot[t] = 0 /\ \A s \in Slots : s # 0
  BY MaxConnsAssumption DEF TypeInv, SlotIffHolding, Slots
<1> QED
  BY <1>1 DEF Loans!EmptyHanded

LEMMA HoldersReleased ==
  ASSUME TypeInv, LoanInv, NEW t \in Calls, pc[t] \in Holding,
         slot' = [slot EXCEPT ![t] = 0]
  PROVE  Holders' = [Holders EXCEPT ![slot[t]] = {}]
<1>1. slot \in [Calls -> 0..MaxConns] /\ slot[t] # 0 /\ \A s \in Slots : s # 0
  BY HolderSlot, MaxConnsAssumption DEF TypeInv, TypeOK, Slots
<1>2. \A s \in Slots :
        {u \in Calls : slot'[u] = s}
          = IF s = slot[t] THEN {} ELSE {u \in Calls : slot[u] = s}
  BY <1>1 DEF LoanInv, ExclusiveLoan
<1> QED
  BY <1>2 DEF Holders

LEMMA HoldersTaken ==
  ASSUME TypeInv, NEW t \in Calls, slot[t] = 0, NEW s \in Slots,
         \A u \in Calls : slot[u] # s,
         slot' = [slot EXCEPT ![t] = s]
  PROVE  Holders' = [Holders EXCEPT ![s] = {t}]
<1>1. slot \in [Calls -> 0..MaxConns] /\ \A r \in Slots : r # 0
  BY MaxConnsAssumption DEF TypeInv, TypeOK, Slots
<1>2. \A r \in Slots :
        {u \in Calls : slot'[u] = r}
          = IF r = s THEN {t} ELSE {u \in Calls : slot[u] = r}
  BY <1>1
<1> QED
  BY <1>2 DEF Holders

LEMMA HoldersPassed ==
  ASSUME TypeInv, LoanInv, NEW t \in Calls, pc[t] \in Holding,
         NEW w \in Calls, w # t, slot[w] = 0,
         slot' = [slot EXCEPT ![t] = 0, ![w] = slot[t]]
  PROVE  Holders' = [Holders EXCEPT ![slot[t]] = {w}]
<1>1. slot \in [Calls -> 0..MaxConns] /\ slot[t] # 0 /\ \A s \in Slots : s # 0
  BY HolderSlot, MaxConnsAssumption DEF TypeInv, TypeOK, Slots
<1>2. \A s \in Slots :
        {u \in Calls : slot'[u] = s}
          = IF s = slot[t] THEN {w} ELSE {u \in Calls : slot[u] = s}
  BY <1>1 DEF LoanInv, ExclusiveLoan
<1> QED
  BY <1>2 DEF Holders

(* A call that drops its connection: the resource is lost.                 *)
LEMMA DropLoses ==
  ASSUME TypeInv, LoanInv, NEW t \in Calls, pc[t] \in Holding, NEW outcome,
         Abandon(t, outcome), UNCHANGED <<conn_count, conns>>
  PROVE  Loans!Next
<1>1. PICK c \in Slots : c = slot[t] /\ Holders[c] = {t}
  BY HoldsAlone
<1>2. Holders' = [Holders EXCEPT ![c] = {}]
  BY <1>1, HoldersReleased DEF Abandon
<1>3. (Range(conns))' = Range(conns) /\ (1..conn_count)' = 1..conn_count
  OBVIOUS
<1>4. Loans!Lose(c, t)
  BY <1>1, <1>2, <1>3 DEF Loans!Lose, Holders
<1> QED
  BY <1>4 DEF Loans!Next

LEMMA PopTakes ==
  ASSUME TypeInv, LoanInv, NEW t \in Calls, PopConn(t)
  PROVE  Loans!Next
<1> DEFINE n == Len(conns)
<1>0. PICK s \in Slots : s = conns[n]
  <2>1. conns \in Seq(Slots) /\ conns # <<>>
    BY DEF PopConn, TypeInv, TypeOK
  <2> QED
    BY <2>1, FrontLast
<1>1. /\ n \in Nat \ {0} /\ DOMAIN conns = 1..n /\ n \in DOMAIN conns
      /\ DOMAIN conns' = 1..(n-1)
      /\ \A i \in 1..(n-1) : conns'[i] = conns[i]
      /\ slot' = [slot EXCEPT ![t] = s]
  <2>1. conns \in Seq(Slots) /\ conns # <<>> /\ conns' = Front(conns)
        /\ slot' = [slot EXCEPT ![t] = Last(conns)]
    BY DEF PopConn, TypeInv, TypeOK
  <2>2. /\ n \in Nat \ {0} /\ Last(conns) = s
        /\ Len(conns') = n-1 /\ conns' \in Seq(Slots)
        /\ \A i \in 1..(n-1) : conns'[i] = conns[i]
    BY <1>0, <2>1, FrontLast
  <2>3. DOMAIN conns' = 1..(n-1)
    BY <2>2, LenProperties
  <2> QED
    BY <2>1, <2>2, <2>3, ConnsFacts
<1>2. s \in Slots /\ s # 0 /\ s \in Range(conns)
  BY <1>0, <1>1, ConnsFacts DEF Range
<1> HIDE DEF n
<1>3. Range(conns)' = Range(conns) \ {s}
  <2>1. \A i \in DOMAIN conns : i = n \/ i \in DOMAIN conns'
    BY <1>1
  <2>2. \A i \in DOMAIN conns' : i \in DOMAIN conns /\ i # n /\ conns'[i] = conns[i]
    BY <1>1
  <2>3. \A i \in DOMAIN conns' : conns'[i] # s
    BY <1>0, <1>1, <2>2 DEF LoanInv, ExclusiveLoan, IsInjective
  <2> QED
    BY <1>0, <2>1, <2>2, <2>3 DEF Range
<1>4. slot[t] = 0 /\ Loans!EmptyHanded(t)
  BY HoldsNothing DEF PopConn, Holding, Making
<1>5. \A u \in Calls : slot[u] # s
  BY <1>0, <1>1 DEF LoanInv, ExclusiveLoan
<1>6. Holders' = [Holders EXCEPT ![s] = {t}]
  BY <1>1, <1>2, <1>4, <1>5, HoldersTaken
<1>7. Loans!Take(s, t)
  BY <1>2, <1>3, <1>4, <1>6 DEF PopConn, Loans!Take, Holders
<1> QED
  BY <1>7 DEF Loans!Next

LEMMA MakeMakes ==
  ASSUME TypeInv, LoanInv, NEW t \in Calls, MakeConn(t)
  PROVE  Loans!Next
<1>0. PICK s \in Slots : s = conn_count + 1
  BY MaxConnsAssumption DEF MakeConn, TypeInv, TypeOK, Slots
<1>1. /\ conn_count \in Nat /\ s \in Slots /\ s \notin 1..conn_count
      /\ 1..s = 1..conn_count \cup {s}
  BY <1>0, MaxConnsAssumption DEF TypeInv, TypeOK, Slots
<1>2. \A u \in Calls : slot[u] # s
  <2>1. \A u \in Calls : slot[u] \in Nat /\ slot[u] <= conn_count
    BY MaxConnsAssumption DEF TypeInv, TypeOK, LoanInv, Counted
  <2> QED
    BY <1>0, <1>1, <2>1
<1>3. slot[t] = 0 /\ Loans!EmptyHanded(t)
  BY HoldsNothing DEF MakeConn, Holding, Making
<1>4. /\ conn_count' = s /\ slot' = [slot EXCEPT ![t] = s] /\ conns' = conns
  BY <1>0 DEF MakeConn
<1>5. Holders' = [Holders EXCEPT ![s] = {t}]
  BY <1>1, <1>2, <1>3, <1>4, HoldersTaken
<1>6. Loans!Make(s, t)
  BY <1>1, <1>3, <1>4, <1>5 DEF Loans!Make, Holders
<1> QED
  BY <1>6 DEF Loans!Next

LEMMA HandOverLends ==
  ASSUME TypeInv, LoanInv, NEW t \in Calls, pc[t] \in Holding, HandOver(t),
         UNCHANGED conn_count
  PROVE  Loans!Next
<1>1. PICK c \in Slots : c = slot[t] /\ Holders[c] = {t}
  BY HoldsAlone
<1>2. CASE waiters = <<>>
  <2>1. conns' = Append(conns, c) /\ slot' = [slot EXCEPT ![t] = 0]
    BY <1>1, <1>2 DEF HandOver, Abandon
  <2>2. Range(conns)' = Range(conns) \cup {c}
    <3>1. /\ conns \in Seq(Slots) /\ Len(conns) \in Nat
          /\ DOMAIN conns = 1..Len(conns)
      BY ConnsFacts DEF TypeInv, TypeOK
    <3>2. /\ conns' \in Seq(Slots) /\ Len(conns') = Len(conns) + 1
          /\ \A i \in 1..Len(conns) : conns'[i] = conns[i]
          /\ conns'[Len(conns)+1] = c
      BY <1>1, <2>1, <3>1, AppendLast
    <3>3. DOMAIN conns' = 1..(Len(conns)+1)
      BY <3>2, LenProperties
    <3>4. DOMAIN conns' = DOMAIN conns \cup {Len(conns)+1}
      BY <3>1, <3>3
    <3>5. \A i \in DOMAIN conns : conns'[i] = conns[i]
      BY <3>1, <3>2
    <3> QED
      BY <3>2, <3>4, <3>5 DEF Range
  <2>3. Holders' = [Holders EXCEPT ![c] = {}]
    BY <1>1, <2>1, HoldersReleased
  <2>4. Loans!GiveBack(c, t)
    BY <1>1, <2>2, <2>3 DEF Loans!GiveBack, Holders
  <2> QED
    BY <2>4 DEF Loans!Next
<1>3. CASE waiters # <<>> /\ pc[Head(waiters)] # "waiting"
  BY <1>3, DropLoses DEF HandOver
<1>4. CASE waiters # <<>> /\ pc[Head(waiters)] = "waiting"
  <2>0. PICK w \in Calls : w = Head(waiters)
    BY <1>4, HeadTail DEF TypeInv, TypeOK
  <2>1. w # t
    BY <1>4, <2>0 DEF TypeInv, TypeOK, Holding, Making
  <2>2. slot[w] = 0 /\ Loans!EmptyHanded(w)
    BY <1>4, <2>0, HoldsNothing DEF Holding, Making
  <2>3. conns' = conns /\ slot' = [slot EXCEPT ![t] = 0, ![w] = slot[t]]
    BY <1>4, <2>0 DEF HandOver
  <2>4. Holders' = [Holders EXCEPT ![c] = {w}]
    BY <1>1, <2>1, <2>2, <2>3, HoldersPassed
  <2>5. Loans!PassOn(c, t, w)
    BY <1>1, <2>2, <2>3, <2>4 DEF Loans!PassOn, Holders
  <2> QED
    BY <2>5 DEF Loans!Next
<1> QED
  BY <1>2, <1>3, <1>4

LEMMA StepLends ==
  ASSUME TypeInv, LoanInv, [Next]_vars
  PROVE  [Loans!Next]_(Loans!vars)
<1>1. ASSUME UNCHANGED <<conn_count, conns, slot>> PROVE UNCHANGED Loans!vars
  BY <1>1 DEF Loans!vars
<1>2. CASE UNCHANGED vars
  BY <1>1, <1>2 DEF vars
<1>3. ASSUME NEW t \in Calls, GetConn(t) PROVE [Loans!Next]_(Loans!vars)
  BY <1>1, <1>3, PopTakes, MakeMakes DEF GetConn, GiveUp, Wait
<1>4. ASSUME NEW t \in Calls, ContinueMakeConn(t) PROVE [Loans!Next]_(Loans!vars)
  <2>1. CASE InitializedThrows(t) \/ CallNonFunction(t) \/ MakeConnRejects(t)
    <3>1. pc[t] \in Holding
      BY <2>1 DEF InitializedThrows, CallNonFunction, MakeConnRejects, Holding, Making
    <3> QED
      BY <2>1, <3>1, DropLoses DEF InitializedThrows, CallNonFunction, MakeConnRejects
  <2> QED
    BY <1>1, <1>4, <2>1
       DEF ContinueMakeConn, CallInitialized, InitializedReady, Opened, Configured
<1>5. ASSUME NEW t \in Calls, FinishBorrow(t) PROVE [Loans!Next]_(Loans!vars)
  <2>1. CASE ReturnConn(t) \/ RolledBack(t)
    BY <2>1, HandOverLends DEF ReturnConn, RolledBack, Holding
  <2>2. CASE RollbackFails(t)
    BY <2>2, DropLoses DEF RollbackFails, Holding
  <2>3. CASE StartRollback(t)
    BY <1>1, <2>3 DEF StartRollback
  <2> QED
    BY <1>5, <2>1, <2>2, <2>3 DEF FinishBorrow
<1>6. ASSUME NEW t \in Calls, Timeout(t) \/ BeginTransaction(t) \/ EndTransaction(t)
      PROVE  [Loans!Next]_(Loans!vars)
  BY <1>1, <1>6 DEF Timeout, BeginTransaction, EndTransaction
<1>7. CASE SettleEngine \/ SettleInitialized
  BY <1>1, <1>7 DEF SettleEngine, SettleInitialized
<1> QED
  BY <1>2, <1>3, <1>4, <1>5, <1>6, <1>7 DEF Next

(* Whatever happens, the pool lends, passes on, takes back or loses        *)
(* connections one at a time, and never makes more than max_conns.         *)
THEOREM PoolImplementsLending == Spec => PoolLends
<1>1. Init => Loans!Init
  <2> SUFFICES ASSUME Init PROVE Loans!Init
    OBVIOUS
  <2>1. 1..conn_count = {} /\ Range(conns) = {}
    BY DEF Init, Range
  <2>2. \A s \in Slots : {t \in Calls : slot[t] = s} = {}
    BY MaxConnsAssumption DEF Init, Slots
  <2> QED
    BY <2>1, <2>2 DEF Loans!Init
<1>2. TypeInv /\ LoanInv /\ [Next]_vars => [Loans!Next]_(Loans!vars)
  BY StepLends
<1>3. Init => TypeInv /\ LoanInv
  BY InitType, InitLoan
<1>4. TypeInv /\ LoanInv /\ [Next]_vars => (TypeInv /\ LoanInv)'
  BY NextType, NextLoan
<1> QED
  BY <1>1, <1>2, <1>3, <1>4, PTL DEF Spec, PoolLends, Loans!Spec

-----------------------------------------------------------------------------
(* options.initialized.                                                    *)

LEMMA NextInitialized ==
  TypeInv /\ InitializedFirst /\ [Next]_vars => InitializedFirst'
<1> SUFFICES ASSUME TypeInv, InitializedFirst, [Next]_vars PROVE InitializedFirst'
  OBVIOUS
<1> DEFINE Before(t) == slot[t] = 0 \/ pc[t] \in {"await_engine", "await_initialized"}
<1>1. pc \in [Calls -> Steps] /\ slot \in [Calls -> 0..MaxConns]
      /\ \A t \in Calls : slot[t] # 0 <=> pc[t] \in Holding
  BY DEF TypeInv, TypeOK, SlotIffHolding
<1>2. options.initialized = "fulfilled" => options'.initialized = "fulfilled"
  BY DEF Next, vars, GetConn, ContinueMakeConn, FinishBorrow, Timeout,
         BeginTransaction, EndTransaction, SettleEngine, SettleInitialized,
         PopConn, MakeConn, GiveUp, Wait, CallInitialized, InitializedThrows,
         CallNonFunction, InitializedReady, Opened, Configured, MakeConnRejects,
         ReturnConn, StartRollback, RolledBack, RollbackFails
<1> SUFFICES ASSUME options.initialized # "fulfilled"
             PROVE  conns' = <<>> /\ \A t \in Calls : Before(t)'
  BY <1>2 DEF InitializedFirst
<1>3. conns = <<>> /\ \A t \in Calls : Before(t)
  BY DEF InitializedFirst
<1>4. \A t \in Calls : pc[t] \notin {"opening", "configuring", "using", "rolling_back"}
  BY <1>1, <1>3 DEF Holding, Making
<1>5. ASSUME UNCHANGED <<conns, slot>>, NEW t \in Calls, NEW step, Goto(t, step),
             slot[t] = 0 \/ step = "await_initialized"
      PROVE  conns' = <<>> /\ \A u \in Calls : Before(u)'
  BY <1>1, <1>3, <1>5 DEF Goto
<1>6. ASSUME UNCHANGED conns, NEW t \in Calls, NEW outcome, Abandon(t, outcome)
      PROVE  conns' = <<>> /\ \A u \in Calls : Before(u)'
  BY <1>1, <1>3, <1>6 DEF Abandon, Goto
<1>7. ASSUME NEW t \in Calls, GetConn(t)
      PROVE  conns' = <<>> /\ \A u \in Calls : Before(u)'
  <2>1. CASE MakeConn(t)
    BY <1>1, <1>3, <2>1 DEF MakeConn, Goto
  <2>2. CASE GiveUp(t) \/ Wait(t)
    BY <1>1, <1>5, <2>2 DEF GiveUp, Wait, Holding, Making
  <2> QED
    BY <1>3, <1>7, <2>1, <2>2 DEF GetConn, PopConn
<1>8. ASSUME NEW t \in Calls, ContinueMakeConn(t)
      PROVE  conns' = <<>> /\ \A u \in Calls : Before(u)'
  <2>1. CASE CallInitialized(t)
    BY <1>5, <2>1 DEF CallInitialized
  <2>2. CASE InitializedThrows(t) \/ CallNonFunction(t) \/ MakeConnRejects(t)
    BY <1>6, <2>2 DEF InitializedThrows, CallNonFunction, MakeConnRejects
  <2> QED
    BY <1>4, <1>8, <2>1, <2>2 DEF ContinueMakeConn, InitializedReady, Opened, Configured
<1>9. ASSUME NEW t \in Calls, Timeout(t)
      PROVE  conns' = <<>> /\ \A u \in Calls : Before(u)'
  BY <1>1, <1>5, <1>9 DEF Timeout, Holding, Making
<1>10. CASE UNCHANGED <<conns, slot, pc>>
  BY <1>3, <1>10
<1> QED
  BY <1>4, <1>7, <1>8, <1>9, <1>10
     DEF Next, vars, FinishBorrow, ReturnConn, StartRollback, RolledBack, RollbackFails,
         BeginTransaction, EndTransaction, SettleEngine, SettleInitialized

(* pool.js:11: no connection is opened, used or idle before what           *)
(* options.initialized stands for has been done, and it is not done again. *)
THEOREM InitializedBeforeUse == Spec => []InitializedFirst
<1>1. Init => TypeInv /\ InitializedFirst
  BY InitType DEF Init, InitializedFirst
<1>2. TypeInv /\ InitializedFirst /\ [Next]_vars => (TypeInv /\ InitializedFirst)'
  BY NextType, NextInitialized
<1> QED
  BY <1>1, <1>2, PTL DEF Spec

-----------------------------------------------------------------------------
(* The ledger.  Each step keeps the stranded connections and the calls     *)
(* that have cost one, or adds one to both.                                *)

InQueue(t) == \E i \in DOMAIN waiters : waiters[i] = t
Backed(c) == (\E i \in DOMAIN conns : conns[i] = c) \/ (\E t \in Calls : slot[t] = c)
CostlyCall(t) ==
  \/ pc[t] \in {"type_error", "env_error"}
  \/ pc[t] = "no_conn" /\ options.max_delay > 0 /\ ~InQueue(t)

LEMMA StrandedIs ==
  /\ DOMAIN slot = Calls => Stranded = {c \in 1..conn_count : ~Backed(c)}
  /\ (DOMAIN slot = Calls)' => Stranded' = {c \in 1..conn_count' : ~Backed(c)'}
  BY DEF Stranded, Backed, Range

LEMMA CostlyIs ==
  /\ Costly = {t \in Calls : CostlyCall(t)}
  /\ Costly' = {t \in Calls : CostlyCall(t)'}
  BY DEF Costly, CostlyCall, InQueue, Range

LEMMA LedgerKept ==
  ASSUME LedgerInv, QueuedOnce', Stranded' = Stranded, Costly' = Costly
  PROVE  LedgerInv'
  BY DEF LedgerInv, CapacityLedger

LEMMA LedgerLoses ==
  ASSUME LedgerInv, TypeInv, QueuedOnce', NEW c, NEW t, c \notin Stranded, t \notin Costly,
         Stranded' = Stranded \cup {c}, Costly' = Costly \cup {t}
  PROVE  LedgerInv'
<1>1. IsFiniteSet(Stranded)
  <2>1. conn_count \in Int /\ 1 \in Int
    BY MaxConnsAssumption DEF TypeInv, TypeOK
  <2>2. IsFiniteSet(1..conn_count)
    BY <2>1, FS_Interval
  <2> QED
    BY <2>2, FS_Subset DEF Stranded
<1>2. Cardinality(Stranded') = Cardinality(Stranded) + 1
  BY <1>1, FS_AddElement
<1>3. IsFiniteSet(Costly') /\ Cardinality(Costly') = Cardinality(Costly) + 1
  BY FS_AddElement DEF LedgerInv
<1> QED
  BY <1>2, <1>3 DEF LedgerInv, CapacityLedger

(* The facts about a state that the steps start from.                      *)
LEMMA LedgerFacts ==
  ASSUME TypeInv, LoanInv, LedgerInv
  PROVE  /\ pc \in [Calls -> Steps] /\ slot \in [Calls -> 0..MaxConns]
         /\ conn_count \in Nat
         /\ options.max_delay \in Int
         /\ \A t \in Calls : slot[t] # 0 <=> pc[t] \in Holding
         /\ \A t \in Calls : InQueue(t) =>
              pc[t] = "waiting" \/ (pc[t] = "no_conn" /\ options.max_delay > 0)
         /\ \A t \in Calls : pc[t] = "waiting" => InQueue(t)
<1>1. /\ pc \in [Calls -> Steps] /\ slot \in [Calls -> 0..MaxConns]
      /\ conn_count \in Nat
      /\ options.max_delay \in Int
      /\ \A t \in Calls : slot[t] # 0 <=> pc[t] \in Holding
  <2>1. options.max_delay \in MaxDelays
    BY DEF TypeInv, TypeOK
  <2>2. options.max_delay \in Int
    BY <2>1, MaxDelaysAssumption
  <2>3. conn_count \in Nat
    BY MaxConnsAssumption DEF TypeInv, TypeOK
  <2> QED
    BY <2>2, <2>3 DEF TypeInv, TypeOK, SlotIffHolding
<1>2. QueuedOnce /\ Queued
  BY DEF LedgerInv, LoanInv
<1>3. ASSUME NEW t \in Calls, InQueue(t)
      PROVE  pc[t] = "waiting" \/ (pc[t] = "no_conn" /\ options.max_delay > 0)
  BY <1>2, <1>3 DEF InQueue, QueuedOnce
<1>4. \A t \in Calls : pc[t] = "waiting" => InQueue(t)
  BY <1>2 DEF InQueue, Queued
<1> QED
  BY <1>1, <1>3, <1>4

(* A call that moves on and neither takes nor drops a connection.          *)
LEMMA LedgerMoveOn ==
  ASSUME TypeInv, LoanInv, LedgerInv, NEW t \in Calls, NEW step, Goto(t, step),
         UNCHANGED <<conn_count, conns, waiters, slot>>,
         options'.max_delay = options.max_delay,
         pc[t] \notin {"type_error", "env_error", "no_conn"},
         step \notin {"type_error", "env_error"},
         step = "no_conn" => ~(options.max_delay > 0) \/ pc[t] = "waiting",
         pc[t] = "waiting" => step = "no_conn" /\ options.max_delay > 0
  PROVE  LedgerInv'
<1>1. pc' = [pc EXCEPT ![t] = step] /\ pc \in [Calls -> Steps]
  BY LedgerFacts DEF Goto
<1>2. \A u \in Calls : InQueue(u)' <=> InQueue(u)
  BY DEF InQueue
<1>3. Stranded' = Stranded
  BY DEF Stranded
<1>4. \A u \in Calls : CostlyCall(u)' <=> CostlyCall(u)
  BY <1>1, <1>2, LedgerFacts DEF CostlyCall
<1>5. Costly' = Costly
  BY <1>4, CostlyIs
<1>6. QueuedOnce'
  <2>1. QueuedOnce
    BY DEF LedgerInv
  <2>2. IsInjective(waiters)'
    BY <2>1 DEF QueuedOnce
  <2>3. ASSUME NEW i \in DOMAIN waiters
        PROVE  pc'[waiters[i]] = "waiting" \/
               (pc'[waiters[i]] = "no_conn" /\ options.max_delay > 0)
    <3>1. waiters[i] \in Calls
      BY ElementOfSeq, ConnsFacts DEF TypeInv, TypeOK
    <3>2. pc[waiters[i]] = "waiting" \/
          (pc[waiters[i]] = "no_conn" /\ options.max_delay > 0)
      BY <2>1 DEF QueuedOnce
    <3> QED
      BY <1>1, <3>1, <3>2
  <2> QED
    BY <2>2, <2>3 DEF QueuedOnce
<1> QED
  BY <1>3, <1>5, <1>6, LedgerKept

(* A call that throws takes its connection with it.                        *)
LEMMA LedgerDrop ==
  ASSUME TypeInv, LoanInv, LedgerInv, NEW t \in Calls, pc[t] \in Holding,
         NEW outcome \in {"type_error", "env_error"}, Abandon(t, outcome),
         UNCHANGED <<conn_count, conns, waiters, options>>
  PROVE  LedgerInv'
<1>1. /\ pc' = [pc EXCEPT ![t] = outcome] /\ pc \in [Calls -> Steps]
      /\ slot' = [slot EXCEPT ![t] = 0] /\ slot \in [Calls -> 0..MaxConns]
  BY LedgerFacts DEF Abandon, Goto
<1>2. slot[t] # 0 /\ slot[t] \in 1..conn_count
  <2>1. slot[t] # 0 /\ slot[t] \in Nat /\ conn_count \in Nat
    BY LedgerFacts, MaxConnsAssumption
  <2>2. slot[t] <= conn_count
    BY DEF LoanInv, Counted
  <2> QED
    BY <2>1, <2>2
<1>3. \A c \in 1..conn_count : ~Backed(c)' <=> ~Backed(c) \/ c = slot[t]
  BY <1>1, <1>2 DEF Backed, LoanInv, ExclusiveLoan
<1>4. Stranded' = Stranded \cup {slot[t]} /\ slot[t] \notin Stranded
  <2>1. Backed(slot[t])
    BY DEF Backed
  <2>2. DOMAIN slot = Calls /\ DOMAIN slot' = Calls
    BY <1>1
  <2> QED
    BY <1>2, <1>3, <2>1, <2>2, StrandedIs
<1>5. \A u \in Calls : InQueue(u)' <=> InQueue(u)
  BY DEF InQueue
<1>6. ~InQueue(t)
  BY LedgerFacts DEF Holding, Making
<1>7. \A u \in Calls : CostlyCall(u)' <=> CostlyCall(u) \/ u = t
  BY <1>1, <1>5 DEF CostlyCall
<1>8. ~CostlyCall(t)
  BY DEF CostlyCall, Holding, Making
<1>9. Costly' = Costly \cup {t} /\ t \notin Costly
  BY <1>7, <1>8, CostlyIs
<1>10. QueuedOnce'
  <2>1. ASSUME NEW i \in DOMAIN waiters PROVE waiters[i] \in Calls /\ waiters[i] # t
    BY <1>6, ElementOfSeq, ConnsFacts DEF TypeInv, TypeOK, InQueue
  <2> QED
    BY <1>1, <2>1 DEF QueuedOnce, LedgerInv
<1> QED
  BY <1>4, <1>9, <1>10, LedgerLoses

(* get_conn.                                                               *)
LEMMA LedgerPop ==
  ASSUME TypeInv, LoanInv, LedgerInv, NEW t \in Calls, PopConn(t)
  PROVE  LedgerInv'
<1>1. /\ pc' = [pc EXCEPT ![t] = "using"] /\ pc[t] = "idle"
      /\ slot' = [slot EXCEPT ![t] = Last(conns)] /\ slot[t] = 0
      /\ pc \in [Calls -> Steps] /\ slot \in [Calls -> 0..MaxConns]
  BY LedgerFacts DEF PopConn, Goto, Holding, Making
<1>2. UNCHANGED <<conn_count, waiters, options>>
  BY DEF PopConn
<1>3. /\ conns' = Front(conns) /\ Len(conns) \in Nat \ {0}
      /\ conns' \in Seq(Slots) /\ Len(conns') = Len(conns) - 1
      /\ \A i \in 1..Len(conns)-1 : conns'[i] = conns[i]
      /\ Last(conns) = conns[Len(conns)]
  BY FrontLast DEF PopConn, TypeInv, TypeOK
<1>4. DOMAIN conns = 1..Len(conns) /\ DOMAIN conns' = 1..(Len(conns) - 1)
  BY <1>3, ConnsFacts, LenProperties
<1>5. ASSUME NEW c, c # 0 PROVE Backed(c)' <=> Backed(c)
  <2>1. (\E i \in DOMAIN conns : conns[i] = c) <=>
        (\E i \in DOMAIN conns' : conns'[i] = c) \/ c = Last(conns)
    <3>1. DOMAIN conns = DOMAIN conns' \cup {Len(conns)}
      BY <1>3, <1>4
    <3>2. \A i \in DOMAIN conns' : conns'[i] = conns[i]
      BY <1>3, <1>4
    <3> QED
      BY <1>3, <3>1, <3>2
  <2>2. (\E u \in Calls : slot'[u] = c) <=> (\E u \in Calls : slot[u] = c) \/ c = Last(conns)
    BY <1>1, <1>5
  <2> QED
    BY <2>1, <2>2 DEF Backed
<1>6. Stranded' = Stranded
  <2>1. \A c \in 1..conn_count : c # 0
    BY LedgerFacts
  <2>2. DOMAIN slot = Calls /\ DOMAIN slot' = Calls
    BY <1>1
  <2> QED
    BY <1>2, <1>5, <2>1, <2>2, StrandedIs
<1>7. \A u \in Calls : InQueue(u)' <=> InQueue(u)
  BY <1>2 DEF InQueue
<1>8. \A u \in Calls : CostlyCall(u)' <=> CostlyCall(u)
  BY <1>1, <1>2, <1>7 DEF CostlyCall
<1>9. Costly' = Costly
  BY <1>8, CostlyIs
<1>10. QueuedOnce'
  <2>1. ASSUME NEW i \in DOMAIN waiters PROVE waiters[i] \in Calls /\ waiters[i] # t
    BY <1>1, LedgerFacts, ElementOfSeq, ConnsFacts DEF TypeInv, TypeOK, InQueue
  <2> QED
    BY <1>1, <1>2, <2>1 DEF QueuedOnce, LedgerInv
<1> QED
  BY <1>6, <1>9, <1>10, LedgerKept

LEMMA LedgerMake ==
  ASSUME TypeInv, LoanInv, LedgerInv, NEW t \in Calls, MakeConn(t)
  PROVE  LedgerInv'
<1> DEFINE n == conn_count + 1
<1>1. PICK step \in Making : pc' = [pc EXCEPT ![t] = step]
  BY DEF MakeConn, Goto, Making
<1>2. /\ pc[t] = "idle" /\ slot' = [slot EXCEPT ![t] = n] /\ slot[t] = 0
      /\ pc \in [Calls -> Steps] /\ slot \in [Calls -> 0..MaxConns]
      /\ conn_count \in Nat /\ conn_count' = n
      /\ UNCHANGED <<conns, waiters, options>>
  BY LedgerFacts DEF MakeConn, Holding, Making
<1>3. \A c : c # 0 => (Backed(c)' <=> Backed(c) \/ c = n)
  BY <1>2 DEF Backed
<1>4. Stranded' = Stranded
  <2>1. 1..n = 1..conn_count \cup {n} /\ n \notin 1..conn_count /\ n # 0
    BY <1>2
  <2>2. \A c \in 1..conn_count : c # 0
    BY <1>2
  <2>3. DOMAIN slot = Calls /\ DOMAIN slot' = Calls
    BY <1>2
  <2> HIDE DEF n
  <2> QED
    BY <1>2, <1>3, <2>1, <2>2, <2>3, StrandedIs
<1>5. \A u \in Calls : InQueue(u)' <=> InQueue(u)
  BY <1>2 DEF InQueue
<1>6. \A u \in Calls : CostlyCall(u)' <=> CostlyCall(u)
  BY <1>1, <1>2, <1>5 DEF CostlyCall, Making
<1>7. Costly' = Costly
  BY <1>6, CostlyIs
<1>8. QueuedOnce'
  <2>1. ASSUME NEW i \in DOMAIN waiters PROVE waiters[i] \in Calls /\ waiters[i] # t
    BY <1>2, LedgerFacts, ElementOfSeq, ConnsFacts DEF TypeInv, TypeOK, InQueue
  <2> QED
    BY <1>1, <1>2, <2>1 DEF QueuedOnce, LedgerInv
<1> QED
  BY <1>4, <1>7, <1>8, LedgerKept

LEMMA LedgerWait ==
  ASSUME TypeInv, LoanInv, LedgerInv, NEW t \in Calls, Wait(t)
  PROVE  LedgerInv'
<1>1. /\ pc' = [pc EXCEPT ![t] = "waiting"] /\ pc[t] = "idle" /\ pc \in [Calls -> Steps]
      /\ waiters' = Append(waiters, t) /\ UNCHANGED <<conn_count, conns, slot, options>>
  BY LedgerFacts DEF Wait, Goto
<1>2. /\ Len(waiters) \in Nat /\ Len(waiters') = Len(waiters) + 1
      /\ waiters' \in Seq(Calls) /\ waiters'[Len(waiters) + 1] = t
      /\ \A i \in 1..Len(waiters) : waiters'[i] = waiters[i]
  BY <1>1, AppendLast DEF TypeInv, TypeOK
<1>3. DOMAIN waiters = 1..Len(waiters) /\ DOMAIN waiters' = 1..Len(waiters) + 1
  BY <1>2, ConnsFacts, LenProperties
<1>4. /\ DOMAIN waiters' = DOMAIN waiters \cup {Len(waiters) + 1}
      /\ \A i \in DOMAIN waiters : waiters'[i] = waiters[i]
  BY <1>2, <1>3
<1>5. \A u \in Calls : InQueue(u)' <=> InQueue(u) \/ u = t
  BY <1>2, <1>4 DEF InQueue
<1>6. ~InQueue(t)
  BY <1>1, LedgerFacts
<1>7. \A u \in Calls : CostlyCall(u)' <=> CostlyCall(u)
  BY <1>1, <1>5 DEF CostlyCall
<1>8. Costly' = Costly
  BY <1>7, CostlyIs
<1>9. Stranded' = Stranded
  BY <1>1 DEF Stranded
<1>10. QueuedOnce'
  <2>1. ASSUME NEW i \in DOMAIN waiters PROVE waiters[i] \in Calls /\ waiters[i] # t
    BY <1>6, ElementOfSeq, ConnsFacts DEF TypeInv, TypeOK, InQueue
  <2>2. IsInjective(waiters)'
    BY <1>2, <1>4, <2>1 DEF QueuedOnce, LedgerInv, IsInjective
  <2>3. ASSUME NEW i \in DOMAIN waiters'
        PROVE  pc'[waiters'[i]] = "waiting" \/
               (pc'[waiters'[i]] = "no_conn" /\ options.max_delay > 0)
    BY <1>1, <1>2, <1>4, <2>1 DEF QueuedOnce, LedgerInv
  <2> QED
    BY <1>1, <2>2, <2>3 DEF QueuedOnce
<1> QED
  BY <1>8, <1>9, <1>10, LedgerKept

(* return_conn.                                                            *)
LEMMA LedgerPutBack ==
  ASSUME TypeInv, LoanInv, LedgerInv, NEW t \in Calls, pc[t] \in Holding, HandOver(t),
         waiters = <<>>, UNCHANGED <<conn_count, options>>
  PROVE  LedgerInv'
<1>1. /\ conns' = Append(conns, slot[t]) /\ waiters' = waiters
      /\ pc' = [pc EXCEPT ![t] = "returned"] /\ pc \in [Calls -> Steps]
      /\ slot' = [slot EXCEPT ![t] = 0] /\ slot \in [Calls -> 0..MaxConns]
  BY LedgerFacts DEF HandOver, Abandon, Goto
<1>2. slot[t] \in Slots
  BY HolderSlot
<1>3. /\ Len(conns) \in Nat /\ conns' \in Seq(Slots) /\ Len(conns') = Len(conns) + 1
      /\ \A i \in 1..Len(conns) : conns'[i] = conns[i]
      /\ conns'[Len(conns) + 1] = slot[t]
  BY <1>1, <1>2, AppendLast DEF TypeInv, TypeOK
<1>4. /\ DOMAIN conns' = DOMAIN conns \cup {Len(conns) + 1}
      /\ \A i \in DOMAIN conns : conns'[i] = conns[i]
  <2>1. DOMAIN conns = 1..Len(conns) /\ DOMAIN conns' = 1..(Len(conns) + 1)
    BY <1>3, ConnsFacts, LenProperties
  <2> QED
    BY <1>3, <2>1
<1>5. ASSUME NEW c, c # 0 PROVE Backed(c)' <=> Backed(c)
  <2>1. (\E i \in DOMAIN conns' : conns'[i] = c) <=>
        (\E i \in DOMAIN conns : conns[i] = c) \/ c = slot[t]
    BY <1>3, <1>4
  <2>2. (\E u \in Calls : slot[u] = c) <=> (\E u \in Calls : slot'[u] = c) \/ c = slot[t]
    BY <1>1, <1>5
  <2> QED
    BY <2>1, <2>2 DEF Backed
<1>6. Stranded' = Stranded
  <2>1. \A c \in 1..conn_count : c # 0
    BY LedgerFacts
  <2>2. DOMAIN slot = Calls /\ DOMAIN slot' = Calls
    BY <1>1
  <2> QED
    BY <1>5, <2>1, <2>2, StrandedIs
<1>7. \A u \in Calls : InQueue(u)' <=> InQueue(u)
  BY <1>1 DEF InQueue
<1>8. \A u \in Calls : CostlyCall(u)' <=> CostlyCall(u)
  BY <1>1, <1>7 DEF CostlyCall, Holding, Making
<1>9. Costly' = Costly
  BY <1>8, CostlyIs
<1>10. QueuedOnce'
  BY <1>1 DEF QueuedOnce, LedgerInv, IsInjective
<1> QED
  BY <1>6, <1>9, <1>10, LedgerKept

LEMMA LedgerGive ==
  ASSUME TypeInv, LoanInv, LedgerInv, NEW t \in Calls, pc[t] \in Holding, HandOver(t),
         waiters # <<>>, UNCHANGED <<conn_count, options>>
  PROVE  LedgerInv'
<1>0. PICK w \in Calls : w = Head(waiters)
  BY HeadTail DEF TypeInv, TypeOK
<1> DEFINE given == pc[w] = "waiting"
<1>1. /\ w \in Calls /\ w = waiters[1] /\ Len(waiters) \in Nat \ {0}
      /\ Tail(waiters) \in Seq(Calls) /\ Len(Tail(waiters)) = Len(waiters) - 1
      /\ \A i \in 1..Len(waiters)-1 : Tail(waiters)[i] = waiters[i + 1]
  BY <1>0, HeadTail DEF TypeInv, TypeOK
<1>2. waiters' = Tail(waiters) /\ conns' = conns
  BY DEF HandOver
<1>3. DOMAIN waiters = 1..Len(waiters) /\ DOMAIN waiters' = 1..(Len(waiters) - 1)
  BY <1>1, <1>2, ConnsFacts, LenProperties
<1>4. /\ \A i \in DOMAIN waiters' : i + 1 \in DOMAIN waiters /\ waiters'[i] = waiters[i + 1]
      /\ \A i \in DOMAIN waiters : i = 1 \/ (i - 1 \in DOMAIN waiters' /\ waiters'[i - 1] = waiters[i])
      /\ \A i \in DOMAIN waiters' : i + 1 # 1
      /\ DOMAIN waiters \subseteq Int /\ DOMAIN waiters' \subseteq Int
  <2>1. \A i \in 1..(Len(waiters) - 1) : i + 1 \in 1..Len(waiters) /\ i + 1 # 1
    BY <1>1
  <2>2. \A i \in 1..Len(waiters) :
          i = 1 \/ (i - 1 \in 1..(Len(waiters) - 1) /\ (i - 1) + 1 = i)
    BY <1>1
  <2>3. 1..Len(waiters) \subseteq Int /\ 1..(Len(waiters) - 1) \subseteq Int
    BY <1>1
  <2>4. \A i \in 1..(Len(waiters) - 1) : waiters'[i] = waiters[i + 1]
    BY <1>1, <1>2
  <2> QED
    BY <1>3, <2>1, <2>2, <2>3, <2>4
<1>5. \A i, j \in DOMAIN waiters : waiters[i] = waiters[j] => i = j
  BY DEF LedgerInv, QueuedOnce, IsInjective
<1>6. \A i \in DOMAIN waiters : waiters[i] \in Calls
  BY ElementOfSeq, ConnsFacts DEF TypeInv, TypeOK
<1>7. \A u \in Calls : InQueue(u)' <=> InQueue(u) /\ u # w
  <2>1. 1 \in DOMAIN waiters
    BY <1>1, <1>3
  <2>2. ASSUME NEW u \in Calls, InQueue(u)' PROVE InQueue(u) /\ u # w
    <3>1. PICK i \in DOMAIN waiters' : waiters'[i] = u
      BY <2>2 DEF InQueue
    <3> QED
      BY <1>1, <1>4, <1>5, <2>1, <3>1 DEF InQueue
  <2>3. ASSUME NEW u \in Calls, InQueue(u), u # w PROVE InQueue(u)'
    <3>1. PICK i \in DOMAIN waiters : waiters[i] = u
      BY <2>3 DEF InQueue
    <3> QED
      BY <1>1, <1>4, <2>3, <3>1 DEF InQueue
  <2> QED
    BY <2>2, <2>3
<1>8. InQueue(w)
  BY <1>1, <1>3 DEF InQueue
<1>9. pc[w] = "waiting" \/ (pc[w] = "no_conn" /\ options.max_delay > 0)
  BY <1>1, <1>8, LedgerFacts
<1>10. w # t
  BY <1>9 DEF Holding, Making
<1>11. pc \in [Calls -> Steps] /\ slot \in [Calls -> 0..MaxConns]
  BY LedgerFacts
<1>12. /\ pc'[t] = "returned" /\ pc'[w] = IF given THEN "using" ELSE pc[w]
       /\ \A u \in Calls \ {t, w} : pc'[u] = pc[u]
       /\ DOMAIN slot' = Calls
       /\ slot'[t] = 0 /\ slot'[w] = IF given THEN slot[t] ELSE slot[w]
       /\ \A u \in Calls \ {t, w} : slot'[u] = slot[u]
  <2>1. CASE given
    BY <1>0, <1>10, <1>11, <2>1 DEF HandOver
  <2>2. CASE ~given
    BY <1>0, <1>10, <1>11, <2>2 DEF HandOver, Abandon, Goto
  <2> QED
    BY <2>1, <2>2
<1>13. slot[w] = 0
  BY <1>1, <1>9, LedgerFacts DEF Holding, Making
<1>14. QueuedOnce'
  <2>1. IsInjective(waiters)'
    <3>1. ASSUME NEW i \in DOMAIN waiters', NEW j \in DOMAIN waiters', waiters'[i] = waiters'[j]
          PROVE  i = j
      <4>1. i + 1 = j + 1
        BY <1>4, <1>5, <3>1
      <4> QED
        BY <1>4, <4>1
    <3> QED
      BY <3>1 DEF IsInjective
  <2>2. ASSUME NEW i \in DOMAIN waiters'
        PROVE  pc'[waiters'[i]] = "waiting" \/
               (pc'[waiters'[i]] = "no_conn" /\ options.max_delay > 0)
    <3>1. PICK u \in Calls : u = waiters'[i]
      BY <1>4, <1>6
    <3>2. InQueue(u)'
      BY <3>1 DEF InQueue
    <3>3. InQueue(u) /\ u # w
      BY <1>7, <3>1, <3>2
    <3>4. pc[u] = "waiting" \/ (pc[u] = "no_conn" /\ options.max_delay > 0)
      BY <3>1, <3>3, LedgerFacts
    <3>5. u # t
      BY <3>4 DEF Holding, Making
    <3> QED
      BY <1>12, <3>1, <3>3, <3>4, <3>5
  <2> QED
    BY <2>1, <2>2 DEF QueuedOnce
<1>15. \A u \in Calls : CostlyCall(u)' <=> CostlyCall(u) \/ (u = w /\ ~given)
  <2>1. ASSUME NEW u \in Calls \ {t, w} PROVE CostlyCall(u)' <=> CostlyCall(u)
    BY <1>7, <1>12 DEF CostlyCall
  <2>2. ~CostlyCall(t) /\ ~CostlyCall(t)'
    BY <1>12 DEF CostlyCall, Holding, Making
  <2>3. ~CostlyCall(w)
    BY <1>8, <1>9 DEF CostlyCall
  <2>4. CostlyCall(w)' <=> ~given
    <3>1. ~InQueue(w)'
      BY <1>1, <1>7
    <3>2. given => ~CostlyCall(w)'
      BY <1>12 DEF CostlyCall
    <3>3. ~given => pc'[w] = "no_conn" /\ options'.max_delay > 0
      BY <1>9, <1>12
    <3> QED
      BY <3>1, <3>2, <3>3 DEF CostlyCall
  <2> SUFFICES ASSUME NEW u \in Calls
               PROVE  CostlyCall(u)' <=> CostlyCall(u) \/ (u = w /\ ~given)
    OBVIOUS
  <2> HIDE DEF given
  <2>5. CASE u = t
    BY <1>10, <2>2, <2>5
  <2>6. CASE u = w
    BY <2>3, <2>4, <2>6
  <2> QED
    BY <2>1, <2>5, <2>6
<1>16. w \notin Costly
  <2>1. ~CostlyCall(w)
    BY <1>8, <1>9 DEF CostlyCall
  <2> QED
    BY <2>1, CostlyIs
<1>17. slot[t] # 0 /\ slot[t] \in 1..conn_count
  <2>1. slot[t] # 0 /\ slot[t] \in Nat /\ conn_count \in Nat
    BY LedgerFacts, MaxConnsAssumption
  <2>2. slot[t] <= conn_count
    BY DEF LoanInv, Counted
  <2> QED
    BY <2>1, <2>2
<1>18. \A c \in 1..conn_count :
         Backed(c)' <=> Backed(c) /\ (c = slot[t] => given)
  <2>1. \A c \in 1..conn_count : c # 0
    BY LedgerFacts
  <2>2. ASSUME NEW c \in 1..conn_count, c # slot[t]
        PROVE  (\E u \in Calls : slot'[u] = c) <=> (\E u \in Calls : slot[u] = c)
    BY <1>10, <1>12, <1>13, <2>1, <2>2
  <2>3. (\E u \in Calls : slot'[u] = slot[t]) <=> given
    <3>1. \A u \in Calls : slot[u] = slot[t] => u = t
      BY <1>17 DEF LoanInv, ExclusiveLoan
    <3> QED
      BY <1>1, <1>10, <1>12, <1>13, <1>17, <3>1
  <2>4. \A i \in DOMAIN conns : conns[i] # slot[t]
    BY DEF LoanInv, ExclusiveLoan
  <2> QED
    BY <1>2, <2>2, <2>3, <2>4 DEF Backed
<1>19. slot[t] \notin Stranded
  BY <1>11, StrandedIs DEF Backed
<1>20. CASE given
  <2>1. Stranded' = Stranded
    BY <1>11, <1>12, <1>18, <1>20, StrandedIs
  <2>2. Costly' = Costly
    BY <1>15, <1>20, CostlyIs
  <2> QED
    BY <1>14, <2>1, <2>2, LedgerKept
<1>21. CASE ~given
  <2>1. Stranded' = Stranded \cup {slot[t]}
    BY <1>11, <1>12, <1>17, <1>18, <1>21, StrandedIs
  <2>2. Costly' = Costly \cup {w}
    BY <1>1, <1>15, <1>21, CostlyIs
  <2> QED
    BY <1>14, <1>16, <1>19, <2>1, <2>2, LedgerLoses
<1> QED
  BY <1>20, <1>21

LEMMA InitLedger == Init => LedgerInv
<1> SUFFICES ASSUME Init PROVE LedgerInv
  OBVIOUS
<1>1. DOMAIN waiters = {}
  BY DEF Init
<1>2. Costly = {}
  BY DEF Init, Costly
<1>3. Stranded = {}
  BY DEF Init, Stranded
<1>4. QueuedOnce
  BY <1>1 DEF QueuedOnce, IsInjective
<1> QED
  BY <1>2, <1>3, <1>4, FS_EmptySet DEF LedgerInv, CapacityLedger

LEMMA NextLedger == TypeInv /\ LoanInv /\ LedgerInv /\ [Next]_vars => LedgerInv'
<1> SUFFICES ASSUME TypeInv, LoanInv, LedgerInv, [Next]_vars PROVE LedgerInv'
  OBVIOUS
<1>1. CASE UNCHANGED <<conn_count, conns, waiters, slot, pc>> /\ options'.max_delay = options.max_delay
  <2>1. Stranded' = Stranded
    BY <1>1 DEF Stranded
  <2>2. Costly' = Costly
    BY <1>1 DEF Costly
  <2>3. QueuedOnce'
    BY <1>1 DEF LedgerInv, QueuedOnce
  <2> QED
    BY <2>1, <2>2, <2>3, LedgerKept
<1>2. ASSUME NEW t \in Calls, GetConn(t) PROVE LedgerInv'
  <2>1. CASE GiveUp(t)
    BY <2>1, LedgerMoveOn DEF GiveUp
  <2> QED
    BY <1>2, <2>1, LedgerPop, LedgerMake, LedgerWait DEF GetConn
<1>3. options \in [initialized : {"function", "pending", "fulfilled", "rejected"},
                   max_delay : MaxDelays]
  BY DEF TypeInv, TypeOK
<1>4. ASSUME NEW t \in Calls, ContinueMakeConn(t) PROVE LedgerInv'
  <2>1. CASE CallInitialized(t)
    <3>1. options'.max_delay = options.max_delay
      BY <1>3, <2>1 DEF CallInitialized
    <3> QED
      BY <2>1, <3>1, LedgerMoveOn DEF CallInitialized
  <2>2. CASE InitializedReady(t) \/ Opened(t) \/ Configured(t)
    BY <2>2, LedgerMoveOn DEF InitializedReady, Opened, Configured
  <2>3. CASE InitializedThrows(t) \/ CallNonFunction(t) \/ MakeConnRejects(t)
    BY <2>3, LedgerDrop
       DEF InitializedThrows, CallNonFunction, MakeConnRejects, Holding, Making
  <2> QED
    BY <1>4, <2>1, <2>2, <2>3 DEF ContinueMakeConn
<1>5. ASSUME NEW t \in Calls, FinishBorrow(t) PROVE LedgerInv'
  <2>1. CASE ReturnConn(t) \/ RolledBack(t)
    BY <2>1, LedgerPutBack, LedgerGive DEF ReturnConn, RolledBack, Holding
  <2>2. CASE StartRollback(t)
    BY <2>2, LedgerMoveOn DEF StartRollback
  <2>3. CASE RollbackFails(t)
    BY <2>3, LedgerDrop DEF RollbackFails, Holding
  <2> QED
    BY <1>5, <2>1, <2>2, <2>3 DEF FinishBorrow
<1>6. ASSUME NEW t \in Calls, Timeout(t) PROVE LedgerInv'
  BY <1>6, LedgerMoveOn DEF Timeout
<1>7. CASE SettleInitialized
  BY <1>1, <1>3, <1>7 DEF SettleInitialized
<1> QED
  BY <1>1, <1>2, <1>4, <1>5, <1>6, <1>7
     DEF Next, vars, BeginTransaction, EndTransaction, SettleEngine

(* #conn_count: a connection that no call can get any more has been lost   *)
(* by exactly one call that threw, or that timed out before it was handed  *)
(* one; however many calls there are, and however they fail.               *)
THEOREM EveryLossIsPaidFor == Spec => []CapacityLedger
<1>1. Init => TypeInv /\ LoanInv /\ LedgerInv
  BY InitType, InitLoan, InitLedger
<1>2. TypeInv /\ LoanInv /\ LedgerInv /\ [Next]_vars => (TypeInv /\ LoanInv /\ LedgerInv)'
  BY NextType, NextLoan, NextLedger
<1>3. LedgerInv => CapacityLedger
  BY DEF LedgerInv
<1> QED
  BY <1>1, <1>2, <1>3, PTL DEF Spec
===============================================================================
