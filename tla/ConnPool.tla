------------------------------- MODULE ConnPool -------------------------------
(***************************************************************************)
(* The connection pool of src/pool.js.                                     *)
(*                                                                         *)
(* One element of Calls is one call of ConnPool.borrow(func).  An action   *)
(* is the code between two awaits: JavaScript runs it without interruption *)
(* and everything that another call can observe happens at an await.       *)
(* pc[t] names the await (or the settled outcome) the call t is at.        *)
(*                                                                         *)
(* A connection is named by the value conn_count had when make_conn was    *)
(* entered for it, so slot[t] is both the capacity a call has taken and    *)
(* the connection it obtains.                                              *)
(***************************************************************************)
EXTENDS Integers, Sequences, SequencesExt, Functions, FiniteSets

CONSTANTS
  Calls,          \* the borrow() calls made on the pool
  MaxConns,       \* options.max_conns
  MaxDelays,      \* the values of options.max_delay: only the sign matters
  GivenOptions,   \* what options.initialized may be at construction
  Nestings,       \* which calls may be made by the func of which other calls
  Nobody,         \* a call is made by nobody's func
  MayFail         \* which operations outside pool.js may reject

ASSUME MaxConnsAssumption == MaxConns \in Nat
ASSUME MaxDelaysAssumption == MaxDelays \subseteq Int
ASSUME GivenOptionsAssumption == GivenOptions \subseteq {"function", "pending", "fulfilled"}
ASSUME NestingsAssumption == Nestings \subseteq [Calls -> Calls \cup {Nobody}]
ASSUME MayFailAssumption ==
  MayFail \subseteq {"engine", "initialized", "open", "init", "rollback"}

VARIABLES
  conn_count,     \* #conn_count: connections ever requested from make_conn
  conns,          \* #conns: idle connections, used as a stack
  waiters,        \* #waiters: resolve functions, first in first out
  options,        \* .max_delay, and .initialized: a function, or a promise's state
  inside,         \* the call whose func makes a call, and awaits it
  engine,         \* the module-wide promise sqlite_initialized
  pc,             \* where each call is
  slot,           \* the connection each call has taken, 0 for none
  in_tx           \* connections whose autocommit getter answers false

vars == <<conn_count, conns, waiters, options, inside, engine, pc, slot, in_tx>>

Slots == 1..MaxConns

(* make_conn is suspended at one of its four awaits.                       *)
Making == {"await_engine", "await_initialized", "opening", "configuring"}

(* The call has capacity (and from "using" on, a connection) of its own.   *)
Holding == Making \cup {"using", "rolling_back"}

(* The promise borrow() returned is settled: func's own outcome, the       *)
(* "Couldn't get a connection" error, the TypeError of calling a promise,  *)
(* or an error of something the pool called.                               *)
Settled == {"returned", "no_conn", "type_error", "env_error"}

Steps == {"idle", "waiting"} \cup Holding \cup Settled

Goto(t, step) == pc' = [pc EXCEPT ![t] = step]

(* A call that settles without giving its connection to anybody drops the  *)
(* last reference to it.                                                   *)
Abandon(t, outcome) ==
  /\ Goto(t, outcome)
  /\ slot' = [slot EXCEPT ![t] = 0]

-----------------------------------------------------------------------------
(***************************************************************************)
(* Mutants: what the actions below would be with a plausible bug in        *)
(* pool.js.  The runs' properties are shown to notice them.                *)
(***************************************************************************)

(* get_conn returns #conns.at(-1) instead of #conns.pop().                 *)
PopConnPeeks(t) ==
  /\ pc[t] = "idle"
  /\ conns # <<>>
  /\ slot' = [slot EXCEPT ![t] = Last(conns)]
  /\ Goto(t, "using")
  /\ UNCHANGED <<inside, conn_count, conns, waiters, options, engine, in_tx>>

(* #conn_count <= max_conns.                                               *)
MakeConnOffByOne(t) ==
  /\ pc[t] = "idle"
  /\ conns = <<>>
  /\ conn_count <= MaxConns
  /\ conn_count' = conn_count + 1
  /\ slot' = [slot EXCEPT ![t] = conn_count + 1]
  /\ Goto(t, IF options.initialized = "function" THEN "await_engine"
                                         ELSE "await_initialized")
  /\ UNCHANGED <<inside, conns, waiters, options, engine, in_tx>>

(* #waiters.unshift instead of #waiters.push.                              *)
WaitInFront(t) ==
  /\ pc[t] = "idle"
  /\ conns = <<>>
  /\ conn_count >= MaxConns
  /\ options.max_delay # 0
  /\ waiters' = <<t>> \o waiters
  /\ Goto(t, "waiting")
  /\ UNCHANGED <<inside, conn_count, conns, options, engine, slot, in_tx>>

(* The timer is only set for a negative max_delay.                         *)
TimeoutWhenNegative(t) ==
  /\ pc[t] = "waiting"
  /\ options.max_delay < 0
  /\ Goto(t, "no_conn")
  /\ UNCHANGED <<inside, conn_count, conns, waiters, options, engine, slot, in_tx>>

(* return_conn never looks at #waiters.                                    *)
HandOverIgnoresWaiters(t) ==
  /\ conns' = Append(conns, slot[t])
  /\ Abandon(t, "returned")
  /\ UNCHANGED waiters

(* return_conn without its last line, the push to #conns.                  *)
HandOverForgets(t) ==
  IF waiters = <<>>
  THEN Abandon(t, "returned") /\ UNCHANGED <<inside, conns, waiters>>
  ELSE /\ waiters' = Tail(waiters)
       /\ pc' = [pc EXCEPT ![t] = "returned", ![Head(waiters)] = "using"]
       /\ slot' = [slot EXCEPT ![t] = 0, ![Head(waiters)] = slot[t]]
       /\ UNCHANGED conns

(* No return after the connection has been given to a waiter.              *)
HandOverTwice(t) ==
  /\ conns' = Append(conns, slot[t])
  /\ IF waiters = <<>>
     THEN Abandon(t, "returned") /\ UNCHANGED waiters
     ELSE /\ waiters' = Tail(waiters)
          /\ pc' = [pc EXCEPT ![t] = "returned", ![Head(waiters)] = "using"]
          /\ slot' = [slot EXCEPT ![t] = 0, ![Head(waiters)] = slot[t]]

-----------------------------------------------------------------------------

Init ==
  /\ conn_count = 0
  /\ conns = <<>>
  /\ waiters = <<>>
  /\ options \in [initialized : GivenOptions, max_delay : MaxDelays]
  /\ inside \in Nestings
  /\ engine = "loading"
  /\ pc = [t \in Calls |-> "idle"]
  /\ slot = [t \in Calls |-> 0]
  /\ in_tx = {}

(***************************************************************************)
(* get_conn, entered synchronously from borrow: one action per exit.       *)
(***************************************************************************)
PopConn(t) ==
  /\ pc[t] = "idle"
  /\ conns # <<>>
  /\ conns' = Front(conns)
  /\ slot' = [slot EXCEPT ![t] = Last(conns)]
  /\ Goto(t, "using")
  /\ UNCHANGED <<inside, conn_count, waiters, options, engine, in_tx>>

(* make_conn up to its first await.                                        *)
MakeConn(t) ==
  /\ pc[t] = "idle"
  /\ conns = <<>>
  /\ conn_count < MaxConns
  /\ conn_count' = conn_count + 1
  /\ slot' = [slot EXCEPT ![t] = conn_count + 1]
  /\ Goto(t, IF options.initialized = "function" THEN "await_engine"
                                         ELSE "await_initialized")
  /\ UNCHANGED <<inside, conns, waiters, options, engine, in_tx>>

GiveUp(t) ==
  /\ pc[t] = "idle"
  /\ conns = <<>>
  /\ conn_count >= MaxConns
  /\ options.max_delay = 0
  /\ Goto(t, "no_conn")
  /\ UNCHANGED <<inside, conn_count, conns, waiters, options, engine, slot, in_tx>>

Wait(t) ==
  /\ pc[t] = "idle"
  /\ conns = <<>>
  /\ conn_count >= MaxConns
  /\ options.max_delay # 0
  /\ waiters' = Append(waiters, t)
  /\ Goto(t, "waiting")
  /\ UNCHANGED <<inside, conn_count, conns, options, engine, slot, in_tx>>

(* The timer of delay_prom wins the race.  Nothing removes the resolve     *)
(* function of wait_prom from #waiters.                                    *)
Timeout(t) ==
  /\ pc[t] = "waiting"
  /\ options.max_delay > 0
  /\ Goto(t, "no_conn")
  /\ UNCHANGED <<inside, conn_count, conns, waiters, options, engine, slot, in_tx>>

(* options.initialized is looked at before the await only, and called.     *)
CallInitializedAgain(t) ==
  /\ pc[t] = "await_engine"
  /\ engine = "ready"
  /\ \E p \in {"pending", "fulfilled"} : options' = [options EXCEPT !.initialized = p]
  /\ Goto(t, "await_initialized")
  /\ UNCHANGED <<inside, conn_count, conns, waiters, engine, slot, in_tx>>

(***************************************************************************)
(* make_conn after `await sqlite_initialized`: options.initialized is      *)
(* called and overwritten, whatever it has become in the meantime.         *)
(***************************************************************************)
CallInitialized(t) ==
  /\ pc[t] = "await_engine"
  /\ engine = "ready"
  /\ options.initialized = "function"
  /\ \E p \in {"pending", "fulfilled"} : options' = [options EXCEPT !.initialized = p]
  /\ Goto(t, "await_initialized")
  /\ UNCHANGED <<inside, conn_count, conns, waiters, engine, slot, in_tx>>

InitializedThrows(t) ==
  /\ pc[t] = "await_engine"
  /\ engine = "ready"
  /\ options.initialized = "function"
  /\ "initialized" \in MayFail
  /\ Abandon(t, "env_error")
  /\ UNCHANGED <<inside, conn_count, conns, waiters, options, engine, in_tx>>

CallNonFunction(t) ==
  /\ pc[t] = "await_engine"
  /\ engine = "ready"
  /\ options.initialized # "function"
  /\ Abandon(t, "type_error")
  /\ UNCHANGED <<inside, conn_count, conns, waiters, options, engine, in_tx>>

(* `await this.options.initialized` resumes and Conn.open is called.       *)
InitializedReady(t) ==
  /\ pc[t] = "await_initialized"
  /\ options.initialized = "fulfilled"
  /\ Goto(t, "opening")
  /\ UNCHANGED <<inside, conn_count, conns, waiters, options, engine, slot, in_tx>>

(* Conn.open resolves, then options.init(ret) is called.                   *)
Opened(t) ==
  /\ pc[t] = "opening"
  /\ engine = "ready"
  /\ Goto(t, "configuring")
  /\ UNCHANGED <<inside, conn_count, conns, waiters, options, engine, slot, in_tx>>

(* options.init resolves, get_conn returns and borrow calls func.          *)
Configured(t) ==
  /\ pc[t] = "configuring"
  /\ Goto(t, "using")
  /\ UNCHANGED <<inside, conn_count, conns, waiters, options, engine, slot, in_tx>>

(* One of make_conn's awaits throws: conn_count keeps the increment.       *)
MakeConnRejects(t) ==
  /\ \/ pc[t] = "await_engine" /\ engine = "rejected"
     \/ pc[t] = "await_initialized" /\ options.initialized = "rejected"
     \/ pc[t] = "opening" /\ engine = "rejected"
     \/ pc[t] = "opening" /\ engine = "ready" /\ "open" \in MayFail
     \/ pc[t] = "configuring" /\ "init" \in MayFail
  /\ Abandon(t, "env_error")
  /\ UNCHANGED <<inside, conn_count, conns, waiters, options, engine, in_tx>>

(***************************************************************************)
(* return_conn, entered from borrow's finally clause.                      *)
(***************************************************************************)

(* The tail of return_conn: the oldest resolve function gets the           *)
(* connection even when its call has timed out, and then it goes nowhere.  *)
HandOver(t) ==
  LET c == slot[t]
      w == Head(waiters)
  IN IF waiters = <<>>
     THEN /\ conns' = Append(conns, c)
          /\ Abandon(t, "returned")
          /\ UNCHANGED waiters
     ELSE /\ waiters' = Tail(waiters)
          /\ UNCHANGED conns
          /\ IF pc[w] = "waiting"
             THEN /\ pc' = [pc EXCEPT ![t] = "returned", ![w] = "using"]
                  /\ slot' = [slot EXCEPT ![t] = 0, ![w] = c]
             ELSE Abandon(t, "returned")

ReturnConn(t) ==
  /\ pc[t] = "using"
  /\ slot[t] \notin in_tx
  /\ HandOver(t)
  /\ UNCHANGED <<inside, conn_count, options, engine, in_tx>>

(* Mutant: the ROLLBACK is not awaited.                                    *)
StartRollbackUnawaited(t) ==
  /\ pc[t] = "using"
  /\ slot[t] \in in_tx
  /\ HandOver(t)
  /\ UNCHANGED <<inside, conn_count, options, engine, in_tx>>

StartRollback(t) ==
  /\ pc[t] = "using"
  /\ slot[t] \in in_tx
  /\ Goto(t, "rolling_back")
  /\ UNCHANGED <<inside, conn_count, conns, waiters, options, engine, slot, in_tx>>

RolledBack(t) ==
  /\ pc[t] = "rolling_back"
  /\ HandOver(t)
  /\ in_tx' = in_tx \ {slot[t]}
  /\ UNCHANGED <<inside, conn_count, options, engine>>

(* handle_error throws inside return_conn.                                 *)
RollbackFails(t) ==
  /\ pc[t] = "rolling_back"
  /\ "rollback" \in MayFail
  /\ Abandon(t, "env_error")
  /\ UNCHANGED <<inside, conn_count, conns, waiters, options, engine, in_tx>>

(***************************************************************************)
(* The world outside pool.js: func's SQL and the two promises.             *)
(***************************************************************************)
BeginTransaction(t) ==
  /\ pc[t] = "using"
  /\ slot[t] \notin in_tx
  /\ in_tx' = in_tx \cup {slot[t]}
  /\ UNCHANGED <<inside, conn_count, conns, waiters, options, engine, pc, slot>>

EndTransaction(t) ==
  /\ pc[t] = "using"
  /\ slot[t] \in in_tx
  /\ in_tx' = in_tx \ {slot[t]}
  /\ UNCHANGED <<inside, conn_count, conns, waiters, options, engine, pc, slot>>

SettleEngine ==
  /\ engine = "loading"
  /\ engine' \in {"ready"} \cup (IF "engine" \in MayFail THEN {"rejected"} ELSE {})
  /\ UNCHANGED <<inside, conn_count, conns, waiters, options, pc, slot, in_tx>>

SettleInitialized ==
  /\ options.initialized = "pending"
  /\ \E outcome \in {"fulfilled"} \cup
                     (IF "initialized" \in MayFail THEN {"rejected"} ELSE {}) :
       options' = [options EXCEPT !.initialized = outcome]
  /\ UNCHANGED <<inside, conn_count, conns, waiters, engine, pc, slot, in_tx>>

-----------------------------------------------------------------------------

(* func is running and awaits a call that it has made.                     *)
Nesting(t) ==
  /\ pc[t] = "using"
  /\ \E u \in Calls : inside[u] = t /\ pc[u] \notin {"idle"} \cup Settled

Called(t) == inside[t] # Nobody => pc[inside[t]] = "using"

GetConn(t) == Called(t) /\ (PopConn(t) \/ MakeConn(t) \/ GiveUp(t) \/ Wait(t))

ContinueMakeConn(t) ==
  \/ CallInitialized(t) \/ InitializedThrows(t) \/ CallNonFunction(t)
  \/ InitializedReady(t) \/ Opened(t) \/ Configured(t) \/ MakeConnRejects(t)

FinishBorrow(t) ==
  ~Nesting(t) /\ (ReturnConn(t) \/ StartRollback(t) \/ RolledBack(t) \/ RollbackFails(t))

Next ==
  \/ \E t \in Calls : \/ GetConn(t) \/ ContinueMakeConn(t) \/ FinishBorrow(t)
                      \/ Timeout(t)
                      \/ BeginTransaction(t) \/ EndTransaction(t)
  \/ SettleEngine
  \/ SettleInitialized

Spec == Init /\ [][Next]_vars

(* Promises settle, timers fire, continuations run and func returns when   *)
(* the calls of borrow that it has made have settled.                      *)
Fairness ==
  /\ \A t \in Calls : /\ WF_vars(ContinueMakeConn(t))
                      /\ WF_vars(FinishBorrow(t))
                      /\ WF_vars(Timeout(t))
  /\ WF_vars(SettleEngine)
  /\ WF_vars(SettleInitialized)

FairSpec == Spec /\ Fairness

-----------------------------------------------------------------------------
(* The variables keep their types.                                         *)
TypeOK ==
  /\ conn_count \in 0..MaxConns
  /\ conns \in Seq(Slots)
  /\ waiters \in Seq(Calls)
  /\ options \in [initialized : {"function", "pending", "fulfilled", "rejected"},
                  max_delay : MaxDelays]
  /\ inside \in [Calls -> Calls \cup {Nobody}]
  /\ engine \in {"loading", "ready", "rejected"}
  /\ pc \in [Calls -> Steps]
  /\ slot \in [Calls -> 0..MaxConns]
  /\ in_tx \subseteq Slots

(* A connection is lent to one call at a time, and while it is lent it is  *)
(* not in #conns: whatever the order of arrivals, hand-overs, time-outs    *)
(* and failures, get_conn never gives out a connection that is in use, and *)
(* #conns never holds one twice.                                           *)
ExclusiveLoan ==
  /\ \A t, u \in Calls : slot[t] # 0 /\ slot[t] = slot[u] => t = u
  /\ \A i \in DOMAIN conns : \A t \in Calls : slot[t] # conns[i]
  /\ IsInjective(conns)

(* Calls queue up only while nothing is idle and the pool is at its limit: *)
(* get_conn looks at #conns and #conn_count, return_conn at #waiters, and  *)
(* the two views never disagree.                                           *)
WaitOnlyWhenFull ==
  waiters # <<>> => conns = <<>> /\ conn_count = MaxConns

(* Idle and new connections have no open transaction.                      *)
CleanLoan ==
  /\ \A i \in DOMAIN conns : conns[i] \notin in_tx
  /\ \A t \in Calls : pc[t] \in Making => slot[t] \notin in_tx

(* What one borrower does is invisible to the next: a call receives its    *)
(* connection outside any transaction (return_conn's ROLLBACK), on every   *)
(* path from one call to another.                                          *)
CleanStart ==
  [][\A t \in Calls : pc[t] # "using" /\ pc'[t] = "using" => slot'[t] \notin in_tx']_vars

(* What the invariants above rest on: who holds a slot, which connections  *)
(* exist, and that whoever waits is queued.                                *)
SlotIffHolding == \A t \in Calls : slot[t] # 0 <=> pc[t] \in Holding

Counted ==
  /\ \A t \in Calls : slot[t] <= conn_count
  /\ \A i \in DOMAIN conns : conns[i] <= conn_count
  /\ \A c \in in_tx : c <= conn_count

Queued ==
  \A t \in Calls : pc[t] = "waiting" => \E i \in DOMAIN waiters : waiters[i] = t

PoolInv ==
  /\ TypeOK /\ SlotIffHolding /\ Counted /\ Queued
  /\ ExclusiveLoan /\ WaitOnlyWhenFull /\ CleanLoan

(* Capacity that conn_count still counts but no call can ever get again.   *)
Stranded == (1..conn_count) \ (Range(conns) \cup Range(slot))

(* The calls that cost the pool a connection for good: make_conn or        *)
(* return_conn threw, or a connection was handed to a call after its       *)
(* time-out (its resolve function has left #waiters).                      *)
Costly ==
  {t \in Calls : \/ pc[t] \in {"type_error", "env_error"}
                 \/ pc[t] = "no_conn" /\ options.max_delay > 0 /\ t \notin Range(waiters)}

(* The ledger of #conn_count: capacity is lost exactly once per costly     *)
(* call, by no other path, and never given back.                           *)
CapacityLedger == Cardinality(Stranded) = Cardinality(Costly)

(* What the ledger rests on: a call is in #waiters once, and it waits or   *)
(* has timed out; so that each hand-over to nobody is of another call.     *)
QueuedOnce ==
  /\ IsInjective(waiters)
  /\ \A i \in DOMAIN waiters :
       \/ pc[waiters[i]] = "waiting"
       \/ pc[waiters[i]] = "no_conn" /\ options.max_delay > 0

LedgerInv == QueuedOnce /\ IsFiniteSet(Costly) /\ CapacityLedger

(* First come, first served: no call gets a connection before one that was *)
(* waiting when it arrived, whichever way the two get or wait for theirs.  *)
Ahead(t, u) == \E i, j \in DOMAIN waiters : i < j /\ waiters[i] = t /\ waiters[j] = u

NoOvertaking ==
  [][\A t, u \in Calls :
       u # t /\ pc[u] = "waiting" /\ pc'[u] = "waiting" =>
       /\ pc[t] \notin Holding /\ pc'[t] \in Holding => Ahead(t, u)
       /\ pc[t] # "waiting" /\ pc'[t] = "waiting" => Ahead(u, t)'
       /\ pc[t] = "waiting" /\ pc'[t] = "waiting" /\ Ahead(t, u) => Ahead(t, u)']_vars

(* The pool implements exclusive lending of at most MaxConns connections.  *)
Loans == INSTANCE Lending WITH
           made <- 1..conn_count,
           free <- Range(conns),
           holders <- [s \in Slots |-> {t \in Calls : slot[t] = s}]
PoolLends == Loans!Spec

(* pool.js:43, 71: every borrow() settles, also when func borrows from the *)
(* same pool: no return misses the call it should wake.  The exceptions    *)
(* are a call that waits without a time-out, and the calls whose funcs     *)
(* await it, when the pool has lost a connection or all connections are    *)
(* with calls that wait for one more.                                      *)
AllNesting == \A c \in Slots : \E t \in Calls : slot[t] = c /\ Nesting(t)

MayWaitForever(t) ==
  /\ options.max_delay < 0
  /\ Costly # {} \/ AllNesting
  /\ \E u \in Calls : pc[u] = "waiting" /\ (u = t \/ Nesting(t))

EveryCallSettles ==
  \A t \in Calls : pc[t] # "idle" ~> (pc[t] \in Settled \/ MayWaitForever(t))

(* pool.js:11: options.initialized, and the function that may be in its    *)
(* place, has done its work before there is a connection and is not done   *)
(* again later, however the calls that make connections overlap.           *)
InitializedFirst ==
  \/ conns # <<>>
  \/ \E t \in Calls : slot[t] # 0 /\ pc[t] \notin {"await_engine", "await_initialized"}
  => options.initialized = "fulfilled"
===============================================================================
