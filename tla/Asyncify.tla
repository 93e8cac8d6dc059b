------------------------------- MODULE Asyncify -------------------------------
(***************************************************************************)
(* src/asyncify.js: coroutines in a single WebAssembly instance.           *)
(*                                                                         *)
(* An element of Tasks is one call of a wrapped export.  When an import it *)
(* calls returns a promise, its frames are unwound into a stack of memory, *)
(* the export returns a promise, and the frames are rewound when the       *)
(* import's promise resolves.  Meanwhile other exports run, and imports    *)
(* call exports themselves.                                                *)
(*                                                                         *)
(* running is the native call stack, the innermost export last: only that  *)
(* one takes steps, and a promise continues only when it is empty, as      *)
(* JavaScript runs to completion.                                          *)
(***************************************************************************)
EXTENDS Integers, Sequences, SequencesExt, Functions, FiniteSets

CONSTANTS
  Tasks,
  MaxStacks,    \* how many stacks malloc can still allocate
  MaxAsync      \* bound on the promises that imports return

ASSUME MaxStacksAssumption == MaxStacks \in Nat
ASSUME MaxAsyncAssumption == MaxAsync \in Nat
ASSUME TasksAssumption == "nobody" \notin Tasks

VARIABLES
  state,        \* asyncify_get_state()
  value,        \* the module's variable value: a promise, a result or undefined
  stack,        \* the module's variable stack: 0 for undefined
  stacks,       \* the free list
  allocated,    \* how many stacks get_stack has allocated
  frames,       \* whose frames each allocated stack holds
  running,      \* the native call stack
  pc,           \* where each task is
  save_stack,   \* the local variable of the task's export_stub
  prom,         \* the state of the promise the task awaits
  asyncs        \* how many promises imports have returned

vars == <<state, value, stack, stacks, allocated, frames, running, pc, save_stack,
          prom, asyncs>>

Stacks == 1..MaxStacks
Nobody == "nobody"

(* A value is a promise of a task's import, or what it resolved to.        *)
Undefined == <<"undefined">>
Promise(t) == <<"promise", t>>
Result(t) == <<"result", t>>
Values == {Undefined} \cup {Promise(t) : t \in Tasks} \cup {Result(t) : t \in Tasks}

Steps == {"idle", "wasm", "import", "unwinding", "suspended", "rewinding",
          "returned", "thrown"}

Init ==
  /\ state = "None"
  /\ value = Undefined
  /\ stack = 0
  /\ stacks = <<>>
  /\ allocated = 0
  /\ frames = [s \in Stacks |-> Nobody]
  /\ running = <<>>
  /\ pc = [t \in Tasks |-> "idle"]
  /\ save_stack = [t \in Tasks |-> 0]
  /\ prom = [t \in Tasks |-> "none"]
  /\ asyncs = 0

Goto(t, step) == pc' = [pc EXCEPT ![t] = step]

Innermost(t, step) == running # <<>> /\ Last(running) = t /\ pc[t] = step

Leave(t, step) ==
  /\ running' = Front(running)
  /\ Goto(t, step)

-----------------------------------------------------------------------------
(* export_stub, called from the event loop or from an import.              *)
CallExport(t) ==
  /\ pc[t] = "idle"
  /\ running # <<>> => pc[Last(running)] = "import"
  /\ running' = Append(running, t)
  /\ Goto(t, "wasm")
  /\ UNCHANGED <<state, value, stack, stacks, allocated, frames, save_stack, prom, asyncs>>

Return(t) ==
  /\ Innermost(t, "wasm")
  /\ Leave(t, "returned")
  /\ UNCHANGED <<state, value, stack, stacks, allocated, frames, save_stack, prom, asyncs>>

(***************************************************************************)
(* import_stub                                                             *)
(***************************************************************************)
CallImport(t) ==
  /\ Innermost(t, "wasm")
  /\ Goto(t, "import")
  /\ UNCHANGED <<state, value, stack, stacks, allocated, frames, running, save_stack,
                 prom, asyncs>>

(* The import returns a value, at once.                                    *)
ImportReturns(t) ==
  /\ Innermost(t, "import")
  /\ Goto(t, "wasm")
  /\ UNCHANGED <<state, value, stack, stacks, allocated, frames, running, save_stack,
                 prom, asyncs>>

(* The import throws, and so does the export.                              *)
ImportThrows(t) ==
  /\ Innermost(t, "import")
  /\ Leave(t, "thrown")
  /\ UNCHANGED <<state, value, stack, stacks, allocated, frames, save_stack, prom, asyncs>>

(* The import returns a promise: get_stack, then asyncify_start_unwind.    *)
(* The frames of t are written to the stack on the way out of the export.  *)
StartUnwind(t, s) ==
  /\ value' = Promise(t)
  /\ prom' = [prom EXCEPT ![t] = "pending"]
  /\ asyncs' = asyncs + 1
  /\ stack' = s
  /\ state' = "Unwinding"
  /\ frames' = [frames EXCEPT ![s] = t]
  /\ Goto(t, "unwinding")
  /\ UNCHANGED <<running, save_stack>>

(* Mutant: the stack stays on the free list.                               *)
UnwindToPeeked(t) ==
  /\ Innermost(t, "import")
  /\ asyncs < MaxAsync
  /\ stacks # <<>>
  /\ StartUnwind(t, Last(stacks))
  /\ UNCHANGED <<stacks, allocated>>

UnwindToFree(t) ==
  /\ Innermost(t, "import")
  /\ asyncs < MaxAsync
  /\ stacks # <<>>
  /\ stacks' = Front(stacks)
  /\ StartUnwind(t, Last(stacks))
  /\ UNCHANGED allocated

UnwindToNew(t) ==
  /\ Innermost(t, "import")
  /\ asyncs < MaxAsync
  /\ stacks = <<>>
  /\ allocated < MaxStacks
  /\ allocated' = allocated + 1
  /\ StartUnwind(t, allocated + 1)
  /\ UNCHANGED stacks

(* malloc fails: OutOfMemError, with value already overwritten.            *)
OutOfMemory(t) ==
  /\ Innermost(t, "import")
  /\ asyncs < MaxAsync
  /\ stacks = <<>>
  /\ value' = Promise(t)
  /\ asyncs' = asyncs + 1
  /\ Leave(t, "thrown")
  /\ UNCHANGED <<state, stack, stacks, allocated, frames, save_stack, prom>>

(* Mutant: stack is cleared before it is pushed.                           *)
StopRewindClearsFirst(t) ==
  /\ Innermost(t, "rewinding")
  /\ state = "Rewinding"
  /\ state' = "None"
  /\ stacks' = Append(stacks, 0)
  /\ frames' = [frames EXCEPT ![stack] = Nobody]
  /\ value' = Undefined
  /\ stack' = 0
  /\ Goto(t, "wasm")
  /\ UNCHANGED <<allocated, running, save_stack, prom, asyncs>>

(* Rewinding has come back to the import: it returns the promise's result. *)
StopRewind(t) ==
  /\ Innermost(t, "rewinding")
  /\ state = "Rewinding"
  /\ state' = "None"
  /\ stacks' = Append(stacks, stack)
  /\ frames' = [frames EXCEPT ![stack] = Nobody]
  /\ value' = Undefined
  /\ stack' = 0
  /\ Goto(t, "wasm")
  /\ UNCHANGED <<allocated, running, save_stack, prom, asyncs>>

(***************************************************************************)
(* export_stub, when the export has unwound and when the promise settles.  *)
(***************************************************************************)
(* Mutant: asyncify_stop_unwind is called after the await.                 *)
SuspendUnwinding(t) ==
  /\ Innermost(t, "unwinding")
  /\ state = "Unwinding"
  /\ save_stack' = [save_stack EXCEPT ![t] = stack]
  /\ value' = Undefined
  /\ stack' = 0
  /\ Leave(t, "suspended")
  /\ UNCHANGED <<state, stacks, allocated, frames, prom, asyncs>>

Suspend(t) ==
  /\ Innermost(t, "unwinding")
  /\ state = "Unwinding"
  /\ state' = "None"
  /\ save_stack' = [save_stack EXCEPT ![t] = stack]
  /\ value' = Undefined
  /\ stack' = 0
  /\ Leave(t, "suspended")
  /\ UNCHANGED <<stacks, allocated, frames, prom, asyncs>>

(* Mutant: the result of the await is not stored in value.                 *)
ResumeKeepsValue(t) ==
  /\ running = <<>>
  /\ pc[t] = "suspended"
  /\ prom[t] = "resolved"
  /\ prom' = [prom EXCEPT ![t] = "none"]
  /\ stack' = save_stack[t]
  /\ save_stack' = [save_stack EXCEPT ![t] = 0]
  /\ state' = "Rewinding"
  /\ running' = <<t>>
  /\ Goto(t, "rewinding")
  /\ UNCHANGED <<value, stacks, allocated, frames, asyncs>>

Resume(t) ==
  /\ running = <<>>
  /\ pc[t] = "suspended"
  /\ prom[t] = "resolved"
  /\ prom' = [prom EXCEPT ![t] = "none"]
  /\ value' = Result(t)
  /\ stack' = save_stack[t]
  /\ save_stack' = [save_stack EXCEPT ![t] = 0]
  /\ state' = "Rewinding"
  /\ running' = <<t>>
  /\ Goto(t, "rewinding")
  /\ UNCHANGED <<stacks, allocated, frames, asyncs>>

(* Mutant: the rejection is swallowed.                                     *)
RejectSwallowed(t) ==
  /\ running = <<>>
  /\ pc[t] = "suspended"
  /\ prom[t] = "rejected"
  /\ UNCHANGED vars

(* `await prom` throws: the export's promise rejects, its frames stay where*)
(* they are and the stack is not given back.                               *)
Reject(t) ==
  /\ running = <<>>
  /\ pc[t] = "suspended"
  /\ prom[t] = "rejected"
  /\ prom' = [prom EXCEPT ![t] = "none"]
  /\ save_stack' = [save_stack EXCEPT ![t] = 0]
  /\ Goto(t, "thrown")
  /\ UNCHANGED <<state, value, stack, stacks, allocated, frames, running, asyncs>>

(* The world outside settles the promise of an import.                     *)
Settle(t) ==
  /\ prom[t] = "pending"
  /\ \E outcome \in {"resolved", "rejected"} : prom' = [prom EXCEPT ![t] = outcome]
  /\ UNCHANGED <<state, value, stack, stacks, allocated, frames, running, pc, save_stack,
                 asyncs>>

-----------------------------------------------------------------------------
Progress(t) ==
  \/ Return(t) \/ ImportReturns(t) \/ ImportThrows(t)
  \/ UnwindToFree(t) \/ UnwindToNew(t) \/ OutOfMemory(t) \/ StopRewind(t)
  \/ Suspend(t) \/ Resume(t) \/ Reject(t)

Next == \E t \in Tasks : CallExport(t) \/ CallImport(t) \/ Progress(t) \/ Settle(t)

Spec == Init /\ [][Next]_vars

(* Promises settle, their continuations run, imports come back and exports *)
(* come to an end: the C code does not call imports forever.               *)
Fairness ==
  \A t \in Tasks : SF_vars(Return(t)) /\ SF_vars(Progress(t)) /\ WF_vars(Settle(t))

FairSpec == Spec /\ Fairness

-----------------------------------------------------------------------------
(* The variables keep their types.                                         *)
TypeOK ==
  /\ state \in {"None", "Unwinding", "Rewinding"}
  /\ value \in Values
  /\ stack \in 0..MaxStacks
  /\ stacks \in Seq(Stacks)
  /\ allocated \in 0..MaxStacks
  /\ frames \in [Stacks -> Tasks \cup {Nobody}]
  /\ running \in Seq(Tasks)
  /\ pc \in [Tasks -> Steps]
  /\ save_stack \in [Tasks -> 0..MaxStacks]
  /\ prom \in [Tasks -> {"none", "pending", "resolved", "rejected"}]
  /\ asyncs \in 0..MaxAsync

(* Where a stack that get_stack has returned can be.                       *)
Free(s) == s \in Range(stacks)
InTransit(s) == s = stack
SavedBy(s, t) == s = save_stack[t]
LostBy(s, t) == pc[t] = "thrown" /\ frames[s] = t

(* Whatever coroutines interleave and however imports and exports nest, a  *)
(* stack is in one place: the free list, the module's variable, or the     *)
(* export_stub of one suspended call.  A stack is only ever lost with a    *)
(* call whose awaited promise was rejected, and that call loses one.  The  *)
(* frames a call was unwound into stay on its stack, untouched by the      *)
(* calls in between, until it has taken them back.                         *)
StackOwnership ==
  /\ IsInjective(stacks)
  /\ \A s \in 1..allocated :
       \/ Free(s) \/ InTransit(s)
       \/ \E t \in Tasks : SavedBy(s, t) \/ LostBy(s, t)
  /\ \A s \in 1..allocated :
       /\ Free(s) => ~InTransit(s) /\ \A t \in Tasks : ~SavedBy(s, t)
       /\ InTransit(s) => \A t \in Tasks : ~SavedBy(s, t)
  /\ \A t, u \in Tasks : save_stack[t] # 0 /\ save_stack[t] = save_stack[u] => t = u
  /\ \A r, s \in 1..allocated : \A t \in Tasks : LostBy(r, t) /\ LostBy(s, t) => r = s
  /\ \A t \in Tasks : pc[t] = "suspended" =>
       save_stack[t] # 0 /\ frames[save_stack[t]] = t
  /\ state # "None" => stack # 0 /\ frames[stack] = Last(running)

(* The wasm module is between two calls of the asyncify API only while the *)
(* innermost export is on its way out or in: no other export and no import *)
(* is entered then, and the "Corruption!" of import_stub is unreachable.   *)
EnteredOnlyInNone ==
  state # "None" => running # <<>> /\ pc[Last(running)] \in {"unwinding", "rewinding"}

(* The exports on the native call stack are those in a call, once each,    *)
(* and all but the innermost are in a call of an import.                   *)
Nested ==
  /\ IsInjective(running)
  /\ \A t \in Tasks : t \in Range(running) <=>
                       pc[t] \in {"wasm", "import", "unwinding", "rewinding"}
  /\ \A i \in 1..Len(running)-1 : pc[running[i]] = "import"

(* Between two calls of the asyncify API the module's variables are those  *)
(* of the export on its way out or in; otherwise there is no stack in them.*)
SharedVariables ==
  /\ stack = 0 <=> state = "None"
  /\ \A t \in Tasks : /\ pc[t] = "unwinding" => state = "Unwinding" /\ value = Promise(t)
                      /\ pc[t] = "rewinding" => state = "Rewinding" /\ value = Result(t)

(* Only what is allocated has frames in it, never what is free, and those  *)
(* of a call are in one stack: the one in transit, the one its export_stub *)
(* has saved, or the one it has lost.                                      *)
FramesKept ==
  /\ \A s \in Stacks : Free(s) \/ InTransit(s) \/ (\E t \in Tasks : SavedBy(s, t)) =>
                        s <= allocated
  /\ \A s \in Stacks : frames[s] # Nobody => s <= allocated /\ ~Free(s)
  /\ \A s \in Stacks, t \in Tasks :
       frames[s] = t => InTransit(s) \/ SavedBy(s, t) \/ pc[t] = "thrown"
  /\ \A r, s \in Stacks : frames[r] = frames[s] /\ frames[s] # Nobody => r = s
  /\ \A t \in Tasks : save_stack[t] # 0 => pc[t] = "suspended"

(* The inductive invariant of the proofs.                                  *)
AsyncInv ==
  /\ TypeOK /\ Nested /\ SharedVariables /\ EnteredOnlyInNone
  /\ StackOwnership /\ FramesKept

(* The variables value and stack are shared by all coroutines, yet an      *)
(* import returns to C what its own promise resolved to, and an unwound    *)
(* export awaits the promise of its own import.                            *)
ResultsReachTheirCaller ==
  [][\A t \in Tasks :
       /\ pc[t] = "rewinding" /\ pc'[t] = "wasm" => value = Result(t)
       /\ pc[t] = "unwinding" /\ pc'[t] = "suspended" => value = Promise(t)]_vars

(* Every wrapped export settles, also those that wait while others run.    *)
EveryExportSettles ==
  \A t \in Tasks : pc[t] # "idle" ~> pc[t] \in {"returned", "thrown"}
===============================================================================
