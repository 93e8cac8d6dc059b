---------------------------- MODULE AsyncifyProofs ----------------------------
(***************************************************************************)
(* What holds of src/asyncify.js for every number of coroutines, however   *)
(* deep exports and imports nest and however many stacks can be allocated. *)
(***************************************************************************)
EXTENDS Asyncify, ArrayLemmas

InCall == {"wasm", "import", "unwinding", "rewinding"}

LEMMA InitAsyncify == Init => AsyncInv
<1> SUFFICES ASSUME Init PROVE AsyncInv
  OBVIOUS
<1> USE MaxStacksAssumption, MaxAsyncAssumption, TasksAssumption DEF Init
<1>1. DOMAIN running = {} /\ DOMAIN stacks = {} /\ Len(running) = 0
  OBVIOUS
<1>2. TypeOK
  BY DEF TypeOK, Steps, Values, Stacks, Nobody
<1>3. Nested /\ SharedVariables /\ EnteredOnlyInNone
  BY <1>1 DEF Nested, SharedVariables, EnteredOnlyInNone, IsInjective, Range
<1>4. StackOwnership /\ FramesKept
  BY <1>1 DEF StackOwnership, FramesKept, IsInjective, Range, Stacks, Nobody,
     Free, InTransit, SavedBy, LostBy
<1> QED
  BY <1>2, <1>3, <1>4 DEF AsyncInv

-----------------------------------------------------------------------------
(* The native call stack.                                                  *)

LEMMA SeqRange ==
  ASSUME NEW S, NEW s \in Seq(S), NEW x
  PROVE  /\ x \in Range(s) <=> \E i \in 1..Len(s) : s[i] = x
         /\ IsInjective(s) <=> \A i, j \in 1..Len(s) : s[i] = s[j] => i = j
         /\ Len(s) \in Nat
  BY LenProperties DEF Range, IsInjective

LEMMA AppendRange ==
  ASSUME NEW S, NEW s \in Seq(S), NEW e \in S, NEW x
  PROVE  x \in Range(Append(s, e)) <=> x \in Range(s) \/ x = e
<1> PICK r : r = Append(s, e)
  OBVIOUS
<1>1. /\ r \in Seq(S) /\ Len(s) \in Nat /\ Len(r) = Len(s) + 1
      /\ \A i \in 1..Len(s) : r[i] = s[i]
      /\ r[Len(s)+1] = e
  BY AppendLast
<1>2. x \in Range(r) <=> \E i \in 1..Len(r) : r[i] = x
  <2>1. r \in Seq(S)
    BY <1>1
  <2> QED
    BY ONLY <2>1, SeqRange
<1>3. x \in Range(s) <=> \E i \in 1..Len(s) : s[i] = x
  BY SeqRange
<1>4. \A i : i \in 1..Len(r) <=> i \in 1..Len(s) \/ i = Len(s)+1
  BY <1>1
<1>5. x \in Range(r) <=> x \in Range(s) \/ x = e
  BY <1>1, <1>2, <1>3, <1>4
<1> QED
  BY <1>5

(* The innermost export is the only one whose step it can be.              *)
LEMMA InnermostFacts ==
  ASSUME AsyncInv, running # <<>>
  PROVE  /\ running \in Seq(Tasks)
         /\ Len(running) \in Nat \ {0}
         /\ Last(running) = running[Len(running)]
         /\ Last(running) \in Tasks
         /\ \A t \in Tasks : pc[t] \in InCall /\ t # Last(running) => pc[t] = "import"
<1>1. running \in Seq(Tasks)
  BY DEF AsyncInv, TypeOK
<1>2. /\ Len(running) \in Nat \ {0}
      /\ Last(running) = running[Len(running)]
      /\ Last(running) \in Tasks
  BY <1>1, FrontLast
<1>3. ASSUME NEW t \in Tasks, pc[t] \in InCall, t # Last(running)
      PROVE  pc[t] = "import"
  <2>1. PICK i \in 1..Len(running) : running[i] = t
    BY <1>1, <1>3, SeqRange DEF AsyncInv, Nested, InCall
  <2>2. i \in 1..Len(running)-1
    BY <1>2, <1>3, <2>1
  <2> QED
    BY <2>1, <2>2 DEF AsyncInv, Nested
<1> QED
  BY <1>1, <1>2, <1>3

(* An export is entered, from the event loop or from an import.            *)
LEMMA Entered ==
  ASSUME AsyncInv, NEW t \in Tasks, pc[t] \notin InCall,
         running # <<>> => pc[Last(running)] = "import",
         running' = Append(running, t),
         NEW step \in InCall, pc' = [pc EXCEPT ![t] = step]
  PROVE  Nested' /\ running' # <<>> /\ Last(running') = t /\ running' \in Seq(Tasks)
<1> DEFINE n == Len(running)
<1>1. running \in Seq(Tasks) /\ pc \in [Tasks -> Steps] /\ n \in Nat
  BY LenProperties DEF AsyncInv, TypeOK
<1>2. /\ running' \in Seq(Tasks) /\ Len(running') = n + 1 /\ running' # <<>>
      /\ \A i \in 1..n : running'[i] = running[i] /\ running[i] \in Tasks
      /\ running'[n+1] = t
  BY <1>1, AppendLast, ElementOfSeq
<1>3. Last(running') = t
  BY <1>1, <1>2, FrontLast
<1>4. \A i \in 1..n : running[i] # t
  BY <1>1, SeqRange DEF AsyncInv, Nested, InCall
<1>5. IsInjective(running')
  <2>1. \A i, j \in 1..n : running[i] = running[j] => i = j
    BY <1>1, SeqRange DEF AsyncInv, Nested
  <2> SUFFICES ASSUME NEW i \in 1..n+1, NEW j \in 1..n+1, running'[i] = running'[j]
               PROVE  i = j
    BY <1>2, SeqRange
  <2> QED
    BY <1>1, <1>2, <1>4, <2>1
<1>6. ASSUME NEW u \in Tasks
      PROVE  u \in Range(running') <=> pc'[u] \in InCall
  <2>1. u \in Range(running') <=> u \in Range(running) \/ u = t
    BY <1>1, AppendRange
  <2> QED
    BY <1>1, <2>1 DEF AsyncInv, Nested, InCall
<1>7. ASSUME NEW i \in 1..Len(running')-1
      PROVE  pc'[running'[i]] = "import"
  <2>1. i \in 1..n /\ running'[i] = running[i] /\ running[i] \in Tasks /\ running[i] # t
    BY <1>1, <1>2, <1>4, <1>7
  <2>2. pc[running[i]] = "import"
    <3>1. CASE i = n
      BY <1>1, <2>1, <3>1, InnermostFacts, EmptySeq
    <3>2. CASE i # n
      BY <1>1, <2>1, <3>2 DEF AsyncInv, Nested
    <3> QED
      BY <3>1, <3>2
  <2> QED
    BY <1>1, <2>1, <2>2
<1> QED
  BY <1>2, <1>3, <1>5, <1>6, <1>7 DEF Nested, InCall

(* The innermost export is left; what remains is in a call of an import.   *)
LEMMA Left ==
  ASSUME AsyncInv, running # <<>>, running' = Front(running),
         NEW step \in Steps \ InCall, pc' = [pc EXCEPT ![Last(running)] = step]
  PROVE  /\ Nested' /\ running' \in Seq(Tasks)
         /\ \A t \in Tasks : pc'[t] \notin {"unwinding", "rewinding"}
<1> DEFINE n == Len(running)
           t == Last(running)
<1>1. running \in Seq(Tasks) /\ pc \in [Tasks -> Steps] /\ n \in Nat \ {0}
  BY InnermostFacts DEF AsyncInv, TypeOK
<1>2. /\ running' \in Seq(Tasks) /\ Len(running') = n - 1
      /\ \A i \in 1..n-1 : running'[i] = running[i] /\ running[i] \in Tasks
      /\ t \in Tasks /\ t = running[n]
  BY <1>1, FrontLast, ElementOfSeq
<1> HIDE DEF t
<1>3. \A i, j \in 1..n : running[i] = running[j] => i = j
  BY <1>1, SeqRange DEF AsyncInv, Nested
<1>4. IsInjective(running')
  <2> SUFFICES ASSUME NEW i \in 1..n-1, NEW j \in 1..n-1, running'[i] = running'[j]
               PROVE  i = j
    BY <1>2, SeqRange
  <2> QED
    BY <1>1, <1>2, <1>3
<1>5. \A i \in 1..n-1 : running[i] # t
  BY <1>1, <1>2, <1>3
<1>6. ASSUME NEW u \in Tasks
      PROVE  u \in Range(running') <=> pc'[u] \in InCall
  <2>1. u \in Range(running') <=> u \in Range(running) /\ u # t
    <3>1. u \in Range(running) <=> \E i \in 1..n : running[i] = u
      BY <1>1, SeqRange
    <3>2. u \in Range(running') <=> \E i \in 1..n-1 : running'[i] = u
      BY <1>2, SeqRange
    <3> QED
      BY <3>1, <3>2, <1>1, <1>2, <1>5
  <2>2. pc'[u] = IF u = t THEN step ELSE pc[u]
    BY <1>1, <1>2 DEF t
  <2> QED
    BY <1>1, <2>1, <2>2 DEF AsyncInv, Nested, InCall
<1>7. \A i \in 1..n-1 : pc'[running'[i]] = "import"
  <2>1. \A i \in 1..n-1 : pc[running[i]] = "import"
    BY DEF AsyncInv, Nested
  <2> QED
    BY <1>1, <1>2, <1>5, <2>1 DEF t
<1>8. \A u \in Tasks : pc'[u] \notin {"unwinding", "rewinding"}
  <2>1. \A u \in Tasks : u # t => pc[u] \notin {"unwinding", "rewinding"}
    BY InnermostFacts DEF InCall, t
  <2> QED
    BY <1>1, <1>2, <2>1 DEF t, InCall
<1>9. \A i \in 1..Len(running')-1 : i \in 1..n-1
  BY <1>1, <1>2
<1> QED
  BY <1>2, <1>4, <1>6, <1>7, <1>8, <1>9 DEF Nested, InCall

(* The innermost export goes on, and stays where it is.                    *)
LEMMA Stayed ==
  ASSUME AsyncInv, running # <<>>, running' = running, pc[Last(running)] \in InCall,
         NEW step \in InCall, pc' = [pc EXCEPT ![Last(running)] = step]
  PROVE  /\ Nested'
         /\ \A t \in Tasks : t # Last(running) => pc'[t] \notin {"unwinding", "rewinding"}
<1> DEFINE n == Len(running)
           t == Last(running)
<1>1. /\ running \in Seq(Tasks) /\ pc \in [Tasks -> Steps] /\ n \in Nat \ {0}
      /\ t \in Tasks /\ t = running[n]
  BY InnermostFacts DEF AsyncInv, TypeOK
<1> HIDE DEF t
<1>2. \A i \in 1..n-1 : running[i] # t
  BY <1>1, SeqRange DEF AsyncInv, Nested
<1>3. \A u \in Tasks : u # t => pc'[u] = pc[u]
  BY <1>1 DEF t
<1>4. \A u \in Tasks : pc'[u] \in InCall <=> pc[u] \in InCall
  BY <1>1, <1>3 DEF t
<1>5. \A i \in 1..n-1 : pc'[running[i]] = "import"
  <2>1. \A i \in 1..n-1 : running[i] \in Tasks /\ pc[running[i]] = "import"
    BY <1>1, ElementOfSeq DEF AsyncInv, Nested
  <2> QED
    BY <1>2, <1>3, <2>1
<1>6. Nested'
  BY <1>4, <1>5 DEF AsyncInv, Nested, InCall
<1> QED
  BY <1>3, <1>6, InnermostFacts DEF t, InCall

-----------------------------------------------------------------------------
(* The stacks.                                                             *)

LEMMA FrontRange ==
  ASSUME NEW S, NEW s \in Seq(S), s # <<>>, IsInjective(s), NEW x
  PROVE  /\ x \in Range(Front(s)) <=> x \in Range(s) /\ x # Last(s)
         /\ IsInjective(Front(s)) /\ Last(s) \in Range(s)
<1> PICK r : r = Front(s)
  OBVIOUS
<1>1. /\ r \in Seq(S) /\ Len(s) \in Nat \ {0} /\ Len(r) = Len(s) - 1
      /\ \A i \in 1..Len(s)-1 : r[i] = s[i]
      /\ Last(s) = s[Len(s)]
  BY FrontLast
<1>2. x \in Range(r) <=> \E i \in 1..Len(r) : r[i] = x
  <2>1. r \in Seq(S)
    BY <1>1
  <2> QED
    BY ONLY <2>1, SeqRange
<1>3. /\ x \in Range(s) <=> \E i \in 1..Len(s) : s[i] = x
      /\ \A i, j \in 1..Len(s) : s[i] = s[j] => i = j
  BY SeqRange
<1>4. Last(s) \in Range(s)
  BY <1>1, SeqRange
<1>5. IsInjective(r)
  <2>1. r \in Seq(S)
    BY <1>1
  <2>2. IsInjective(r) <=> \A i, j \in 1..Len(r) : r[i] = r[j] => i = j
    BY ONLY <2>1, SeqRange
  <2>3. \A i \in 1..Len(r) : i \in 1..Len(s) /\ r[i] = s[i]
    BY <1>1
  <2> QED
    BY <1>3, <2>2, <2>3
<1>6. \A i : i \in 1..Len(s) <=> i \in 1..Len(r) \/ i = Len(s)
  BY <1>1
<1>7. Len(s) \notin 1..Len(r) /\ Len(s) \in 1..Len(s)
  BY <1>1
<1>8. x \in Range(r) <=> x \in Range(s) /\ x # Last(s)
  BY <1>1, <1>2, <1>3, <1>6, <1>7
<1> QED
  BY <1>4, <1>5, <1>8

LEMMA InjectiveAppend ==
  ASSUME NEW S, NEW s \in Seq(S), NEW e \in S, IsInjective(s), e \notin Range(s),
         NEW r, r = Append(s, e)
  PROVE  IsInjective(r)
<1>1. /\ r \in Seq(S) /\ Len(s) \in Nat /\ Len(r) = Len(s) + 1
      /\ \A i \in 1..Len(s) : r[i] = s[i]
      /\ r[Len(s)+1] = e
  BY AppendLast
<1>2. /\ \A i, j \in 1..Len(s) : s[i] = s[j] => i = j
      /\ \A i \in 1..Len(s) : s[i] # e
  BY SeqRange
<1>3. \A i \in 1..Len(r) : i \in 1..Len(s) \/ i = Len(s)+1
  BY <1>1
<1>4. \A i, j \in 1..Len(r) : r[i] = r[j] => i = j
  BY <1>1, <1>2, <1>3
<1>5. r \in Seq(S)
  BY <1>1
<1>6. IsInjective(r) <=> \A i, j \in 1..Len(r) : r[i] = r[j] => i = j
  BY ONLY <1>5, SeqRange
<1> QED
  BY <1>4, <1>6

(* Outside of an unwinding and a rewinding the module's variables hold no  *)
(* stack.                                                                  *)
LEMMA Quiet ==
  ASSUME AsyncInv, running = <<>> \/ pc[Last(running)] \notin {"unwinding", "rewinding"}
  PROVE  /\ state = "None" /\ stack = 0
         /\ \A t \in Tasks : pc[t] \notin {"unwinding", "rewinding"}
  BY DEF AsyncInv, EnteredOnlyInNone, SharedVariables

(* A step that leaves the stacks alone leaves each where it is, also when  *)
(* the export ends with an exception.                                      *)
LEMMA StacksUntouched ==
  ASSUME AsyncInv, state = "None",
         UNCHANGED <<state, stack, stacks, allocated, frames, save_stack>>,
         NEW t \in Tasks, pc[t] \notin {"suspended", "thrown"},
         NEW step \in Steps \ {"suspended"}, pc' = [pc EXCEPT ![t] = step]
  PROVE  StackOwnership' /\ FramesKept'
<1>1. pc \in [Tasks -> Steps] /\ stack = 0
  BY DEF AsyncInv, TypeOK, SharedVariables
<1> USE TasksAssumption, MaxStacksAssumption DEF Free, InTransit, SavedBy, LostBy, Nobody
<1>2. FramesKept'
  BY <1>1 DEF AsyncInv, FramesKept
<1>3. \A s \in Stacks : frames[s] # t
  BY <1>1, MaxStacksAssumption DEF AsyncInv, FramesKept, Stacks
<1>4. allocated \in 0..MaxStacks /\ \A s \in 1..allocated : s \in Stacks
  BY DEF AsyncInv, TypeOK, Stacks
<1>5. StackOwnership'
  BY <1>1, <1>3, <1>4 DEF AsyncInv, StackOwnership
<1> QED
  BY <1>2, <1>5

(* An export is unwound into a stack that nobody has.                      *)
LEMMA UnwoundInto ==
  ASSUME AsyncInv, NEW t \in Tasks, Innermost(t, "import"), NEW s \in Stacks,
         frames[s] = Nobody, \A u \in Tasks : save_stack[u] # s, StartUnwind(t, s),
         IsInjective(stacks'), \A r : r \in Range(stacks') <=> r \in Range(stacks) /\ r # s,
         allocated' \in 0..MaxStacks,
         \A r \in Stacks : r <= allocated' <=> r <= allocated \/ r = s
  PROVE  StackOwnership' /\ FramesKept'
<1> USE TasksAssumption, MaxStacksAssumption
    DEF Free, InTransit, SavedBy, LostBy, Nobody, Goto, StartUnwind, Innermost
<1>1. /\ pc \in [Tasks -> Steps] /\ frames \in [Stacks -> Tasks \cup {Nobody}]
      /\ allocated \in 0..MaxStacks /\ save_stack \in [Tasks -> 0..MaxStacks]
  BY DEF AsyncInv, TypeOK
<1>2. state = "None" /\ stack = 0
  BY Quiet
<1>3. \A r \in Stacks : r # 0 /\ r \in Nat
  BY DEF Stacks
<1>4. \A r \in Stacks : frames[r] # t
  BY <1>1, <1>2, <1>3 DEF AsyncInv, FramesKept
<1>5. /\ frames'[s] = t /\ \A r \in Stacks : r # s => frames'[r] = frames[r]
      /\ \A u \in Tasks : pc'[u] = IF u = t THEN "unwinding" ELSE pc[u]
      /\ stack' = s /\ save_stack' = save_stack /\ running' = running
  BY <1>1
<1>6. FramesKept'
  BY <1>1, <1>2, <1>3, <1>4, <1>5 DEF AsyncInv, FramesKept
<1>7. /\ \A r \in 1..allocated' : r \in Stacks /\ (r \in 1..allocated \/ r = s)
      /\ 0 \notin Stacks
  <2>1. \A r \in 1..allocated' : r \in Stacks
    BY DEF Stacks
  <2>2. \A r \in 1..allocated' : r \in 1..allocated \/ r = s
    BY <1>1, <2>1
  <2> QED
    BY <1>3, <2>1, <2>2
<1>8. StackOwnership'
  <2> USE DEF AsyncInv, StackOwnership
  <2>1. \A r \in 1..allocated' :
          \/ Free(r)' \/ InTransit(r)'
          \/ \E u \in Tasks : SavedBy(r, u)' \/ LostBy(r, u)'
    BY <1>1, <1>2, <1>5, <1>7
  <2>2. \A r \in 1..allocated' :
          /\ Free(r)' => ~InTransit(r)' /\ \A u \in Tasks : ~SavedBy(r, u)'
          /\ InTransit(r)' => \A u \in Tasks : ~SavedBy(r, u)'
    BY <1>5, <1>7
  <2>3. \A r, q \in 1..allocated' : \A u \in Tasks :
          LostBy(r, u)' /\ LostBy(q, u)' => r = q
    BY <1>5, <1>7
  <2>4. \A u \in Tasks : pc'[u] = "suspended" =>
          save_stack'[u] # 0 /\ frames'[save_stack'[u]] = u
    BY <1>1, <1>3, <1>5 DEF Stacks
  <2>5. stack' # 0 /\ frames'[stack'] = Last(running')
    BY <1>3, <1>5
  <2>6. \A u, v \in Tasks : save_stack'[u] # 0 /\ save_stack'[u] = save_stack'[v] => u = v
    BY <1>5
  <2> QED
    BY <2>1, <2>2, <2>3, <2>4, <2>5, <2>6
<1> QED
  BY <1>6, <1>8

LEMMA UnwindStacks ==
  ASSUME AsyncInv, NEW t \in Tasks, UnwindToFree(t) \/ UnwindToNew(t)
  PROVE  /\ StackOwnership' /\ FramesKept'
         /\ \E s \in Stacks : StartUnwind(t, s)
         /\ Innermost(t, "import") /\ asyncs < MaxAsync
         /\ stacks' \in Seq(Stacks) /\ allocated' \in 0..MaxStacks
<1> USE MaxStacksAssumption
<1>1. stacks \in Seq(Stacks) /\ allocated \in 0..MaxStacks
  BY DEF AsyncInv, TypeOK
<1>2. IsInjective(stacks)
  BY DEF AsyncInv, StackOwnership
<1>3. CASE UnwindToFree(t)
  <2> DEFINE s == Last(stacks)
  <2>1. /\ stacks # <<>> /\ stacks' = Front(stacks) /\ allocated' = allocated
        /\ StartUnwind(t, s) /\ Innermost(t, "import") /\ asyncs < MaxAsync
    BY <1>3 DEF UnwindToFree
  <2>2. s \in Stacks /\ stacks' \in Seq(Stacks)
    BY <1>1, <2>1, FrontLast
  <2>3. /\ \A r : r \in Range(stacks') <=> r \in Range(stacks) /\ r # s
        /\ IsInjective(stacks') /\ s \in Range(stacks)
    BY <1>1, <1>2, <2>1, FrontRange
  <2>4. frames[s] = Nobody
    BY <2>2, <2>3 DEF AsyncInv, FramesKept, Free
  <2>5. s <= allocated /\ s \in 1..allocated
    BY <1>1, <2>2, <2>3 DEF AsyncInv, FramesKept, Free, Stacks
  <2>6. \A u \in Tasks : save_stack[u] # s
    BY <2>3, <2>5 DEF AsyncInv, StackOwnership, Free, SavedBy
  <2> HIDE DEF s
  <2> QED
    BY <1>1, <2>1, <2>2, <2>3, <2>4, <2>5, <2>6, UnwoundInto
<1>4. CASE UnwindToNew(t)
  <2> DEFINE s == allocated + 1
  <2>1. /\ stacks = <<>> /\ stacks' = stacks /\ allocated' = s /\ allocated < MaxStacks
        /\ StartUnwind(t, s) /\ Innermost(t, "import") /\ asyncs < MaxAsync
    BY <1>4 DEF UnwindToNew
  <2>2. s \in Stacks /\ ~(s <= allocated) /\ allocated' \in 0..MaxStacks
    BY <1>1, <2>1 DEF Stacks
  <2>3. \A r \in Stacks : r <= allocated' <=> r <= allocated \/ r = s
    BY <1>1, <2>1 DEF Stacks
  <2> HIDE DEF s
  <2>4. \A r : r \notin Range(stacks)
    BY <2>1 DEF Range
  <2>5. frames[s] = Nobody /\ \A u \in Tasks : save_stack[u] # s
    BY <2>2 DEF AsyncInv, FramesKept, SavedBy
  <2> QED
    BY <1>1, <1>2, <2>1, <2>2, <2>3, <2>4, <2>5, UnwoundInto
<1> QED
  BY <1>3, <1>4

(* While the innermost export is on its way out or in, its frames are on   *)
(* the stack in transit.                                                   *)
LEMMA TransitFacts ==
  ASSUME AsyncInv, running # <<>>, NEW t \in Tasks, t = Last(running),
         pc[t] \in {"unwinding", "rewinding"}
  PROVE  /\ stack \in Stacks /\ stack \in 1..allocated /\ frames[stack] = t
         /\ stack \notin Range(stacks) /\ \A u \in Tasks : save_stack[u] # stack
         /\ \A u \in Tasks : save_stack[u] \in 0..MaxStacks
         /\ frames \in [Stacks -> Tasks \cup {Nobody}] /\ pc \in [Tasks -> Steps]
         /\ allocated \in 0..MaxStacks /\ save_stack \in [Tasks -> 0..MaxStacks]
         /\ \A r \in 1..allocated : r \in Stacks /\ r # 0
         /\ 0 \notin Stacks
<1> USE MaxStacksAssumption
<1>1. /\ frames \in [Stacks -> Tasks \cup {Nobody}] /\ pc \in [Tasks -> Steps]
      /\ allocated \in 0..MaxStacks /\ save_stack \in [Tasks -> 0..MaxStacks]
      /\ stack \in 0..MaxStacks
  BY DEF AsyncInv, TypeOK
<1>2. state # "None" /\ stack # 0 /\ frames[stack] = t
  BY DEF AsyncInv, SharedVariables, StackOwnership
<1>3. stack \in Stacks /\ 0 \notin Stacks
  BY <1>1, <1>2 DEF Stacks
<1>4. stack <= allocated
  BY <1>3 DEF AsyncInv, FramesKept, InTransit
<1>5. stack \in 1..allocated
  BY <1>1, <1>3, <1>4 DEF Stacks
<1>6. stack \notin Range(stacks) /\ \A u \in Tasks : save_stack[u] # stack
  BY <1>5 DEF AsyncInv, StackOwnership, Free, InTransit, SavedBy
<1>7. \A r \in 1..allocated : r \in Stacks /\ r # 0
  BY <1>1 DEF Stacks
<1> QED
  BY <1>1, <1>2, <1>3, <1>5, <1>6, <1>7

(* The frames are back: their stack is free again.                         *)
LEMMA RewoundStacks ==
  ASSUME AsyncInv, NEW t \in Tasks, StopRewind(t)
  PROVE  StackOwnership' /\ FramesKept' /\ stacks' \in Seq(Stacks)
<1> USE TasksAssumption DEF Nobody
<1>1. /\ running # <<>> /\ t = Last(running) /\ pc[t] = "rewinding"
      /\ stacks' = Append(stacks, stack) /\ frames' = [frames EXCEPT ![stack] = Nobody]
      /\ state' = "None" /\ stack' = 0 /\ pc' = [pc EXCEPT ![t] = "wasm"]
      /\ allocated' = allocated /\ save_stack' = save_stack /\ running' = running
  BY DEF StopRewind, Innermost, Goto
<1>2. stacks \in Seq(Stacks) /\ IsInjective(stacks)
  BY DEF AsyncInv, TypeOK, StackOwnership
<1> USE TransitFacts
<1>3. /\ stacks' \in Seq(Stacks) /\ IsInjective(stacks')
      /\ \A r : r \in Range(stacks') <=> r \in Range(stacks) \/ r = stack
  <2>1. stack \in Stacks /\ stack \notin Range(stacks)
    BY <1>1
  <2>2. stacks' = Append(stacks, stack)
    BY <1>1
  <2>3. stacks' \in Seq(Stacks)
    BY ONLY <1>2, <2>1, <2>2, AppendLast
  <2>4. \A r : r \in Range(Append(stacks, stack)) <=> r \in Range(stacks) \/ r = stack
    BY ONLY <1>2, <2>1, AppendRange
  <2>5. IsInjective(stacks')
    BY ONLY <1>2, <2>1, <2>2, InjectiveAppend
  <2> QED
    BY ONLY <2>2, <2>3, <2>4, <2>5
<1>4. /\ frames'[stack] = Nobody
      /\ \A r \in Stacks : r # stack => frames'[r] = frames[r]
      /\ \A u \in Tasks : pc'[u] = IF u = t THEN "wasm" ELSE pc[u]
  BY <1>1
<1> USE DEF Free, InTransit, SavedBy, LostBy
<1>5. FramesKept'
  <2> USE DEF AsyncInv, FramesKept
  <2>1. \A r \in Stacks : Free(r)' \/ InTransit(r)' \/ (\E u \in Tasks : SavedBy(r, u)') =>
                            r <= allocated'
    BY <1>1, <1>3
  <2>2. \A r \in Stacks : frames'[r] # Nobody => r <= allocated' /\ ~Free(r)'
    BY <1>1, <1>3, <1>4
  <2>3. \A r \in Stacks, u \in Tasks :
          frames'[r] = u => InTransit(r)' \/ SavedBy(r, u)' \/ pc'[u] = "thrown"
    BY <1>1, <1>4
  <2>4. \A r, q \in Stacks : frames'[r] = frames'[q] /\ frames'[q] # Nobody => r = q
    BY <1>1, <1>4
  <2>5. \A u \in Tasks : save_stack'[u] # 0 => pc'[u] = "suspended"
    BY <1>1, <1>4
  <2> QED
    BY <2>1, <2>2, <2>3, <2>4, <2>5
<1>6. StackOwnership'
  <2> USE DEF AsyncInv, StackOwnership
  <2>1. \A r \in 1..allocated' :
          \/ Free(r)' \/ InTransit(r)'
          \/ \E u \in Tasks : SavedBy(r, u)' \/ LostBy(r, u)'
    BY <1>1, <1>3, <1>4
  <2>2. \A r \in 1..allocated' :
          /\ Free(r)' => ~InTransit(r)' /\ \A u \in Tasks : ~SavedBy(r, u)'
          /\ InTransit(r)' => \A u \in Tasks : ~SavedBy(r, u)'
    BY <1>1, <1>3
  <2>3. \A r, q \in 1..allocated' : \A u \in Tasks :
          LostBy(r, u)' /\ LostBy(q, u)' => r = q
    BY <1>1, <1>4
  <2>4. \A u \in Tasks : pc'[u] = "suspended" =>
          save_stack'[u] # 0 /\ frames'[save_stack'[u]] = u
    <3>1. \A u \in Tasks : pc[u] = "suspended" => save_stack[u] \in Stacks
      BY <1>1 DEF Stacks
    <3> QED
      BY <1>1, <1>4, <3>1
  <2>5. \A u, v \in Tasks : save_stack'[u] # 0 /\ save_stack'[u] = save_stack'[v] => u = v
    BY <1>1
  <2> QED
    BY <1>1, <1>3, <2>1, <2>2, <2>3, <2>4, <2>5
<1> QED
  BY <1>3, <1>5, <1>6

(* The frames are out: the export_stub keeps their stack.                  *)
LEMMA SuspendedStacks ==
  ASSUME AsyncInv, NEW t \in Tasks, Suspend(t)
  PROVE  StackOwnership' /\ FramesKept' /\ save_stack' \in [Tasks -> 0..MaxStacks]
<1> USE TasksAssumption DEF Nobody
<1>1. /\ running # <<>> /\ t = Last(running) /\ pc[t] = "unwinding"
      /\ save_stack' = [save_stack EXCEPT ![t] = stack]
      /\ state' = "None" /\ stack' = 0 /\ pc' = [pc EXCEPT ![t] = "suspended"]
      /\ allocated' = allocated /\ stacks' = stacks /\ frames' = frames
  BY DEF Suspend, Innermost, Leave, Goto
<1> USE TransitFacts
<1>2. /\ save_stack' \in [Tasks -> 0..MaxStacks]
      /\ \A u \in Tasks : save_stack'[u] = IF u = t THEN stack ELSE save_stack[u]
      /\ \A u \in Tasks : pc'[u] = IF u = t THEN "suspended" ELSE pc[u]
      /\ save_stack[t] = 0
  <2>1. stack \in 0..MaxStacks
    BY DEF AsyncInv, TypeOK
  <2>2. save_stack[t] = 0
    BY <1>1 DEF AsyncInv, FramesKept
  <2> QED
    BY <1>1, <2>1, <2>2
<1> USE DEF Free, InTransit, SavedBy, LostBy
<1>3. FramesKept'
  <2> USE DEF AsyncInv, FramesKept
  <2>1. \A r \in Stacks : Free(r)' \/ InTransit(r)' \/ (\E u \in Tasks : SavedBy(r, u)') =>
                            r <= allocated'
    BY <1>1, <1>2
  <2>2. \A r \in Stacks, u \in Tasks :
          frames'[r] = u => InTransit(r)' \/ SavedBy(r, u)' \/ pc'[u] = "thrown"
    BY <1>1, <1>2
  <2>3. \A u \in Tasks : save_stack'[u] # 0 => pc'[u] = "suspended"
    BY <1>1, <1>2
  <2> QED
    BY <1>1, <2>1, <2>2, <2>3
<1>4. StackOwnership'
  <2> USE DEF AsyncInv, StackOwnership
  <2>1. \A r \in 1..allocated' :
          \/ Free(r)' \/ InTransit(r)'
          \/ \E u \in Tasks : SavedBy(r, u)' \/ LostBy(r, u)'
    BY <1>1, <1>2
  <2>2. \A r \in 1..allocated' :
          /\ Free(r)' => ~InTransit(r)' /\ \A u \in Tasks : ~SavedBy(r, u)'
          /\ InTransit(r)' => \A u \in Tasks : ~SavedBy(r, u)'
    BY <1>1, <1>2
  <2>3. \A r, q \in 1..allocated' : \A u \in Tasks :
          LostBy(r, u)' /\ LostBy(q, u)' => r = q
    BY <1>1, <1>2
  <2>4. \A u \in Tasks : pc'[u] = "suspended" =>
          save_stack'[u] # 0 /\ frames'[save_stack'[u]] = u
    BY <1>1, <1>2
  <2>5. \A u, v \in Tasks : save_stack'[u] # 0 /\ save_stack'[u] = save_stack'[v] => u = v
    BY <1>1, <1>2
  <2> QED
    BY <1>1, <2>1, <2>2, <2>3, <2>4, <2>5
<1> QED
  BY <1>2, <1>3, <1>4

(* The promise has resolved: the frames go in again.                       *)
LEMMA ResumedStacks ==
  ASSUME AsyncInv, NEW t \in Tasks, Resume(t)
  PROVE  StackOwnership' /\ FramesKept' /\ stack' # 0 /\ Last(running') = t
<1> USE TasksAssumption, MaxStacksAssumption DEF Nobody
<1>1. /\ pc[t] = "suspended" /\ stack' = save_stack[t]
      /\ save_stack' = [save_stack EXCEPT ![t] = 0]
      /\ state' = "Rewinding" /\ running' = <<t>> /\ pc' = [pc EXCEPT ![t] = "rewinding"]
      /\ allocated' = allocated /\ stacks' = stacks /\ frames' = frames
  BY DEF Resume, Goto
<1>2. stack = 0 /\ save_stack[t] # 0 /\ frames[save_stack[t]] = t
  BY <1>1, Quiet DEF Resume, AsyncInv, StackOwnership
<1>3. Last(running') = t
  BY <1>1 DEF Last
<1>4. /\ pc \in [Tasks -> Steps] /\ save_stack \in [Tasks -> 0..MaxStacks]
      /\ allocated \in 0..MaxStacks
  BY DEF AsyncInv, TypeOK
<1>5. /\ \A u \in Tasks : save_stack'[u] = IF u = t THEN 0 ELSE save_stack[u]
      /\ \A u \in Tasks : pc'[u] = IF u = t THEN "rewinding" ELSE pc[u]
  BY <1>1, <1>4
<1>6. /\ 0 \notin Stacks
      /\ \A r \in 1..allocated : r \in Stacks /\ r # 0
  BY <1>4 DEF Stacks
<1> USE DEF Free, InTransit, SavedBy, LostBy
<1>7. FramesKept'
  <2> USE DEF AsyncInv, FramesKept
  <2>1. \A r \in Stacks : Free(r)' \/ InTransit(r)' \/ (\E u \in Tasks : SavedBy(r, u)') =>
                            r <= allocated'
    BY <1>1, <1>5, <1>6
  <2>2. \A r \in Stacks, u \in Tasks :
          frames'[r] = u => InTransit(r)' \/ SavedBy(r, u)' \/ pc'[u] = "thrown"
    BY <1>1, <1>2, <1>5, <1>6
  <2>3. \A u \in Tasks : save_stack'[u] # 0 => pc'[u] = "suspended"
    BY <1>5
  <2> QED
    BY <1>1, <2>1, <2>2, <2>3
<1>8. StackOwnership'
  <2> USE DEF AsyncInv, StackOwnership
  <2>1. \A r \in 1..allocated' :
          \/ Free(r)' \/ InTransit(r)'
          \/ \E u \in Tasks : SavedBy(r, u)' \/ LostBy(r, u)'
    BY <1>1, <1>2, <1>5, <1>6
  <2>2. \A r \in 1..allocated' :
          /\ Free(r)' => ~InTransit(r)' /\ \A u \in Tasks : ~SavedBy(r, u)'
          /\ InTransit(r)' => \A u \in Tasks : ~SavedBy(r, u)'
    BY <1>1, <1>2, <1>5, <1>6
  <2>3. \A r, q \in 1..allocated' : \A u \in Tasks :
          LostBy(r, u)' /\ LostBy(q, u)' => r = q
    BY <1>1, <1>5
  <2>4. \A u \in Tasks : pc'[u] = "suspended" =>
          save_stack'[u] # 0 /\ frames'[save_stack'[u]] = u
    BY <1>1, <1>5
  <2>5. \A u, v \in Tasks : save_stack'[u] # 0 /\ save_stack'[u] = save_stack'[v] => u = v
    BY <1>5
  <2> QED
    BY <1>1, <1>2, <1>3, <2>1, <2>2, <2>3, <2>4, <2>5
<1> QED
  BY <1>1, <1>2, <1>3, <1>7, <1>8

(* The promise was rejected: the stack is lost with the call.              *)
LEMMA RejectedStacks ==
  ASSUME AsyncInv, NEW t \in Tasks, Reject(t)
  PROVE  StackOwnership' /\ FramesKept'
<1> USE TasksAssumption, MaxStacksAssumption DEF Nobody
<1>1. /\ pc[t] = "suspended" /\ save_stack' = [save_stack EXCEPT ![t] = 0]
      /\ pc' = [pc EXCEPT ![t] = "thrown"]
      /\ UNCHANGED <<state, stack, stacks, allocated, frames, running>>
  BY DEF Reject, Goto
<1>2. state = "None" /\ stack = 0 /\ save_stack[t] # 0 /\ frames[save_stack[t]] = t
  BY <1>1, Quiet DEF Reject, AsyncInv, StackOwnership
<1>3. /\ pc \in [Tasks -> Steps] /\ save_stack \in [Tasks -> 0..MaxStacks]
      /\ allocated \in 0..MaxStacks
  BY DEF AsyncInv, TypeOK
<1>4. /\ \A u \in Tasks : save_stack'[u] = IF u = t THEN 0 ELSE save_stack[u]
      /\ \A u \in Tasks : pc'[u] = IF u = t THEN "thrown" ELSE pc[u]
  BY <1>1, <1>3
<1>5. /\ 0 \notin Stacks /\ \A r \in 1..allocated : r \in Stacks /\ r # 0
  BY <1>3 DEF Stacks
<1> USE DEF Free, InTransit, SavedBy, LostBy
<1>6. FramesKept'
  <2> USE DEF AsyncInv, FramesKept
  <2>1. \A r \in Stacks : Free(r)' \/ InTransit(r)' \/ (\E u \in Tasks : SavedBy(r, u)') =>
                            r <= allocated'
    BY <1>1, <1>4, <1>5
  <2>2. \A r \in Stacks, u \in Tasks :
          frames'[r] = u => InTransit(r)' \/ SavedBy(r, u)' \/ pc'[u] = "thrown"
    BY <1>1, <1>4
  <2>3. \A u \in Tasks : save_stack'[u] # 0 => pc'[u] = "suspended"
    BY <1>4
  <2> QED
    BY <1>1, <2>1, <2>2, <2>3
<1>7. StackOwnership'
  <2> USE DEF AsyncInv, StackOwnership
  <2>1. \A r \in 1..allocated' :
          \/ Free(r)' \/ InTransit(r)'
          \/ \E u \in Tasks : SavedBy(r, u)' \/ LostBy(r, u)'
    BY <1>1, <1>2, <1>4, <1>5
  <2>2. \A r \in 1..allocated' :
          /\ Free(r)' => ~InTransit(r)' /\ \A u \in Tasks : ~SavedBy(r, u)'
          /\ InTransit(r)' => \A u \in Tasks : ~SavedBy(r, u)'
    BY <1>1, <1>2, <1>4, <1>5
  <2>3. \A r, q \in 1..allocated' : \A u \in Tasks :
          LostBy(r, u)' /\ LostBy(q, u)' => r = q
    <3>1. \A r, q \in Stacks : frames[r] = t /\ frames[q] = t => r = q
      BY DEF FramesKept
    <3> QED
      BY <1>1, <1>4, <1>5, <3>1
  <2>4. \A u \in Tasks : pc'[u] = "suspended" =>
          save_stack'[u] # 0 /\ frames'[save_stack'[u]] = u
    BY <1>1, <1>4
  <2>5. \A u, v \in Tasks : save_stack'[u] # 0 /\ save_stack'[u] = save_stack'[v] => u = v
    BY <1>4
  <2> QED
    BY <1>1, <1>2, <2>1, <2>2, <2>3, <2>4, <2>5
<1> QED
  BY <1>6, <1>7

-----------------------------------------------------------------------------
(* The inductive step: one lemma for the actions outside of an unwinding   *)
(* or rewinding, one for those that begin or end one.                      *)

LEMMA NextQuiet ==
  ASSUME AsyncInv, NEW t \in Tasks,
         \/ CallExport(t) \/ Return(t) \/ CallImport(t) \/ ImportReturns(t)
         \/ ImportThrows(t) \/ OutOfMemory(t)
  PROVE  AsyncInv'
<1> USE DEF Goto, Innermost, Leave
<1>1. pc \in [Tasks -> Steps] /\ running \in Seq(Tasks) /\ asyncs \in 0..MaxAsync
  BY DEF AsyncInv, TypeOK
<1>2. /\ state = "None"
      /\ \A u \in Tasks : pc[u] \notin {"unwinding", "rewinding"}
  <2>1. running = <<>> \/ pc[Last(running)] \in {"wasm", "import"}
    BY DEF CallExport, Return, CallImport, ImportReturns, ImportThrows, OutOfMemory
  <2> QED
    BY <2>1, Quiet
<1>3. /\ UNCHANGED <<state, stack, stacks, allocated, frames, save_stack, prom>>
      /\ pc[t] \in {"idle", "wasm", "import"}
      /\ value' \in {value, Promise(t)}
      /\ asyncs' \in {asyncs, asyncs + 1} /\ (asyncs' # asyncs => asyncs < MaxAsync)
  BY DEF CallExport, Return, CallImport, ImportReturns, ImportThrows, OutOfMemory
<1>4. PICK step \in {"wasm", "import", "returned", "thrown"} : pc' = [pc EXCEPT ![t] = step]
  BY DEF CallExport, Return, CallImport, ImportReturns, ImportThrows, OutOfMemory
<1>5. Nested' /\ running' \in Seq(Tasks)
  <2>1. CASE CallExport(t)
    BY <1>1, <1>4, <2>1, Entered DEF CallExport, InCall
  <2>2. CASE CallImport(t) \/ ImportReturns(t)
    BY <1>1, <1>4, <2>2, Stayed DEF CallImport, ImportReturns, InCall
  <2>3. CASE Return(t) \/ ImportThrows(t) \/ OutOfMemory(t)
    BY <1>1, <1>4, <2>3, Left DEF Return, ImportThrows, OutOfMemory, InCall, Steps
  <2> QED
    BY <2>1, <2>2, <2>3
<1>6. StackOwnership' /\ FramesKept'
  BY <1>2, <1>3, <1>4, StacksUntouched DEF Steps
<1>7. TypeOK'
  <2>1. pc' \in [Tasks -> Steps]
    BY <1>1, <1>4 DEF Steps
  <2>2. asyncs' \in 0..MaxAsync
    BY <1>1, <1>3, MaxAsyncAssumption
  <2>3. value' \in Values
    BY <1>3 DEF AsyncInv, TypeOK, Values
  <2> QED
    BY <1>3, <1>5, <2>1, <2>2, <2>3 DEF AsyncInv, TypeOK
<1>8. SharedVariables' /\ EnteredOnlyInNone'
  <2>1. \A u \in Tasks : pc'[u] \notin {"unwinding", "rewinding"}
    BY <1>1, <1>2, <1>4
  <2> QED
    BY <1>2, <1>3, <2>1 DEF AsyncInv, SharedVariables, EnteredOnlyInNone
<1> QED
  BY <1>5, <1>6, <1>7, <1>8 DEF AsyncInv

LEMMA NextUnwind ==
  ASSUME AsyncInv, NEW t \in Tasks, UnwindToFree(t) \/ UnwindToNew(t)
  PROVE  AsyncInv'
<1>1. PICK s \in Stacks : StartUnwind(t, s)
  BY UnwindStacks
<1>2. /\ running # <<>> /\ t = Last(running) /\ pc[t] = "import" /\ asyncs < MaxAsync
      /\ stacks' \in Seq(Stacks) /\ allocated' \in 0..MaxStacks
      /\ StackOwnership' /\ FramesKept'
  BY UnwindStacks DEF Innermost
<1>3. /\ value' = Promise(t) /\ prom' = [prom EXCEPT ![t] = "pending"]
      /\ asyncs' = asyncs + 1 /\ stack' = s /\ state' = "Unwinding"
      /\ frames' = [frames EXCEPT ![s] = t] /\ pc' = [pc EXCEPT ![t] = "unwinding"]
      /\ running' = running /\ save_stack' = save_stack
  BY <1>1 DEF StartUnwind, Goto
<1>4. Nested' /\ \A u \in Tasks : u # t => pc'[u] \notin {"unwinding", "rewinding"}
  BY <1>2, <1>3, Stayed DEF InCall
<1>5. pc \in [Tasks -> Steps] /\ pc'[t] = "unwinding" /\ s # 0 /\ s \in 0..MaxStacks
  BY <1>3, MaxStacksAssumption DEF AsyncInv, TypeOK, Stacks
<1>6. TypeOK'
  BY <1>2, <1>3, <1>5, MaxAsyncAssumption DEF AsyncInv, TypeOK, Steps, Values
<1>7. SharedVariables' /\ EnteredOnlyInNone'
  BY <1>2, <1>3, <1>4, <1>5 DEF SharedVariables, EnteredOnlyInNone
<1> QED
  BY <1>2, <1>4, <1>6, <1>7 DEF AsyncInv

LEMMA NextStopRewind ==
  ASSUME AsyncInv, NEW t \in Tasks, StopRewind(t)
  PROVE  AsyncInv'
<1>1. /\ running # <<>> /\ t = Last(running) /\ pc[t] = "rewinding"
      /\ frames' = [frames EXCEPT ![stack] = Nobody]
      /\ state' = "None" /\ stack' = 0 /\ value' = Undefined
      /\ pc' = [pc EXCEPT ![t] = "wasm"]
      /\ UNCHANGED <<allocated, running, save_stack, prom, asyncs>>
  BY DEF StopRewind, Innermost, Goto
<1>2. StackOwnership' /\ FramesKept' /\ stacks' \in Seq(Stacks)
  BY RewoundStacks
<1>3. Nested' /\ \A u \in Tasks : u # t => pc'[u] \notin {"unwinding", "rewinding"}
  BY <1>1, Stayed DEF InCall
<1>4. pc \in [Tasks -> Steps] /\ pc'[t] = "wasm"
  BY <1>1 DEF AsyncInv, TypeOK
<1>5. TypeOK'
  <2>1. value' \in Values /\ stack' \in 0..MaxStacks
    BY <1>1, MaxStacksAssumption DEF Values
  <2>2. frames' \in [Stacks -> Tasks \cup {Nobody}] /\ pc' \in [Tasks -> Steps]
    BY <1>1, <1>4 DEF AsyncInv, TypeOK, Steps
  <2> QED
    BY <1>1, <1>2, <2>1, <2>2 DEF AsyncInv, TypeOK
<1>6. SharedVariables' /\ EnteredOnlyInNone'
  BY <1>1, <1>3, <1>4 DEF SharedVariables, EnteredOnlyInNone
<1> QED
  BY <1>2, <1>3, <1>5, <1>6 DEF AsyncInv

LEMMA NextSuspend ==
  ASSUME AsyncInv, NEW t \in Tasks, Suspend(t)
  PROVE  AsyncInv'
<1>1. /\ running # <<>> /\ t = Last(running)
      /\ state' = "None" /\ stack' = 0 /\ value' = Undefined
      /\ running' = Front(running) /\ pc' = [pc EXCEPT ![t] = "suspended"]
      /\ UNCHANGED <<stacks, allocated, frames, prom, asyncs>>
  BY DEF Suspend, Innermost, Leave, Goto
<1>2. StackOwnership' /\ FramesKept' /\ save_stack' \in [Tasks -> 0..MaxStacks]
  BY SuspendedStacks
<1>3. /\ Nested' /\ running' \in Seq(Tasks)
      /\ \A u \in Tasks : pc'[u] \notin {"unwinding", "rewinding"}
  BY <1>1, Left DEF InCall, Steps
<1>4. TypeOK'
  <2>1. value' \in Values /\ stack' \in 0..MaxStacks
    BY <1>1, MaxStacksAssumption DEF Values
  <2>2. pc' \in [Tasks -> Steps]
    BY <1>1 DEF AsyncInv, TypeOK, Steps
  <2> QED
    BY <1>1, <1>2, <1>3, <2>1, <2>2 DEF AsyncInv, TypeOK
<1>5. SharedVariables' /\ EnteredOnlyInNone'
  BY <1>1, <1>3 DEF SharedVariables, EnteredOnlyInNone
<1> QED
  BY <1>2, <1>3, <1>4, <1>5 DEF AsyncInv

LEMMA NextResume ==
  ASSUME AsyncInv, NEW t \in Tasks, Resume(t)
  PROVE  AsyncInv'
<1>1. /\ running = <<>> /\ pc[t] = "suspended"
      /\ prom' = [prom EXCEPT ![t] = "none"] /\ value' = Result(t)
      /\ stack' = save_stack[t] /\ save_stack' = [save_stack EXCEPT ![t] = 0]
      /\ state' = "Rewinding" /\ running' = <<t>> /\ pc' = [pc EXCEPT ![t] = "rewinding"]
      /\ UNCHANGED <<stacks, allocated, frames, asyncs>>
  BY DEF Resume, Goto
<1>2. StackOwnership' /\ FramesKept' /\ stack' # 0 /\ Last(running') = t
  BY ResumedStacks
<1>3. running' = Append(running, t)
  BY <1>1
<1>4. Nested' /\ running' # <<>> /\ running' \in Seq(Tasks)
  BY <1>1, <1>3, Entered DEF InCall
<1>5. /\ pc \in [Tasks -> Steps] /\ pc'[t] = "rewinding"
      /\ \A u \in Tasks : u # t => pc'[u] \notin {"unwinding", "rewinding"}
  BY <1>1, Quiet DEF AsyncInv, TypeOK
<1>6. TypeOK'
  BY <1>1, <1>4, <1>5, MaxStacksAssumption DEF AsyncInv, TypeOK, Steps, Values
<1>7. SharedVariables' /\ EnteredOnlyInNone'
  BY <1>1, <1>2, <1>4, <1>5 DEF SharedVariables, EnteredOnlyInNone
<1> QED
  BY <1>2, <1>4, <1>6, <1>7 DEF AsyncInv

LEMMA NextReject ==
  ASSUME AsyncInv, NEW t \in Tasks, Reject(t)
  PROVE  AsyncInv'
<1>1. /\ running = <<>> /\ pc[t] = "suspended"
      /\ prom' = [prom EXCEPT ![t] = "none"]
      /\ save_stack' = [save_stack EXCEPT ![t] = 0] /\ pc' = [pc EXCEPT ![t] = "thrown"]
      /\ UNCHANGED <<state, value, stack, stacks, allocated, frames, running, asyncs>>
  BY DEF Reject, Goto
<1>2. StackOwnership' /\ FramesKept'
  BY RejectedStacks
<1>3. pc \in [Tasks -> Steps] /\ \A u \in Tasks : u # t => pc'[u] = pc[u]
  BY <1>1 DEF AsyncInv, TypeOK
<1>4. Nested'
  <2>1. Len(running) = 0
    BY <1>1
  <2> QED
    BY <1>1, <1>3, <2>1 DEF AsyncInv, Nested
<1>5. TypeOK'
  BY <1>1, <1>3, MaxStacksAssumption DEF AsyncInv, TypeOK, Steps
<1>6. SharedVariables' /\ EnteredOnlyInNone'
  BY <1>1, <1>3, Quiet DEF AsyncInv, SharedVariables, EnteredOnlyInNone
<1> QED
  BY <1>2, <1>4, <1>5, <1>6 DEF AsyncInv

LEMMA NextAsyncify == AsyncInv /\ [Next]_vars => AsyncInv'
<1> SUFFICES ASSUME AsyncInv, [Next]_vars PROVE AsyncInv'
  OBVIOUS
<1>1. ASSUME UNCHANGED <<state, value, stack, stacks, allocated, frames, running, pc,
                         save_stack, asyncs>>,
             prom' \in [Tasks -> {"none", "pending", "resolved", "rejected"}]
      PROVE  AsyncInv'
  BY <1>1 DEF AsyncInv, TypeOK, Nested, SharedVariables, EnteredOnlyInNone,
     StackOwnership, FramesKept, Free, InTransit, SavedBy, LostBy
<1>2. CASE UNCHANGED vars
  BY <1>1, <1>2 DEF vars, AsyncInv, TypeOK
<1>3. ASSUME NEW t \in Tasks, Settle(t) PROVE AsyncInv'
  BY <1>1, <1>3 DEF Settle, AsyncInv, TypeOK
<1> QED
  BY <1>2, <1>3, NextQuiet, NextUnwind, NextStopRewind, NextSuspend, NextResume,
     NextReject DEF Next, Progress

THEOREM AsyncInvariant == Spec => []AsyncInv
  BY InitAsyncify, NextAsyncify, PTL DEF Spec

(* Every variable keeps its type: what get_stack hands out and what is     *)
(* pushed on the free list is a stack, also when value and stack have been *)
(* overwritten by other coroutines in the meantime.                        *)
THEOREM AsyncTypes == Spec => []TypeOK
<1>1. AsyncInv => TypeOK
  BY DEF AsyncInv
<1> QED
  BY <1>1, AsyncInvariant, PTL

(* No interleaving and no nesting of coroutines has a stack in two places, *)
(* overwrites frames that are still needed, or loses a stack other than    *)
(* that of a call whose promise was rejected.                              *)
THEOREM StacksOwned == Spec => []StackOwnership
<1>1. AsyncInv => StackOwnership
  BY DEF AsyncInv
<1> QED
  BY <1>1, AsyncInvariant, PTL

(* The "Corruption!" of import_stub is unreachable.                        *)
THEOREM NoCorruption == Spec => []EnteredOnlyInNone
<1>1. AsyncInv => EnteredOnlyInNone
  BY DEF AsyncInv
<1> QED
  BY <1>1, AsyncInvariant, PTL

(* An import gives C the result of its own promise, and an export awaits   *)
(* the promise of its own import, although all share one variable.         *)
THEOREM ResultsReach == Spec => ResultsReachTheirCaller
<1>1. AsyncInv /\ [Next]_vars =>
        [\A t \in Tasks :
           /\ pc[t] = "rewinding" /\ pc'[t] = "wasm" => value = Result(t)
           /\ pc[t] = "unwinding" /\ pc'[t] = "suspended" => value = Promise(t)]_vars
  BY DEF AsyncInv, SharedVariables
<1> QED
  BY <1>1, AsyncInvariant, PTL DEF Spec, ResultsReachTheirCaller
===============================================================================
