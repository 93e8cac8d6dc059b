-------------------------------- MODULE Lending --------------------------------
(***************************************************************************)
(* What a connection pool promises: a fixed stock of slots is turned into  *)
(* resources on demand; a resource is idle, or lent to one call, or gone.  *)
(* A call holds at most one resource, a resource goes straight from one    *)
(* call to another only when the second holds nothing, and a resource that *)
(* is gone never comes back.                                               *)
(***************************************************************************)
CONSTANTS Slots, Calls

VARIABLES
  made,       \* the slots in use, never given up
  free,       \* the idle resources
  holders     \* the calls each resource is lent to

vars == <<made, free, holders>>

EmptyHanded(t) == \A s \in Slots : t \notin holders[s]

Init ==
  /\ made = {}
  /\ free = {}
  /\ holders = [s \in Slots |-> {}]

Make(s, t) ==
  /\ s \notin made
  /\ EmptyHanded(t)
  /\ made' = made \cup {s}
  /\ holders' = [holders EXCEPT ![s] = {t}]
  /\ UNCHANGED free

Take(s, t) ==
  /\ s \in free
  /\ EmptyHanded(t)
  /\ free' = free \ {s}
  /\ holders' = [holders EXCEPT ![s] = {t}]
  /\ UNCHANGED made

GiveBack(s, t) ==
  /\ holders[s] = {t}
  /\ holders' = [holders EXCEPT ![s] = {}]
  /\ free' = free \cup {s}
  /\ UNCHANGED made

PassOn(s, t, u) ==
  /\ holders[s] = {t}
  /\ EmptyHanded(u)
  /\ holders' = [holders EXCEPT ![s] = {u}]
  /\ UNCHANGED <<made, free>>

Lose(s, t) ==
  /\ holders[s] = {t}
  /\ holders' = [holders EXCEPT ![s] = {}]
  /\ UNCHANGED <<made, free>>

Next ==
  \E s \in Slots, t \in Calls :
    \/ Make(s, t) \/ Take(s, t) \/ GiveBack(s, t) \/ Lose(s, t)
    \/ \E u \in Calls : PassOn(s, t, u)

Spec == Init /\ [][Next]_vars
===============================================================================
