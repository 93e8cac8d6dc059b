------------------------------- MODULE SqliteLock -------------------------------
(***************************************************************************)
(* What SQLite needs of a database file (vendor/sqlite3.h, xLock and       *)
(* xUnlock): NONE = 0, SHARED = 1, RESERVED = 2, EXCLUSIVE = 4.  Any number*)
(* of readers, one of them at most with an intent to write, and one writer *)
(* that has the file for itself.  version counts the committed writes.     *)
(***************************************************************************)
EXTENDS Naturals

CONSTANT Files

VARIABLES level, version

vars == <<level, version>>

Compatible(a, b) ==
  \/ a = 0 \/ b = 0
  \/ a = 1 /\ b \in {1, 2}
  \/ a = 2 /\ b = 1

Init == level = [f \in Files |-> 0] /\ version = 0

Lock(f, l) ==
  /\ l > level[f]
  /\ level[f] = 0 => l = 1
  /\ \A g \in Files \ {f} : Compatible(l, level[g])
  /\ level' = [level EXCEPT ![f] = l]
  /\ UNCHANGED version

Unlock(f, l) ==
  /\ l < level[f]
  /\ level' = [level EXCEPT ![f] = l]
  /\ UNCHANGED version

Write(f) ==
  /\ level[f] = 4
  /\ version' = version + 1
  /\ UNCHANGED level

Next ==
  \E f \in Files : \/ \E l \in {1, 2, 4} : Lock(f, l)
                   \/ \E l \in {0, 1} : Unlock(f, l)
                   \/ Write(f)

Spec == Init /\ [][Next]_vars
===============================================================================
