------------------------------ MODULE MCFileLock ------------------------------
(* Instances of FileLock for TLC.                                           *)
EXTENDS FileLock

CONSTANTS f1, f2, f3

TwoFiles == {f1, f2}
ThreeFiles == {f1, f2, f3}
(* Each file has a connection of its own, or two have the same one.        *)
Apart == [f \in Files |-> f]
ApartOrAttached == {Apart, [Apart EXCEPT ![f2] = f1]}
AllApart == {Apart}
Synced == {"sync"}
AnyCommit == {"sync", "atomic"}
===============================================================================
