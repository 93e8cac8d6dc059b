------------------------------- MODULE MCFileIO -------------------------------
(* Instances of FileIO for TLC.                                            *)
EXTENDS FileIO

CONSTANTS d1, d2

TwoValues == {d1, d2}
AnyRejection == {"createWritable", "write", "truncate", "close"}
===============================================================================
