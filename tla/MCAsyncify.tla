------------------------------ MODULE MCAsyncify ------------------------------
(* Instances of Asyncify for TLC.                                           *)
EXTENDS Asyncify

CONSTANTS t1, t2, t3

ThreeTasks == {t1, t2, t3}
===============================================================================
