----------------------------- MODULE MCStatements -----------------------------
(* Instances of Statements for TLC.                                         *)
EXTENDS Statements

CONSTANTS q1, q2

TwoQueries == {q1, q2}
===============================================================================
