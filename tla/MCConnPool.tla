------------------------------ MODULE MCConnPool ------------------------------
(* Instances of ConnPool for TLC.                                           *)
EXTENDS ConnPool

CONSTANTS c1, c2, c3, c4

AllCalls == {c1, c2, c3, c4}
AnyFailure == {"engine", "initialized", "open", "init", "rollback"}
AnyOption == {"function", "pending", "fulfilled"}
AnyDelay == {-1, 0, 1}
(* No call is made by a func; two are, one in the other, or in two others. *)
SomeNestings ==
  {[t \in AllCalls |-> Nobody],
   [t \in AllCalls |-> CASE t = c3 -> c1 [] t = c4 -> c3 [] OTHER -> Nobody],
   [t \in AllCalls |-> CASE t = c3 -> c1 [] t = c4 -> c2 [] OTHER -> Nobody]}
===============================================================================
