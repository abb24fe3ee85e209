------------------------------ MODULE MCCleanup ------------------------------
(***************************************************************************)
(* Finite instances of ServiceCleanup: the version of the service at first *)
(***************************************************************************)
EXTENDS ServiceCleanup

CONSTANTS l1, l2

Reusing1 == [balanced |-> TRUE, lb |-> l1]
Unbalanced == [balanced |-> FALSE, lb |-> NoLB]
=============================================================================
