--------------------------- MODULE MigrationOrder ---------------------------
(* What running the migrations promises: the numbers of the scripts are      *)
(* completed one after the other, in increasing order, none passed over and  *)
(* none taken back, and all of them unless something blocks the next one.    *)
EXTENDS Integers

VARIABLES numbers,  \* the numbers of the scripts that exist
          done,     \* the highest completed number
          blocked   \* the next script cannot succeed

orderVars == <<numbers, done, blocked>>

Later == {n \in numbers : n > done}

Init == numbers \subseteq Nat /\ done = 0 /\ blocked \in BOOLEAN

CompleteNext ==
    /\ Later # {}
    /\ done' \in Later /\ \A n \in Later : done' <= n
    /\ blocked' \in BOOLEAN /\ UNCHANGED numbers

Disturb == blocked' = ~blocked /\ UNCHANGED <<numbers, done>>

Next == CompleteNext \/ Disturb

Spec == Init /\ [][Next]_orderVars /\ WF_orderVars(~blocked /\ CompleteNext)
=============================================================================
