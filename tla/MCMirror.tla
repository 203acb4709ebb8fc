------------------------------ MODULE MCMirror ------------------------------
(* Mirror for TLC: two folders, with an item id in each or both in the inbox. *)
EXTENDS Mirror, TLC

CONSTANTS i1, i2, f1, f2

MCHome == (i1 :> f1) @@ (i2 :> f2)
MCOneFolder == [i \in {i1, i2} |-> f1]
=============================================================================
