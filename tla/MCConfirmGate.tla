--------------------------- MODULE MCConfirmGate ---------------------------
(***************************************************************************)
(* ConfirmGate for model checking: calls and contents are interchangeable. *)
(***************************************************************************)
EXTENDS ConfirmGate, TLC

MCSymmetry == Permutations(Calls) \cup Permutations(Contents)

=============================================================================
