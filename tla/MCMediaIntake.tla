--------------------------- MODULE MCMediaIntake ---------------------------
(* Model checking of MediaIntake on a small quarantine. *)
EXTENDS MediaIntake, TLC

\* Identifiers and receivers are compared for equality only.
IntakeSymmetry == Permutations(Jobs) \cup Permutations(Receivers)
=============================================================================
