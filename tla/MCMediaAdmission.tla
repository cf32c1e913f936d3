-------------------------- MODULE MCMediaAdmission --------------------------
(* Model checking of MediaAdmission: two clients compete for one place. *)
EXTENDS MediaAdmission, TLC
=============================================================================
