------------------------- MODULE MCMediaPublication -------------------------
(* Model checking of MediaPublication on small instances. *)
EXTENDS MediaPublication, TLC

\* Jobs, coordinators and digests are only compared for equality.
PublicationSymmetry ==
    Permutations(Jobs) \cup Permutations(Coordinators) \cup Permutations(Digests)
=============================================================================
