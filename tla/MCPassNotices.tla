--------------------------- MODULE MCPassNotices ---------------------------
(* Model checking of PassNotices. *)
EXTENDS PassNotices, TLC

\* Identifiers of rows and mailers are compared for equality only.
NoticeSymmetry == Permutations(Requests) \cup Permutations(Mailers)
=============================================================================
