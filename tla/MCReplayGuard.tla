--------------------------- MODULE MCReplayGuard ----------------------------
(* Instances of ReplayGuard for TLC. *)
EXTENDS ReplayGuard, TLC

\* Requests are interchangeable: no definition names one of them.
RequestSymmetry == Permutations(Requests)

=============================================================================
