-------------------------- MODULE MCVerifierIdentity --------------------------
(***************************************************************************)
(* VerifierIdentity for TLC.                                               *)
(***************************************************************************)
EXTENDS VerifierIdentity, TLC

CONSTANTS r1, r2, r3

Symmetry == Permutations({r1, r2, r3})

=============================================================================
