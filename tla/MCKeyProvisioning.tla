-------------------------- MODULE MCKeyProvisioning --------------------------
(***************************************************************************)
(* KeyProvisioning for TLC.                                                *)
(***************************************************************************)
EXTENDS KeyProvisioning, TLC

\* Nothing tells registrations or algorithms apart.
ProvisioningSymmetry == Permutations(Calls) \cup Permutations(Algs)

=============================================================================
