----------------------------- MODULE MCIssuance -----------------------------
(***************************************************************************)
(* Issuance for TLC.                                                       *)
(***************************************************************************)
EXTENDS Issuance, TLC

\* Codes and configurations are left out: Init chooses one of each.
IssuanceSymmetry ==
    UNION {Permutations(S) : S \in {Nonces, Keys, TokenRequests, CredentialRequests}}

\* No nonce expires or is revoked by an operator.
UnexpiredSpec == Init /\ [][Next /\ ~\E n \in Nonces : RevokeNonce(n)]_vars

\* README.md of issuer+verifier says of the c_nonce of POST /nonce, in line 155, that
\* "a single nonce can be reused within its validity period": a credential request
\* that has used one leaves it in the store, where nothing else takes it out.
CNonceReusable == \A n \in spentCNonce : n \in nonces \/ dpopUse[n] # {}

=============================================================================
