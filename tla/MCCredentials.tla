---------------------------- MODULE MCCredentials ----------------------------
(***************************************************************************)
(* Credentials for TLC.                                                    *)
(***************************************************************************)
EXTENDS Credentials, TLC

CONSTANTS h1, h2,   \* keys of two wallets
          hd,       \* an EdDSA key
          q1, q2,   \* credential queries
          name      \* a claim

JwtVc == [format |-> "jwt_vc_json", bindings |-> {"did"}, algs |-> Absent, claims |-> {name},
          mandatory |-> {name}]
SdJwt == [JwtVc EXCEPT !.format = "dc+sd-jwt", !.bindings = {"jwk", "did"},
                       !.algs = {"ES256"}, !.mandatory = {}]

MCHolderAlg == h1 :> "ES256" @@ h2 :> "ES256" @@ hd :> "EdDSA"

MCRegistrations ==
    {{JwtVc},
     {[JwtVc EXCEPT !.algs = {"ES256", "ES384"}], SdJwt,
      [SdJwt EXCEPT !.bindings = Absent, !.mandatory = {name}, !.algs = {"ES256", "ES384"}]}}

Cert == [key |-> h1, subject |-> "leaf", issuer |-> "ca", signer |-> h2, current |-> TRUE]
Ca   == [key |-> h2, subject |-> "ca", issuer |-> "ca", signer |-> h2, current |-> TRUE]

Proof(refs, chain, k, signer) ==
    [refs |-> refs, names |-> k, chain |-> chain, signer |-> signer, fits |-> TRUE, earlier |-> TRUE]

MCProofs ==
    {Proof({m}, <<>>, h1, s) : m \in {"kid", "jwk"}, s \in {h1, h2}} \cup
    {Proof({m}, <<>>, hd, hd) : m \in {"kid", "jwk"}} \cup
    {Proof({"x5c"}, c, h1, s) : c \in {<<Cert, Ca>>, <<Cert, [Ca EXCEPT !.signer = h1]>>, <<Cert, Cert>>},
                                s \in {h1, h2}} \cup
    {Proof({"kid", "jwk"}, <<>>, h1, h1),
     [Proof({"kid"}, <<>>, h1, h1) EXCEPT !.fits = FALSE],
     [Proof({"jwk"}, <<>>, h1, h1) EXCEPT !.earlier = FALSE]}

Query(f1, f2, c2, req, sets, algs, kbAlgs) ==
    [format |-> (q1 :> f1 @@ q2 :> f2), claims |-> (q1 :> {} @@ q2 :> c2), required |-> req,
     sets |-> sets, algs |-> ("jwt_vc_json" :> algs @@ "dc+sd-jwt" :> algs), kbAlgs |-> kbAlgs]

MCTransactions ==
    {Query("jwt_vc_json", "dc+sd-jwt", {name}, {}, FALSE, Absent,
           {"ES256", "ES384"}),
     Query("dc+sd-jwt", "jwt_vc_json", {}, {{{q1}, {q2}}, {{q1}}}, TRUE, {"ES256"}, Absent)}

\* Forgeries, and credentials of another issuer, whose key is h2.
Forged == [format |-> "jwt_vc_json", alg |-> "ES256", kid |-> [alg |-> "ES256", version |-> 1],
           signer |-> h2, iss |-> "issuer", x5c |-> FALSE, vc |-> TRUE, holder |-> h2,
           claims |-> {}, prover |-> NoKey]
MCForeign ==
    {[Forged EXCEPT !.vc = FALSE],
     Forged,
     [Forged EXCEPT !.iss = "other", !.holder = h1],
     [Forged EXCEPT !.format = "dc+sd-jwt", !.claims = {name}],
     [Forged EXCEPT !.format = "dc+sd-jwt", !.claims = {name}, !.x5c = TRUE, !.kid = h2,
                     !.vc = FALSE]}
MCOtherKeys == <<h2>>

=============================================================================
