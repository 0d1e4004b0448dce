----------------------- MODULE MCClientAuthentication -----------------------
(***************************************************************************)
(* ClientAuthentication for TLC: documents and assertions in which each    *)
(* check has something to refuse.                                          *)
(***************************************************************************)
EXTENDS ClientAuthentication, TLC

CONSTANTS cx, cy,     \* clients
          kx, kx2, ky \* two keys of cx, one of cy

Public == [enabled |-> Absent, method |-> Absent, alg |-> Absent, aud |-> Absent,
           keys |-> Absent, sc |-> Absent]
Confidential(keys) == [Public EXCEPT !.method = "private_key_jwt", !.keys = keys]
Dpop(mode) == [method |-> "dpop", mode |-> mode]

MCRegistrations ==
    {Public,
     [Confidential({kx, kx2}) EXCEPT !.sc = Dpop("required")],
     [Public EXCEPT !.enabled = FALSE, !.method = "client_secret_basic"],
     [Confidential({ky}) EXCEPT !.alg = "ES256", !.aud = "elsewhere",
                                !.sc = [method |-> Absent, mode |-> Absent]]}

MCPolicies ==
    {[default_client |-> Dpop("required"), anonymous_client |-> Dpop("optional")],
     [default_client |-> [method |-> "none", mode |-> Absent], anonymous_client |-> Absent]}

MCMetadata == {[anonymous |-> TRUE, pkjwt |-> TRUE, algs |-> {"ES256", "ES384"}]}

\* The registered keys of cx name their alg.
MCKeyAlg == [k \in Keys |-> IF k = ky THEN Absent ELSE "ES256"]

Good == [jwt |-> TRUE, iss |-> cx, sub |-> cx, signer |-> kx, kid |-> kx, alg |-> "ES256",
         aud |-> "here", claims |-> TRUE, bearer |-> TRUE]
MCAssertions ==
    {Good,
     [Good EXCEPT !.signer = ky, !.sub = cy],
     [Good EXCEPT !.signer = kx2, !.kid = kx2, !.alg = "ES384"],
     [Good EXCEPT !.iss = cy, !.sub = cy, !.signer = ky, !.kid = Absent, !.aud = "elsewhere"]}

=============================================================================
