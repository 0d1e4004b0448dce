--------------------------- MODULE IssuanceProofs ---------------------------
(***************************************************************************)
(* Proofs about Issuance, for any numbers of requests, codes, nonces, keys *)
(* and clients, any DPoP policy that changes at any time and any body:     *)
(* one grant, one token; one proof, one use; every credential goes back to *)
(* an offer; a spent c_nonce stays spent once its deletion has spread.     *)
(***************************************************************************)
EXTENDS Issuance, TLAPS

\* The request was let in and has not been refused.
Running(r) == pc[r] \notin {"idle", "done"}
Admitted(r) == Running(r) \/ reply[r] = "ok"

\* The DPoP proof of r carries a nonce ...
HasNonce(r) == req[r].proof \in DpopProofs /\ req[r].proof.nonce \in Nonces

\* ... which r took out of the nonce store.
UsedNonce(r) == HasNonce(r) /\ r \in dpopUse[req[r].proof.nonce]

\* A nonce that was consumed or spent was made and is gone for good.
NonceInv ==
    /\ \A n \in Nonces : dpopUse[n] # {} => n \in made /\ n \notin nonces
    /\ \A n \in Nonces : \A r1, r2 \in dpopUse[n] : r1 = r2
    /\ \A n \in spentCNonce : n \in made /\ n \notin nonces

\* A code that was redeemed had been offered, is gone for good, and was
\* redeemed by one request.
CodeInv ==
    /\ \A c \in Codes : winners[c] # {} => c \notin live /\ offered[c] # {}
    /\ \A c \in Codes : \A r1, r2 \in winners[c] : r1 = r2

\* A token is known to the stores only if it was sent, with the configurations
\* of the offer its code came from.
TokenInv ==
    /\ \A t \in valid : reply[t] = "ok"
    /\ \A t \in TokenRequests : allowed[t] # {} =>
          reply[t] = "ok" /\ allowed[t] \subseteq offered[req[t].code]

\* Of the requests let in with an assertion there is one, and it is recorded.
AssertedInv ==
    /\ \A t \in TokenRequests :
          Admitted(t) /\ req[t].auth \in Assertions => req[t].auth \in asserted
    /\ \A t1, t2 \in TokenRequests :
          /\ Admitted(t1) /\ Admitted(t2)
          /\ req[t1].auth = req[t2].auth /\ req[t1].auth \in Assertions
          => t1 = t2

\* What a token request knows about itself, by how far it has come.
TokenRequestInv(r) ==
    /\ pc[r] \in {"idle", "mode", "nonce", "challenge", "jti", "code", "sign",
                  "entry", "done"}
    /\ reply[r] = "ok" => pc[r] = "done"
    /\ pc[r] \in {"idle", "mode"} => req[r].cnf = NoKey
    /\ pc[r] = "nonce" => HasNonce(r)
    /\ pc[r] = "jti" => UsedNonce(r)
    /\ pc[r] \in {"code", "sign", "entry"} \/ reply[r] = "ok" =>
          req[r].cnf = NoKey \/ UsedNonce(r)
    /\ pc[r] \in {"sign", "entry"} \/ reply[r] = "ok" => r \in winners[req[r].code]

\* The request presented token t properly.
Presented(r) ==
    LET t == req[r].token
    IN  /\ t \in TokenRequests /\ reply[t] = "ok"
        /\ req[r].scheme = "bearer" => req[t].cnf = NoKey
        /\ req[r].scheme = "dpop" => req[r].proof # NoProof /\ req[r].proof.ath = t

\* Its DPoP proof, if it needs one, is made with the token's key.
ProofBound(r) ==
    req[r].scheme = "dpop" =>
        UsedNonce(r) /\ req[r].proof.key = req[req[r].token].cnf

\* What a credential request knows about itself, by how far it has come.
CredentialRequestInv(r) ==
    /\ pc[r] \in {"idle", "nonce", "challenge", "jti", "body", "validate", "revoke",
                  "create", "done"}
    /\ reply[r] = "ok" => pc[r] = "done"
    /\ Admitted(r) => Presented(r)
    /\ pc[r] \in {"nonce", "jti"} => req[r].scheme = "dpop"
    /\ pc[r] = "nonce" => HasNonce(r)
    /\ pc[r] = "jti" => UsedNonce(r)
    /\ pc[r] \in {"body", "validate", "revoke", "create"} \/ reply[r] = "ok" =>
          ProofBound(r)
    /\ pc[r] \in {"validate", "revoke", "create"} \/ reply[r] = "ok" =>
          req[r].config \in offered[req[req[r].token].code]

\* The key proofs of r: their nonces were handed out; those that were spent, on
\* every replica, when it began are so for good and are not what it was let
\* through with.
KeyProofInv(r) ==
    /\ req[r].todo \in Seq(made)
    /\ req[r].stale \subseteq spentCNonce \ lingering
    /\ pc[r] = "idle" => req[r].used = {}
    /\ pc[r] \in {"validate", "revoke"} => req[r].todo # <<>>
    /\ req[r].used \cap req[r].stale = {}
    /\ pc[r] = "revoke" => Head(req[r].todo) \notin req[r].stale

RequestInv(r) ==
    /\ r \in TokenRequests => TokenRequestInv(r)
    /\ r \in CredentialRequests => CredentialRequestInv(r) /\ KeyProofInv(r)

IInv ==
    /\ TypeOK
    /\ NonceInv
    /\ CodeInv
    /\ TokenInv
    /\ AssertedInv
    /\ \A r \in Requests : RequestInv(r)

-----------------------------------------------------------------------------
(* Frames *)

\* The types of what a request keeps about itself.
RequestTypes ==
    /\ pc \in [Requests -> Labels]
    /\ req \in [Requests -> Args]
    /\ reply \in [Requests -> Answers]

\* A step leaves request q alone.
Kept(q) == pc'[q] = pc[q] /\ req'[q] = req[q] /\ reply'[q] = reply[q]

\* What no step takes back: nonces made, consumed and spent, assertions
\* recorded, codes offered and redeemed.  Only a nonce that is there can linger.
Grows ==
    /\ lingering' \subseteq lingering \cup nonces
    /\ made \subseteq made'
    /\ asserted \subseteq asserted'
    /\ spentCNonce \subseteq spentCNonce'
    /\ \A n \in Nonces : dpopUse[n] \subseteq dpopUse'[n]
    /\ \A c \in Codes : winners[c] \subseteq winners'[c] /\ offered[c] \subseteq offered'[c]

\* Tokens and entries of the allowed-configuration store only disappear.
TokensShrink ==
    /\ valid' \subseteq valid
    /\ \A t \in TokenRequests : allowed'[t] \subseteq allowed[t]

\* The arguments of a request that has none are arguments.
LEMMA NoArgsType == NoArgs \in Args
  <1>1. /\ (CHOOSE a \in Clients : TRUE) \in Clients
        /\ (CHOOSE c \in Codes : TRUE) \in Codes
        /\ (CHOOSE g \in Configs : TRUE) \in Configs
    BY IssuanceAssumption
  <1>2. <<>> \in Seq(Nonces)
    OBVIOUS
  <1>3. QED
    BY <1>1, <1>2 DEF NoArgs, Args

\* A request that a step leaves alone, with the answered token requests, knows
\* what it knew: everything it relies on only grows.
LEMMA KeptRequest ==
    ASSUME IInv, Grows, NEW q \in Requests, Kept(q),
           \A t \in TokenRequests : reply[t] = "ok" => Kept(t)
    PROVE  RequestInv(q)'
  <1>1. /\ req[q] \in Args
        /\ HasNonce(q) => HasNonce(q)'
        /\ UsedNonce(q) => UsedNonce(q)'
    BY DEF IInv, TypeOK, Kept, Grows, HasNonce, UsedNonce
  <1>2. CASE q \in TokenRequests
    <2>1. TokenRequestInv(q)
      BY <1>2 DEF IInv, RequestInv
    <2>2. q \in winners[req[q].code] => q \in winners'[req[q].code]
      BY <1>1 DEF Grows, Args
    <2>3. TokenRequestInv(q)'
      BY <1>1, <2>1, <2>2 DEF TokenRequestInv, Kept
    <2>4. QED
      BY <1>2, <2>3, IssuanceAssumption DEF RequestInv
  <1>3. CASE q \in CredentialRequests
    <2>1. CredentialRequestInv(q) /\ KeyProofInv(q)
      BY <1>3 DEF IInv, RequestInv
    <2>2. Presented(q) => Presented(q)' /\ Kept(req[q].token)
      BY DEF Presented, Kept
    <2>3. Presented(q) /\ ProofBound(q) => ProofBound(q)'
      BY <1>1, <2>2 DEF ProofBound, Kept
    <2>4. ASSUME Presented(q), req[q].config \in offered[req[req[q].token].code]
          PROVE  req'[q].config \in offered'[req'[req'[q].token].code]
      <3>1. req[q].token \in TokenRequests /\ Kept(req[q].token)
        BY <2>2, <2>4 DEF Presented
      <3>2. req[req[q].token].code \in Codes
        BY <3>1 DEF IInv, TypeOK, Requests, Args
      <3>3. QED
        BY <2>4, <3>1, <3>2 DEF Grows, Kept
    <2>5. Running(q) \/ reply[q] = "ok" => Presented(q)
      BY <2>1 DEF CredentialRequestInv, Admitted
    <2>6. CredentialRequestInv(q)'
      BY <1>1, <2>1, <2>2, <2>3, <2>4, <2>5
         DEF CredentialRequestInv, Kept, Admitted, Running
    <2>7. KeyProofInv(q)'
      <3>1. spentCNonce \cap nonces = {}
        BY DEF IInv, NonceInv
      <3>2. spentCNonce \ lingering \subseteq spentCNonce' \ lingering'
        BY <3>1 DEF Grows
      <3>3. QED
        BY <2>1, <3>2 DEF KeyProofInv, Kept, Grows
    <2>8. QED
      BY <1>3, <2>6, <2>7, IssuanceAssumption DEF RequestInv
  <1>4. QED
    BY <1>2, <1>3 DEF Requests

\* A step of request r that lets no client in leaves what concerns the assertions
\* and the other requests as it was.
LEMMA Framed ==
    ASSUME IInv, Grows, NEW r \in Requests, pc[r] # "done",
           \A q \in Requests \ {r} : Kept(q),
           r \in TokenRequests /\ Admitted(r)' => Admitted(r) /\ req'[r].auth = req[r].auth
    PROVE  /\ \A t \in TokenRequests : reply[t] = "ok" => Kept(t)
           /\ AssertedInv'
           /\ \A q \in Requests \ {r} : RequestInv(q)'
  <1>1. \A t \in TokenRequests : reply[t] = "ok" => Kept(t)
    BY DEF IInv, RequestInv, Requests, TokenRequestInv
  <1>2. AssertedInv'
    <2>1. \A t \in TokenRequests :
             Admitted(t)' => Admitted(t) /\ req'[t].auth = req[t].auth
      BY DEF Admitted, Running, Kept, Requests
    <2>2. AssertedInv /\ asserted \subseteq asserted'
      BY DEF IInv, Grows
    <2>3. QED
      BY <2>1, <2>2 DEF AssertedInv
  <1>3. \A q \in Requests \ {r} : RequestInv(q)'
    BY <1>1, KeptRequest
  <1>4. QED
    BY <1>1, <1>2, <1>3

\* Where no token is handed out, what the stores know of tokens stays true.
LEMMA TokensKept ==
    ASSUME IInv, Grows, TokensShrink,
           \A t \in TokenRequests : reply[t] = "ok" => Kept(t)
    PROVE  TokenInv'
  <1>1. \A t \in TokenRequests : req[t].code \in Codes
    BY DEF IInv, TypeOK, Requests, Args
  <1>2. valid \subseteq TokenRequests
    BY DEF IInv, TypeOK
  <1>3. QED
    BY <1>1, <1>2 DEF IInv, TokenInv, TokensShrink, Grows, Kept

\* A request that is refused, or fails, relies on nothing any more.
LEMMA Refused ==
    ASSUME IInv, NEW r \in Requests, pc[r] # "done",
           NEW a \in Answers \ {"ok"}, Refuse(r, a)
    PROVE  /\ RequestTypes'
           /\ \A q \in Requests \ {r} : Kept(q)
           /\ ~Admitted(r)'
           /\ RequestInv(r)'
  <1>1. /\ pc' = [pc EXCEPT ![r] = "done"]
        /\ reply' = [reply EXCEPT ![r] = a]
        /\ req' = [req EXCEPT ![r] = NoArgs]
    BY DEF Refuse, Answer
  <1>2. RequestTypes
    BY DEF IInv, TypeOK, RequestTypes
  <1>3. RequestTypes'
    BY <1>1, <1>2, NoArgsType DEF RequestTypes, Labels
  <1>4. pc'[r] = "done" /\ reply'[r] = a /\ req'[r] = NoArgs /\ a # "ok"
    BY <1>1, <1>2 DEF RequestTypes
  <1>5. \A q \in Requests \ {r} : Kept(q)
    BY <1>1, <1>2 DEF RequestTypes, Kept
  <1>6. TokenRequestInv(r)' /\ CredentialRequestInv(r)' /\ ~Admitted(r)'
    BY <1>4 DEF TokenRequestInv, CredentialRequestInv, Admitted, Running
  <1>7. KeyProofInv(r)'
    <2>1. NoArgs.todo = <<>> /\ NoArgs.stale = {} /\ NoArgs.used = {}
      BY DEF NoArgs
    <2>2. QED
      BY <1>4, <2>1 DEF KeyProofInv
  <1>8. QED
    BY <1>3, <1>5, <1>6, <1>7 DEF RequestInv

\* A request that goes on keeps its arguments.
LEMMA Proceeded ==
    ASSUME IInv, NEW r \in Requests, Running(r),
           NEW l \in Labels \ {"idle", "done"}, Proceed(r, l)
    PROVE  /\ RequestTypes'
           /\ \A q \in Requests \ {r} : Kept(q)
           /\ Admitted(r)' => Admitted(r) /\ req'[r].auth = req[r].auth
           /\ pc'[r] = l /\ req' = req /\ reply' = reply /\ reply[r] # "ok"
  <1>1. pc' = [pc EXCEPT ![r] = l] /\ reply' = reply /\ req' = req
    BY DEF Proceed, Goto
  <1>2. RequestTypes
    BY DEF IInv, TypeOK, RequestTypes
  <1>3. RequestTypes' /\ pc'[r] = l /\ \A q \in Requests \ {r} : Kept(q)
    BY <1>1, <1>2 DEF RequestTypes, Kept
  <1>4. reply[r] # "ok"
    BY DEF IInv, RequestInv, Requests, TokenRequestInv, CredentialRequestInv, Running
  <1>5. QED
    BY <1>1, <1>3, <1>4 DEF Admitted

\* The types of the stores and of the histories.
StoreTypes ==
    /\ offered \in [Codes -> SUBSET Configs]
    /\ live \subseteq {c \in Codes : offered[c] # {}}
    /\ lingering \subseteq made
    /\ mode \in [Kinds -> Modes]
    /\ made \subseteq Nonces /\ nonces \subseteq made
    /\ jtis \subseteq Keys \X Jtis
    /\ asserted \subseteq Assertions
    /\ valid \subseteq TokenRequests
    /\ allowed \in [TokenRequests -> SUBSET Configs]
    /\ dpopUse \in [Nonces -> SUBSET Requests]
    /\ winners \in [Codes -> SUBSET TokenRequests]
    /\ spentCNonce \subseteq Nonces

\* The invariant after a step of one request, from what the step did to the
\* stores and to the request.
LEMMA StepOf ==
    ASSUME IInv, NEW r \in Requests, pc[r] # "done",
           \A q \in Requests \ {r} : Kept(q),
           r \in TokenRequests /\ Admitted(r)' => Admitted(r) /\ req'[r].auth = req[r].auth,
           RequestTypes', RequestInv(r)',
           Grows, TokensShrink, StoreTypes', NonceInv', CodeInv'
    PROVE  IInv'
  <1>1. TypeOK'
    BY DEF TypeOK, RequestTypes, StoreTypes
  <1>2. /\ \A t \in TokenRequests : reply[t] = "ok" => Kept(t)
        /\ AssertedInv' /\ \A q \in Requests \ {r} : RequestInv(q)'
    BY Framed
  <1>3. TokenInv'
    BY <1>2, TokensKept
  <1>4. QED
    BY <1>1, <1>2, <1>3 DEF IInv

\* The same when the step reads the stores only.
LEMMA ReadingStep ==
    ASSUME IInv, NEW r \in Requests, pc[r] # "done",
           \A q \in Requests \ {r} : Kept(q),
           r \in TokenRequests /\ Admitted(r)' => Admitted(r) /\ req'[r].auth = req[r].auth,
           RequestTypes', RequestInv(r)',
           UNCHANGED <<storeVars, histVars>>
    PROVE  IInv'
  <1>1. Grows /\ TokensShrink
    BY DEF Grows, TokensShrink, storeVars, histVars
  <1>2. StoreTypes /\ NonceInv /\ CodeInv
    BY DEF IInv, TypeOK, StoreTypes
  <1>3. StoreTypes' /\ NonceInv' /\ CodeInv'
    BY <1>2 DEF StoreTypes, NonceInv, CodeInv, storeVars, histVars
  <1>4. QED
    BY <1>1, <1>3, StepOf

\* A refusal that writes nothing.
LEMMA RefusalStep ==
    ASSUME IInv, NEW r \in Requests, pc[r] # "done",
           NEW a \in Answers \ {"ok"}, Refuse(r, a),
           UNCHANGED <<storeVars, histVars>>
    PROVE  IInv'
  <1>1. /\ RequestTypes' /\ RequestInv(r)'
        /\ \A q \in Requests \ {r} : Kept(q)
        /\ ~Admitted(r)'
    BY Refused
  <1>2. QED
    BY <1>1, ReadingStep

-----------------------------------------------------------------------------
(* The environment *)

\* No request takes part.
LEMMA EnvironmentStep ==
    ASSUME IInv, Environment
    PROVE  IInv'
  <1>1. UNCHANGED <<pc, req, reply>> /\ Grows /\ TokensShrink
    <2>1. /\ UNCHANGED <<pc, req, reply, asserted, dpopUse, winners, spentCNonce>>
          /\ lingering' \subseteq lingering \cup nonces
      BY DEF Environment, WithdrawCode, Offer, SetPolicy, CreateNonce, RevokeNonce,
             CatchUp, DeleteNonce, ForgetJti, ExpireToken, ForgetAllowed, histVars
    <2>2. made \subseteq made' /\ \A c \in Codes : offered[c] \subseteq offered'[c]
      BY DEF Environment, WithdrawCode, Offer, SetPolicy, CreateNonce, RevokeNonce, CatchUp,
             ForgetJti, ExpireToken, ForgetAllowed, IInv, TypeOK
    <2>3. TokensShrink
      BY DEF Environment, WithdrawCode, Offer, SetPolicy, CreateNonce, RevokeNonce, CatchUp,
             ForgetJti, ExpireToken, ForgetAllowed, IInv, TypeOK, TokensShrink
    <2>4. QED
      BY <2>1, <2>2, <2>3 DEF Grows
  <1>2. \A q \in Requests : Kept(q)
    BY <1>1 DEF Kept
  <1>3. \A q \in Requests : RequestInv(q)'
    BY <1>1, <1>2, KeptRequest DEF Requests
  <1>4. TokenInv'
    BY <1>1, <1>2, TokensKept DEF Requests
  <1>5. AssertedInv'
    <2>1. AssertedInv /\ asserted \subseteq asserted'
      BY <1>1 DEF IInv, Grows
    <2>2. \A t \in TokenRequests : Admitted(t)' = Admitted(t)
      BY <1>1 DEF Admitted, Running
    <2>3. QED
      BY <1>1, <2>1, <2>2 DEF AssertedInv
  <1>6. RequestTypes' /\ UNCHANGED <<asserted, histVars>>
    BY <1>1 DEF IInv, TypeOK, RequestTypes, Environment, WithdrawCode, Offer,
       SetPolicy, CreateNonce, RevokeNonce, CatchUp, ForgetJti, ExpireToken, ForgetAllowed
  <1>7. StoreTypes /\ NonceInv /\ CodeInv
    BY DEF IInv, TypeOK, StoreTypes
  <1>8. StoreTypes'
    <2>1. CASE \E c \in Codes, gs \in (SUBSET Configs) \ {{}} : Offer(c, gs)
      <3>1. PICK c \in Codes, gs \in (SUBSET Configs) \ {{}} : Offer(c, gs)
        BY <2>1
      <3>2. offered' \in [Codes -> SUBSET Configs]
        BY <1>7, <3>1 DEF Offer, StoreTypes
      <3>3. offered'[c] # {} /\ \A d \in Codes \ {c} : offered'[d] = offered[d]
        BY <1>7, <3>1 DEF Offer, StoreTypes
      <3>4. live' \subseteq {d \in Codes : offered'[d] # {}}
        BY <1>7, <3>1, <3>3 DEF Offer, StoreTypes
      <3>5. QED
        BY <1>7, <3>1, <3>2, <3>4 DEF Offer, StoreTypes, histVars
    <2>2. CASE \E k \in Kinds, m \in Modes : SetPolicy(k, m)
      BY <1>7, <2>2 DEF SetPolicy, StoreTypes, histVars
    <2>3. CASE \E ns \in SUBSET Nonces : CreateNonce(ns)
      BY <1>7, <2>3 DEF CreateNonce, StoreTypes, histVars
    <2>4. CASE \E t \in TokenRequests : ForgetAllowed(t)
      BY <1>7, <2>4 DEF ForgetAllowed, StoreTypes, histVars
    <2>5. CASE \/ \E c \in Codes : WithdrawCode(c)
               \/ \E n \in Nonces : RevokeNonce(n) \/ CatchUp(n)
               \/ \E j \in Keys \X Jtis : ForgetJti(j)
               \/ \E t \in TokenRequests : ExpireToken(t)
      BY <1>7, <2>5 DEF WithdrawCode, RevokeNonce, CatchUp, DeleteNonce, ForgetJti, ExpireToken, StoreTypes,
         histVars
    <2>6. QED
      BY <2>1, <2>2, <2>3, <2>4, <2>5 DEF Environment
  <1>9. NonceInv'
    <2>1. made \subseteq made' /\ nonces' \cap made \subseteq nonces
      BY <1>1 DEF Environment, WithdrawCode, Offer, SetPolicy, CreateNonce, RevokeNonce, CatchUp,
         DeleteNonce, ForgetJti, ExpireToken, ForgetAllowed, Grows
    <2>2. QED
      BY <1>6, <1>7, <2>1 DEF NonceInv, histVars
  <1>10. CodeInv'
    <2>1. \A c \in Codes : offered[c] # {} => (c \in live' => c \in live)
      BY DEF Environment, WithdrawCode, Offer, SetPolicy, CreateNonce, RevokeNonce, CatchUp,
         ForgetJti, ExpireToken, ForgetAllowed
    <2>2. QED
      BY <1>1, <1>6, <1>7, <2>1 DEF CodeInv, histVars, Grows
  <1>11. QED
    BY <1>3, <1>4, <1>5, <1>6, <1>8, <1>9, <1>10
       DEF IInv, TypeOK, RequestTypes, StoreTypes

-----------------------------------------------------------------------------
(* POST /token *)

\* A new request with an assertion finds it unrecorded and records it.
LEMMA TokenRequestStep ==
    ASSUME IInv, NEW r \in TokenRequests, NEW a \in Clients, NEW c \in Codes,
           NEW p \in Headers, TokenRequest(r, a, c, p)
    PROVE  IInv'
  <1>1. r \in Requests /\ r \notin CredentialRequests /\ pc[r] = "idle"
    BY IssuanceAssumption DEF TokenRequest, Requests
  <1>2. RequestTypes /\ StoreTypes /\ NonceInv /\ CodeInv /\ TokenRequestInv(r)
    BY <1>1 DEF IInv, TypeOK, RequestTypes, StoreTypes, RequestInv
  <1>3. /\ req' = [req EXCEPT ![r].auth = a, ![r].code = c, ![r].proof = p]
        /\ pc' = [pc EXCEPT ![r] = "mode"]
        /\ reply' = reply
        /\ a \notin asserted
        /\ asserted' = asserted \cup ({a} \cap Assertions)
        /\ UNCHANGED <<lingering, offered, live, mode, made, nonces, jtis, valid,
                       allowed, histVars>>
    BY DEF TokenRequest, Goto
  <1>4. RequestTypes' /\ StoreTypes' /\ NonceInv' /\ CodeInv'
    <2>1. p \in DpopProofs \cup {NoProof}
      BY DEF Headers
    <2>2. RequestTypes'
      <3>1. req[r] \in Args /\ req' =
               [req EXCEPT ![r] = [req[r] EXCEPT !.auth = a, !.code = c, !.proof = p]]
        BY <1>1, <1>2, <1>3 DEF RequestTypes
      <3>2. [req[r] EXCEPT !.auth = a, !.code = c, !.proof = p] \in Args
        BY <2>1, <3>1 DEF Args
      <3>3. QED
        BY <1>2, <1>3, <3>1, <3>2 DEF RequestTypes, Labels
    <2>3. StoreTypes'
      BY <1>2, <1>3 DEF StoreTypes, histVars
    <2>4. NonceInv' /\ CodeInv'
      BY <1>2, <1>3 DEF NonceInv, CodeInv, histVars
    <2>5. QED
      BY <2>2, <2>3, <2>4
  <1>5. Grows /\ TokensShrink
    BY <1>3 DEF Grows, TokensShrink, histVars
  <1>6. \A q \in Requests \ {r} : Kept(q)
    BY <1>2, <1>3 DEF RequestTypes, Kept
  <1>7. reply[r] # "ok"
    BY <1>1, <1>2 DEF TokenRequestInv
  <1>8. RequestInv(r)'
    <2>1. pc'[r] = "mode" /\ req'[r].cnf = req[r].cnf /\ reply'[r] = reply[r]
      BY <1>1, <1>2, <1>3 DEF RequestTypes, Args
    <2>2. QED
      BY <1>1, <1>2, <1>7, <2>1 DEF TokenRequestInv, RequestInv
  <1>9. \A t \in TokenRequests : reply[t] = "ok" => Kept(t)
    BY <1>6, <1>7 DEF Requests
  <1>10. \A q \in Requests : RequestInv(q)'
    BY <1>5, <1>6, <1>8, <1>9, KeptRequest
  <1>11. TokenInv'
    <2>1. valid \subseteq TokenRequests
      BY <1>2 DEF StoreTypes
    <2>2. QED
      BY <1>3, <1>9, <2>1 DEF IInv, TokenInv, Kept
  <1>12. AssertedInv'
    <2>1. \A t \in TokenRequests \ {r} :
             (Admitted(t)' => Admitted(t)) /\ req'[t] = req[t]
      BY <1>6 DEF Admitted, Running, Kept, Requests
    <2>2. req'[r].auth = a
      BY <1>1, <1>2, <1>3 DEF RequestTypes, Args
    <2>3. \A t \in TokenRequests :
             Admitted(t) /\ req[t].auth \in Assertions => req[t].auth # a
      BY <1>3 DEF IInv, AssertedInv
    <2>4. \A t \in TokenRequests :
             Admitted(t)' /\ req'[t].auth \in Assertions => req'[t].auth \in asserted'
      <3>1. a \in Assertions => a \in asserted'
        BY <1>3
      <3>2. \A t \in TokenRequests :
               Admitted(t) /\ req[t].auth \in Assertions => req[t].auth \in asserted'
        BY <1>3 DEF IInv, AssertedInv
      <3>3. QED
        BY <2>1, <2>2, <3>1, <3>2
    <2>5. ASSUME NEW t1 \in TokenRequests, NEW t2 \in TokenRequests,
                 Admitted(t1)', Admitted(t2)',
                 req'[t1].auth = req'[t2].auth, req'[t1].auth \in Assertions
          PROVE  t1 = t2
      <3>1. CASE t1 # r /\ t2 # r
        BY <2>1, <2>5, <3>1 DEF IInv, AssertedInv
      <3>2. CASE t1 = r \/ t2 = r
        BY <2>1, <2>2, <2>3, <2>5, <3>2
      <3>3. QED
        BY <3>1, <3>2
    <2>6. QED
      BY <2>4, <2>5 DEF AssertedInv
  <1>13. QED
    BY <1>4, <1>10, <1>11, <1>12 DEF IInv, TypeOK, RequestTypes, StoreTypes

\* With a proof that has a nonce, the nonce is consumed next.
LEMMA ResolveTokenModeStep ==
    ASSUME IInv, NEW r \in TokenRequests, ResolveTokenMode(r)
    PROVE  IInv'
  <1> DEFINE m == mode[Kind(req[r].auth)]
             p == req[r].proof
             l == IF p.nonce = NoNonce THEN "challenge" ELSE "nonce"
  <1>1. r \in Requests /\ r \notin CredentialRequests /\ pc[r] = "mode" /\ Running(r)
    BY IssuanceAssumption DEF ResolveTokenMode, Requests, Running
  <1>2. RequestTypes /\ TokenRequestInv(r)
    BY <1>1 DEF IInv, TypeOK, RequestTypes, RequestInv
  <1>3. \/ Refuse(r, "invalid_request") \/ Refuse(r, "invalid_dpop_proof")
        \/ Proceed(r, "code")
        \/ p # NoProof /\ Goto(r, l) /\ req' = [req EXCEPT ![r].cnf = p.key]
    BY DEF ResolveTokenMode, UsesDpop
  <1>4. UNCHANGED <<storeVars, histVars>>
    BY DEF ResolveTokenMode
  <1>5. CASE Refuse(r, "invalid_request") \/ Refuse(r, "invalid_dpop_proof")
    BY <1>1, <1>4, <1>5, RefusalStep DEF Answers
  <1>6. CASE Proceed(r, "code")
    <2>1. "code" \in Labels \ {"idle", "done"}
      BY DEF Labels
    <2>2. /\ RequestTypes'
          /\ \A q \in Requests \ {r} : Kept(q)
          /\ Admitted(r)' => Admitted(r) /\ req'[r].auth = req[r].auth
          /\ pc'[r] = "code" /\ req' = req /\ reply' = reply /\ reply[r] # "ok"
      BY <1>1, <1>6, <2>1, Proceeded
    <2>3. RequestInv(r)'
      BY <1>1, <1>2, <2>2 DEF RequestInv, TokenRequestInv
    <2>4. QED
      BY <1>1, <1>4, <2>2, <2>3, ReadingStep
  <1>7. CASE p # NoProof /\ Goto(r, l) /\ req' = [req EXCEPT ![r].cnf = p.key]
    <2>1. p \in DpopProofs /\ p.key \in Keys /\ p.nonce \in Nonces \cup {NoNonce}
      BY <1>1, <1>2, <1>7 DEF RequestTypes, Args, DpopProofs
    <2>2. pc' = [pc EXCEPT ![r] = l] /\ reply' = reply
      BY <1>7 DEF Goto
    <2>3. RequestTypes'
      <3>1. req[r] \in Args /\ req' = [req EXCEPT ![r] = [req[r] EXCEPT !.cnf = p.key]]
        BY <1>1, <1>2, <1>7 DEF RequestTypes
      <3>2. [req[r] EXCEPT !.cnf = p.key] \in Args
        BY <2>1, <3>1 DEF Args
      <3>3. l \in Labels
        BY DEF Labels
      <3>4. QED
        BY <1>2, <2>2, <3>1, <3>2, <3>3 DEF RequestTypes
    <2>4. /\ \A q \in Requests \ {r} : Kept(q)
          /\ pc'[r] = l /\ reply'[r] = reply[r] /\ reply[r] # "ok"
          /\ req'[r].proof = p /\ req'[r].auth = req[r].auth
      BY <1>1, <1>2, <1>7, <2>2 DEF RequestTypes, Args, Kept, TokenRequestInv
    <2>5. RequestInv(r)'
      BY <1>1, <2>1, <2>4 DEF RequestInv, TokenRequestInv, HasNonce
    <2>6. Admitted(r)' => Admitted(r) /\ req'[r].auth = req[r].auth
      BY <1>1, <2>4 DEF Admitted
    <2>7. QED
      BY <1>1, <1>4, <2>3, <2>4, <2>5, <2>6, ReadingStep
  <1>8. QED
    BY <1>3, <1>5, <1>6, <1>7

-----------------------------------------------------------------------------
(* DPoP, at either endpoint *)

\* Consuming a nonce that is there leaves it with one user.
LEMMA ConsumeDpopNonceStep ==
    ASSUME IInv, NEW r \in Requests, ConsumeDpopNonce(r)
    PROVE  IInv'
  <1> DEFINE n == req[r].proof.nonce
             l == IF n \in nonces THEN "jti" ELSE "challenge"
  <1>1. pc[r] = "nonce" /\ Running(r) /\ pc[r] # "done" /\ HasNonce(r) /\ n \in Nonces
    BY DEF ConsumeDpopNonce, Running, IInv, RequestInv, Requests, TokenRequestInv,
       CredentialRequestInv, HasNonce
  <1>2. StoreTypes /\ NonceInv /\ CodeInv /\ RequestInv(r)
    BY DEF IInv, TypeOK, StoreTypes
  <1>3. /\ nonces' = nonces \ {n}
        /\ dpopUse' = [dpopUse EXCEPT ![n] = IF n \in nonces THEN @ \cup {r} ELSE @]
        /\ Proceed(r, l)
        /\ lingering' \subseteq lingering \cup ({n} \cap nonces)
        /\ lingering \subseteq lingering'
        /\ UNCHANGED <<offered, live, mode, made, jtis, asserted,
                       valid, allowed, winners, spentCNonce>>
    BY DEF ConsumeDpopNonce, DeleteNonce
  <1>4. l \in Labels \ {"idle", "done"}
    BY DEF Labels
  <1>5. /\ RequestTypes'
        /\ \A q \in Requests \ {r} : Kept(q)
        /\ Admitted(r)' => Admitted(r) /\ req'[r].auth = req[r].auth
        /\ pc'[r] = l /\ req' = req /\ reply' = reply /\ reply[r] # "ok"
    BY <1>1, <1>3, <1>4, Proceeded
  <1>6. /\ dpopUse'[n] = IF n \in nonces THEN dpopUse[n] \cup {r} ELSE dpopUse[n]
        /\ \A x \in Nonces \ {n} : dpopUse'[x] = dpopUse[x]
    BY <1>1, <1>2, <1>3 DEF StoreTypes
  <1>7. Grows /\ TokensShrink
    BY <1>3, <1>6 DEF Grows, TokensShrink
  <1>8. StoreTypes'
    BY <1>1, <1>2, <1>3 DEF StoreTypes
  <1>9. NonceInv'
    <2>1. n \in nonces => dpopUse[n] = {} /\ n \in made
      BY <1>1, <1>2 DEF NonceInv, StoreTypes
    <2>2. QED
      BY <1>2, <1>3, <1>6, <2>1 DEF NonceInv
  <1>10. CodeInv'
    BY <1>2, <1>3 DEF CodeInv
  <1>11. RequestInv(r)'
    <2>1. l = "jti" => UsedNonce(r)'
      BY <1>1, <1>5, <1>6 DEF UsedNonce, HasNonce
    <2>2. TokenRequestInv(r)' \/ r \notin TokenRequests
      BY <1>1, <1>2, <1>5, <2>1 DEF RequestInv, TokenRequestInv
    <2>3. ASSUME r \in CredentialRequests
          PROVE  CredentialRequestInv(r)' /\ KeyProofInv(r)'
      <3>1. CredentialRequestInv(r) /\ KeyProofInv(r) /\ Presented(r)
        BY <1>1, <1>2, <2>3 DEF RequestInv, CredentialRequestInv, Admitted
      <3>2. Presented(r)'
        BY <1>5, <3>1 DEF Presented
      <3>3. CredentialRequestInv(r)'
        BY <1>1, <1>5, <2>1, <3>1, <3>2 DEF CredentialRequestInv
      <3>4. KeyProofInv(r)'
        BY <1>2, <1>3, <1>5, <3>1 DEF KeyProofInv, NonceInv
      <3>5. QED
        BY <3>3, <3>4
    <2>4. QED
      BY <2>2, <2>3 DEF RequestInv
  <1>12. QED
    BY <1>1, <1>5, <1>7, <1>8, <1>9, <1>10, <1>11, StepOf

\* A nonce sent with a challenge is a new one.
LEMMA DpopNonceResponseStep ==
    ASSUME IInv, NEW r \in Requests, NEW n \in Nonces, DpopNonceResponse(r, n)
    PROVE  IInv'
  <1>1. /\ pc[r] # "done" /\ n \notin made
        /\ made' = made \cup {n} /\ nonces' = nonces \cup {n}
        /\ Refuse(r, "use_dpop_nonce") /\ "use_dpop_nonce" \in Answers \ {"ok"}
        /\ UNCHANGED <<lingering, offered, live, mode, jtis, asserted, valid,
                       allowed, histVars>>
    BY DEF DpopNonceResponse, Answers
  <1>2. StoreTypes /\ NonceInv /\ CodeInv
    BY DEF IInv, TypeOK, StoreTypes
  <1>3. /\ RequestTypes' /\ RequestInv(r)'
        /\ \A q \in Requests \ {r} : Kept(q)
        /\ ~Admitted(r)'
    BY <1>1, Refused
  <1>4. Grows /\ TokensShrink
    BY <1>1 DEF Grows, TokensShrink, histVars
  <1>5. StoreTypes' /\ NonceInv' /\ CodeInv'
    <2>1. StoreTypes'
      BY <1>1, <1>2 DEF StoreTypes, histVars
    <2>2. NonceInv' /\ CodeInv'
      BY <1>1, <1>2 DEF NonceInv, CodeInv, histVars
    <2>3. QED
      BY <2>1, <2>2
  <1>6. QED
    BY <1>1, <1>3, <1>4, <1>5, StepOf

\* Saving a jti either refuses the request or lets it go on as it is.
LEMMA SaveJtiStep ==
    ASSUME IInv, NEW r \in Requests, pc[r] = "jti",
           NEW next \in {"code", "body"}, SaveJti(r, next),
           next = "code" <=> r \in TokenRequests,
           next = "body" => ProofBound(r)
    PROVE  IInv'
  <1> DEFINE j == <<req[r].proof.key, req[r].proof.jti>>
  <1>1. Running(r) /\ pc[r] # "done" /\ UsedNonce(r) /\ j \in Keys \X Jtis
    BY DEF Running, IInv, RequestInv, Requests, TokenRequestInv, CredentialRequestInv,
       UsedNonce, HasNonce, DpopProofs
  <1>2. StoreTypes /\ NonceInv /\ CodeInv /\ RequestInv(r)
    BY DEF IInv, TypeOK, StoreTypes
  <1>3. /\ jtis' = jtis \cup {j}
        /\ UNCHANGED <<lingering, offered, live, mode, made, nonces, asserted,
                       valid, allowed, histVars>>
    BY DEF SaveJti
  <1>4. Grows /\ TokensShrink
    BY <1>3 DEF Grows, TokensShrink, histVars
  <1>5. StoreTypes' /\ NonceInv' /\ CodeInv'
    <2>1. StoreTypes'
      BY <1>1, <1>2, <1>3 DEF StoreTypes, histVars
    <2>2. NonceInv' /\ CodeInv'
      BY <1>2, <1>3 DEF NonceInv, CodeInv, histVars
    <2>3. QED
      BY <2>1, <2>2
  <1>6. CASE Refuse(r, "invalid_dpop_proof")
    <2>1. /\ RequestTypes' /\ RequestInv(r)'
          /\ \A q \in Requests \ {r} : Kept(q)
          /\ ~Admitted(r)'
      BY <1>1, <1>6, Refused DEF Answers
    <2>2. QED
      BY <1>1, <1>4, <1>5, <2>1, StepOf
  <1>7. CASE Proceed(r, next)
    <2>1. next \in Labels \ {"idle", "done"}
      BY DEF Labels
    <2>2. /\ RequestTypes'
          /\ \A q \in Requests \ {r} : Kept(q)
          /\ Admitted(r)' => Admitted(r) /\ req'[r].auth = req[r].auth
          /\ pc'[r] = next /\ req' = req /\ reply' = reply /\ reply[r] # "ok"
      BY <1>1, <1>7, <2>1, Proceeded
    <2>3. UsedNonce(r)'
      BY <1>1, <1>3, <2>2 DEF UsedNonce, HasNonce, histVars
    <2>4. ASSUME r \in TokenRequests
          PROVE  TokenRequestInv(r)'
      BY <1>2, <2>2, <2>3, <2>4 DEF RequestInv, TokenRequestInv
    <2>5. ASSUME r \in CredentialRequests
          PROVE  CredentialRequestInv(r)' /\ KeyProofInv(r)'
      <3>1. CredentialRequestInv(r) /\ KeyProofInv(r) /\ Presented(r) /\ next = "body"
        BY <1>1, <1>2, <2>5, IssuanceAssumption
           DEF RequestInv, CredentialRequestInv, Admitted
      <3>2. Presented(r)'
        BY <2>2, <3>1 DEF Presented
      <3>3. ProofBound(r)'
        BY <2>2, <2>3, <3>1 DEF ProofBound
      <3>4. CredentialRequestInv(r)'
        BY <2>2, <3>1, <3>2, <3>3 DEF CredentialRequestInv
      <3>5. KeyProofInv(r)'
        BY <1>3, <2>2, <3>1 DEF KeyProofInv, histVars
      <3>6. QED
        BY <3>4, <3>5
    <2>6. RequestInv(r)'
      BY <2>4, <2>5 DEF RequestInv
    <2>7. QED
      BY <1>1, <1>4, <1>5, <2>2, <2>6, StepOf
  <1>8. QED
    BY <1>6, <1>7 DEF SaveJti

-----------------------------------------------------------------------------
(* The code, at POST /token *)

\* A code that can be redeemed has not been: the request is its only winner.
LEMMA RedeemCodeStep ==
    ASSUME IInv, NEW r \in TokenRequests, RedeemCode(r)
    PROVE  IInv'
  <1> DEFINE c == req[r].code
  <1>1. r \in Requests /\ r \notin CredentialRequests /\ pc[r] = "code" /\ Running(r)
        /\ pc[r] # "done"
    BY IssuanceAssumption DEF RedeemCode, Requests, Running
  <1>2. StoreTypes /\ NonceInv /\ CodeInv /\ TokenRequestInv(r) /\ c \in Codes
    BY <1>1 DEF IInv, TypeOK, StoreTypes, RequestInv, Args
  <1>3. /\ c \in live /\ live' = live \ {c}
        /\ winners' = [winners EXCEPT ![c] = @ \cup {r}]
        /\ Proceed(r, "sign") /\ "sign" \in Labels \ {"idle", "done"}
        /\ UNCHANGED <<lingering, offered, mode, made, nonces, jtis, asserted,
                       valid, allowed, dpopUse, spentCNonce>>
    BY DEF RedeemCode, Labels
  <1>4. /\ RequestTypes'
        /\ \A q \in Requests \ {r} : Kept(q)
        /\ Admitted(r)' => Admitted(r) /\ req'[r].auth = req[r].auth
        /\ pc'[r] = "sign" /\ req' = req /\ reply' = reply /\ reply[r] # "ok"
    BY <1>1, <1>3, Proceeded
  <1>5. /\ winners[c] = {} /\ winners'[c] = {r}
        /\ \A d \in Codes \ {c} : winners'[d] = winners[d]
    BY <1>2, <1>3 DEF StoreTypes, CodeInv
  <1>6. Grows /\ TokensShrink
    BY <1>3, <1>5 DEF Grows, TokensShrink
  <1>7. StoreTypes'
    BY <1>1, <1>2, <1>3 DEF StoreTypes
  <1>8. NonceInv'
    BY <1>2, <1>3 DEF NonceInv
  <1>9. CodeInv'
    <2>1. offered[c] # {}
      BY <1>2, <1>3 DEF StoreTypes
    <2>2. QED
      BY <1>2, <1>3, <1>5, <2>1 DEF CodeInv
  <1>10. RequestInv(r)'
    <2>1. UsedNonce(r) => UsedNonce(r)'
      BY <1>3, <1>4 DEF UsedNonce, HasNonce
    <2>2. TokenRequestInv(r)'
      BY <1>1, <1>2, <1>4, <1>5, <2>1 DEF TokenRequestInv
    <2>3. QED
      BY <1>1, <2>2 DEF RequestInv
  <1>11. QED
    BY <1>1, <1>4, <1>6, <1>7, <1>8, <1>9, <1>10, StepOf

\* Signing reads nothing and writes nothing.
LEMMA SignTokenStep ==
    ASSUME IInv, NEW r \in TokenRequests, SignToken(r)
    PROVE  IInv'
  <1>1. r \in Requests /\ r \notin CredentialRequests /\ pc[r] = "sign" /\ Running(r)
        /\ pc[r] # "done" /\ UNCHANGED <<storeVars, histVars>>
    BY IssuanceAssumption DEF SignToken, Requests, Running
  <1>2. CASE Refuse(r, "internal_server_error")
    BY <1>1, <1>2, RefusalStep DEF Answers
  <1>3. CASE Proceed(r, "entry")
    <2>1. "entry" \in Labels \ {"idle", "done"} /\ TokenRequestInv(r)
      BY <1>1 DEF Labels, IInv, RequestInv
    <2>2. /\ RequestTypes'
          /\ \A q \in Requests \ {r} : Kept(q)
          /\ Admitted(r)' => Admitted(r) /\ req'[r].auth = req[r].auth
          /\ pc'[r] = "entry" /\ req' = req /\ reply' = reply /\ reply[r] # "ok"
      BY <1>1, <1>3, <2>1, Proceeded
    <2>3. TokenRequestInv(r)'
      BY <1>1, <2>1, <2>2
         DEF TokenRequestInv, UsedNonce, HasNonce, histVars
    <2>4. QED
      BY <1>1, <2>2, <2>3, ReadingStep DEF RequestInv
  <1>4. QED
    BY <1>2, <1>3 DEF SignToken

\* The token is handed out with the configurations its code was offered with.
LEMMA RespondTokenStep ==
    ASSUME IInv, NEW r \in TokenRequests, RespondToken(r)
    PROVE  IInv'
  <1>1. r \in Requests /\ r \notin CredentialRequests /\ pc[r] = "entry" /\ Running(r)
        /\ pc[r] # "done"
    BY IssuanceAssumption DEF RespondToken, Requests, Running
  <1>2. /\ StoreTypes /\ NonceInv /\ CodeInv /\ TokenInv /\ TokenRequestInv(r)
        /\ RequestTypes /\ req[r].code \in Codes
    BY <1>1 DEF IInv, TypeOK, StoreTypes, RequestTypes, RequestInv, Args
  <1>3. /\ allowed' = [allowed EXCEPT ![r] = offered[req[r].code]]
        /\ valid' = valid \cup {r}
        /\ pc' = [pc EXCEPT ![r] = "done"]
        /\ reply' = [reply EXCEPT ![r] = "ok"]
        /\ UNCHANGED <<lingering, offered, live, mode, made, nonces, jtis, asserted,
                       req, histVars>>
    BY DEF RespondToken, Answer
  <1>4. StoreTypes' /\ RequestTypes' /\ NonceInv' /\ CodeInv'
    <2>1. StoreTypes'
      BY <1>2, <1>3 DEF StoreTypes, histVars
    <2>2. RequestTypes'
      BY <1>2, <1>3 DEF RequestTypes, Labels, Answers
    <2>3. NonceInv' /\ CodeInv'
      BY <1>2, <1>3 DEF NonceInv, CodeInv, histVars
    <2>4. QED
      BY <2>1, <2>2, <2>3
  <1>5. Grows
    BY <1>3 DEF Grows, histVars
  <1>6. /\ \A q \in Requests \ {r} : Kept(q)
        /\ pc'[r] = "done" /\ reply'[r] = "ok" /\ req' = req
        /\ Admitted(r)' => Admitted(r) /\ req'[r].auth = req[r].auth
    BY <1>1, <1>2, <1>3 DEF RequestTypes, Kept, Admitted
  <1>7. /\ \A t \in TokenRequests : reply[t] = "ok" => Kept(t)
        /\ AssertedInv' /\ \A q \in Requests \ {r} : RequestInv(q)'
    BY <1>1, <1>5, <1>6, Framed
  <1>8. RequestInv(r)'
    <2>1. UsedNonce(r) => UsedNonce(r)'
      BY <1>3 DEF UsedNonce, HasNonce, histVars
    <2>2. TokenRequestInv(r)'
      BY <1>1, <1>2, <1>3, <1>6, <2>1 DEF TokenRequestInv, histVars
    <2>3. QED
      BY <1>1, <2>2 DEF RequestInv
  <1>9. TokenInv'
    <2>1. \A t \in TokenRequests \ {r} : allowed'[t] = allowed[t]
      BY <1>2, <1>3 DEF StoreTypes
    <2>2. allowed'[r] = offered[req[r].code]
      BY <1>2, <1>3 DEF StoreTypes
    <2>3. \A t \in TokenRequests : reply[t] = "ok" => reply'[t] = "ok"
      BY <1>7 DEF Kept
    <2>4. valid \subseteq TokenRequests
      BY <1>2 DEF StoreTypes
    <2>5. QED
      BY <1>2, <1>3, <1>6, <2>1, <2>2, <2>3, <2>4 DEF TokenInv
  <1>10. QED
    BY <1>4, <1>7, <1>8, <1>9 DEF IInv, TypeOK, StoreTypes, RequestTypes

-----------------------------------------------------------------------------
(* POST /credentials *)

\* What a step of a credential request keeps: the histories of the DPoP nonces.
LEMMA UsedNonceKept ==
    ASSUME NEW r \in Requests, req'[r].proof = req[r].proof, dpopUse' = dpopUse
    PROVE  UsedNonce(r) => UsedNonce(r)'
  BY DEF UsedNonce, HasNonce

\* A request that is let in presents a token that was handed out, and with a
\* bound token a proof for it.
LEMMA CredentialRequestStep ==
    ASSUME IInv, NEW r \in CredentialRequests, NEW t \in TokenRequests,
           NEW scheme \in {"bearer", "dpop"}, NEW p \in Headers,
           CredentialRequest(r, t, scheme, p)
    PROVE  IInv'
  <1> DEFINE q == IF scheme = "dpop" THEN p ELSE NoProof
             l == IF scheme = "bearer" THEN "body"
                  ELSE IF p.nonce = NoNonce THEN "challenge" ELSE "nonce"
             A == [req[r] EXCEPT !.token = t, !.scheme = scheme, !.proof = q,
                                 !.stale = spentCNonce \ lingering]
  <1>1. r \in Requests /\ r \notin TokenRequests /\ pc[r] = "idle" /\ pc[r] # "done"
        /\ UNCHANGED <<storeVars, histVars>> /\ r # t /\ t \in Requests
    BY IssuanceAssumption DEF CredentialRequest, Requests
  <1>2. /\ RequestTypes /\ StoreTypes /\ TokenInv
        /\ CredentialRequestInv(r) /\ KeyProofInv(r)
    BY <1>1 DEF IInv, TypeOK, RequestTypes, StoreTypes, RequestInv
  <1>3. /\ t \in valid
        /\ scheme = "bearer" => req[t].cnf = NoKey
        /\ scheme = "dpop" => p # NoProof /\ p.ath = t
    BY DEF CredentialRequest, Admissible
  <1>4. /\ pc' = [pc EXCEPT ![r] = l] /\ reply' = reply
        /\ req' = [req EXCEPT ![r].token = t, ![r].scheme = scheme, ![r].proof = q,
                              ![r].stale = spentCNonce \ lingering]
    BY DEF CredentialRequest, Goto
  <1>5. /\ q \in DpopProofs \cup {NoProof}
        /\ scheme = "dpop" => p \in DpopProofs /\ p.nonce \in Nonces \cup {NoNonce}
    BY <1>3 DEF Headers, DpopProofs
  <1>6. req' = [req EXCEPT ![r] = A] /\ A \in Args
    <2>1. req[r] \in Args /\ spentCNonce \ lingering \in SUBSET Nonces
      BY <1>1, <1>2 DEF RequestTypes, StoreTypes
    <2>2. A \in Args
      BY <1>5, <2>1 DEF Args
    <2>3. QED
      BY <1>1, <1>2, <1>4, <2>2 DEF RequestTypes
  <1>7. RequestTypes'
    <2>1. l \in Labels
      BY DEF Labels
    <2>2. QED
      BY <1>2, <1>4, <1>6, <2>1 DEF RequestTypes
  <1>8. /\ \A x \in Requests \ {r} : Kept(x)
        /\ pc'[r] = l /\ reply'[r] = reply[r] /\ reply[r] # "ok" /\ reply' = reply
        /\ req'[r] = A /\ req'[t] = req[t]
    BY <1>1, <1>2, <1>4, <1>6 DEF RequestTypes, Kept, CredentialRequestInv
  <1>9. /\ A.token = t /\ A.scheme = scheme /\ A.proof = q /\ A.stale = spentCNonce \ lingering
        /\ A.todo = req[r].todo /\ A.used = req[r].used
    BY <1>1, <1>2 DEF RequestTypes, Args
  <1>10. CredentialRequestInv(r)'
    <2>1. Presented(r)'
      BY <1>2, <1>3, <1>8, <1>9 DEF Presented, TokenInv
    <2>2. l = "nonce" => HasNonce(r)'
      BY <1>5, <1>8, <1>9 DEF HasNonce
    <2>3. l = "body" => ProofBound(r)'
      BY <1>8, <1>9 DEF ProofBound
    <2>4. QED
      BY <1>8, <1>9, <2>1, <2>2, <2>3 DEF CredentialRequestInv
  <1>11. KeyProofInv(r)'
    BY <1>1, <1>2, <1>8, <1>9 DEF KeyProofInv, storeVars, histVars
  <1>12. QED
    BY <1>1, <1>7, <1>8, <1>10, <1>11, ReadingStep DEF RequestInv

\* The jti is recorded for a proof of the token's key only.
LEMMA BindAndSaveJtiStep ==
    ASSUME IInv, NEW r \in CredentialRequests, BindAndSaveJti(r)
    PROVE  IInv'
  <1>1. r \in Requests /\ r \notin TokenRequests /\ pc[r] = "jti" /\ pc[r] # "done"
    BY IssuanceAssumption DEF BindAndSaveJti, Requests
  <1>2. CASE /\ Refuse(r, "invalid_dpop_proof")
             /\ UNCHANGED <<storeVars, histVars>>
    BY <1>1, <1>2, RefusalStep DEF Answers
  <1>3. CASE /\ req[r].proof.key = req[req[r].token].cnf
             /\ SaveJti(r, "body")
    <2>1. ProofBound(r)
      BY <1>1, <1>3 DEF IInv, RequestInv, CredentialRequestInv, ProofBound
    <2>2. QED
      BY <1>1, <1>3, <2>1, SaveJtiStep
  <1>4. QED
    BY <1>2, <1>3 DEF BindAndSaveJti

\* The configuration is one the token's code was offered with; the nonces to
\* verify have been handed out.
LEMMA FetchAllowedStep ==
    ASSUME IInv, NEW r \in CredentialRequests, NEW g \in Configs, NEW ns \in Bodies,
           FetchAllowed(r, g, ns)
    PROVE  IInv'
  <1> DEFINE A == [req[r] EXCEPT !.config = g, !.todo = ns]
  <1>1. r \in Requests /\ r \notin TokenRequests /\ pc[r] = "body" /\ pc[r] # "done"
        /\ UNCHANGED <<storeVars, histVars>> /\ Running(r)
    BY IssuanceAssumption DEF FetchAllowed, Requests, Running
  <1>2. CASE Refuse(r, "invalid_credential_request") \/ Refuse(r, "invalid_proof")
    BY <1>1, <1>2, RefusalStep DEF Answers
  <1>3. CASE /\ g \in allowed[req[r].token]
             /\ req' = [req EXCEPT ![r].config = g, ![r].todo = ns]
             /\ Goto(r, NextProof(ns))
    <2>1. /\ RequestTypes /\ StoreTypes /\ TokenInv
          /\ CredentialRequestInv(r) /\ KeyProofInv(r) /\ Presented(r) /\ ProofBound(r)
      BY <1>1 DEF IInv, TypeOK, RequestTypes, StoreTypes, RequestInv,
         CredentialRequestInv, Admitted
    <2>2. ns \in Seq(made) /\ ns \in Seq(Nonces)
      <3>1. PICK k \in 0 .. MaxProofs : ns \in [1 .. k -> made]
        BY DEF Bodies
      <3>2. k \in Nat /\ made \subseteq Nonces
        BY <2>1, <3>1, IssuanceAssumption DEF StoreTypes
      <3>3. QED
        BY <3>1, <3>2
    <2>3. req' = [req EXCEPT ![r] = A] /\ A \in Args
      <3>1. req[r] \in Args
        BY <1>1, <2>1 DEF RequestTypes
      <3>2. A \in Args
        BY <2>2, <3>1 DEF Args
      <3>3. QED
        BY <1>1, <1>3, <2>1, <3>2 DEF RequestTypes
    <2>4. NextProof(ns) \in {"create", "validate"} \cap Labels
          /\ (NextProof(ns) = "validate" => ns # <<>>)
      BY DEF NextProof, Labels
    <2>5. RequestTypes'
      BY <1>3, <2>1, <2>3, <2>4 DEF RequestTypes, Goto
    <2>6. /\ \A x \in Requests \ {r} : Kept(x)
          /\ pc'[r] = NextProof(ns) /\ reply' = reply /\ reply[r] # "ok"
          /\ req'[r] = A /\ \A x \in Requests \ {r} : req'[x] = req[x]
      BY <1>1, <1>3, <2>1, <2>3 DEF RequestTypes, Kept, CredentialRequestInv, Goto
    <2>7. /\ A.config = g /\ A.todo = ns /\ A.token = req[r].token
          /\ A.scheme = req[r].scheme /\ A.proof = req[r].proof
          /\ A.stale = req[r].stale /\ A.used = req[r].used
      BY <1>1, <2>1 DEF RequestTypes, Args
    <2>8. CredentialRequestInv(r)'
      <3>1. req[r].token \in TokenRequests /\ req[r].token \in Requests
            /\ req[r].token # r
        BY <1>1, <2>1 DEF Presented, Requests
      <3>2. Presented(r)'
        BY <2>1, <2>6, <2>7, <3>1 DEF Presented
      <3>3. ProofBound(r)'
        <4>1. req'[r].proof = req[r].proof /\ dpopUse' = dpopUse
          BY <1>1, <2>6, <2>7 DEF histVars
        <4>2. UsedNonce(r) => UsedNonce(r)'
          BY <1>1, <4>1, UsedNonceKept
        <4>3. QED
          BY <2>1, <2>6, <2>7, <3>1, <4>2 DEF ProofBound
      <3>4. g \in offered[req[req[r].token].code]
        BY <1>3, <2>1, <3>1 DEF TokenInv
      <3>5. req'[r].config \in offered'[req'[req'[r].token].code]
        BY <1>1, <2>6, <2>7, <3>1, <3>4 DEF storeVars
      <3>6. QED
        BY <2>4, <2>6, <3>2, <3>3, <3>5 DEF CredentialRequestInv
    <2>9. KeyProofInv(r)'
      BY <1>1, <2>1, <2>2, <2>4, <2>6, <2>7 DEF KeyProofInv, storeVars, histVars
    <2>10. QED
      BY <1>1, <2>5, <2>6, <2>8, <2>9, ReadingStep DEF RequestInv
  <1>4. QED
    BY <1>2, <1>3 DEF FetchAllowed

\* A nonce that is found is not among those spent on every replica.
LEMMA ValidateCNonceStep ==
    ASSUME IInv, NEW r \in CredentialRequests, ValidateCNonce(r)
    PROVE  IInv'
  <1> DEFINE n == Head(req[r].todo)
  <1>1. r \in Requests /\ r \notin TokenRequests /\ pc[r] = "validate"
        /\ pc[r] # "done" /\ Running(r) /\ UNCHANGED <<storeVars, histVars>>
        /\ Proceed(r, "revoke") /\ "revoke" \in Labels \ {"idle", "done"}
        /\ n \in nonces \cup lingering
    BY IssuanceAssumption DEF ValidateCNonce, Requests, Running, Labels
  <1>2. /\ RequestTypes'
        /\ \A q \in Requests \ {r} : Kept(q)
        /\ Admitted(r)' => Admitted(r) /\ req'[r].auth = req[r].auth
        /\ pc'[r] = "revoke" /\ req' = req /\ reply' = reply /\ reply[r] # "ok"
    BY <1>1, Proceeded
  <1>3. /\ CredentialRequestInv(r) /\ KeyProofInv(r) /\ NonceInv
        /\ Presented(r) /\ ProofBound(r)
    BY <1>1 DEF IInv, RequestInv, CredentialRequestInv, Admitted
  <1>4. CredentialRequestInv(r)'
    <2>1. UsedNonce(r) => UsedNonce(r)'
      BY <1>1, <1>2 DEF UsedNonce, HasNonce, histVars
    <2>2. Presented(r)' /\ ProofBound(r)'
      BY <1>2, <1>3, <2>1 DEF Presented, ProofBound
    <2>3. QED
      BY <1>1, <1>2, <1>3, <2>2 DEF CredentialRequestInv, storeVars
  <1>5. KeyProofInv(r)'
    <2>1. n \notin req[r].stale
      BY <1>1, <1>3 DEF KeyProofInv, NonceInv
    <2>2. QED
      BY <1>1, <1>2, <1>3, <2>1 DEF KeyProofInv, storeVars, histVars
  <1>6. QED
    BY <1>1, <1>2, <1>4, <1>5, ReadingStep DEF RequestInv

\* The nonce the request is let through with is gone and spent from here on.
LEMMA RevokeCNonceStep ==
    ASSUME IInv, NEW r \in CredentialRequests, RevokeCNonce(r)
    PROVE  IInv'
  <1> DEFINE todo == req[r].todo
             n == Head(todo)
             l == NextProof(Tail(todo))
             A == [req[r] EXCEPT !.todo = Tail(@), !.used = @ \cup {n}]
  <1>1. r \in Requests /\ r \notin TokenRequests /\ pc[r] = "revoke"
        /\ pc[r] # "done" /\ Running(r)
    BY IssuanceAssumption DEF RevokeCNonce, Requests, Running
  <1>2. /\ RequestTypes /\ StoreTypes /\ NonceInv /\ CodeInv
        /\ CredentialRequestInv(r) /\ KeyProofInv(r) /\ Presented(r) /\ ProofBound(r)
    BY <1>1 DEF IInv, TypeOK, RequestTypes, StoreTypes, RequestInv,
       CredentialRequestInv, Admitted
  <1>3. /\ spentCNonce' = spentCNonce \cup {n}
        /\ req' = [req EXCEPT ![r].todo = Tail(@), ![r].used = @ \cup {n}]
        /\ pc' = [pc EXCEPT ![r] = l] /\ reply' = reply
        /\ nonces' = nonces \ {n}
        /\ lingering' \subseteq lingering \cup ({n} \cap nonces)
        /\ UNCHANGED <<offered, live, mode, made, jtis, asserted, valid,
                       allowed, dpopUse, winners>>
    BY DEF RevokeCNonce, UseCNonce, DeleteNonce, Goto
  <1>4. /\ n \in made /\ n \in Nonces /\ todo # <<>>
        /\ Tail(todo) \in Seq(made) /\ Tail(todo) \in Seq(Nonces)
    <2>1. todo \in Seq(made) /\ todo # <<>> /\ made \subseteq Nonces
      BY <1>1, <1>2 DEF KeyProofInv, StoreTypes
    <2>2. n \in made /\ Tail(todo) \in Seq(made)
      BY <2>1
    <2>3. todo \in Seq(Nonces)
      BY <2>1
    <2>4. QED
      BY <2>1, <2>2, <2>3
  <1>5. req' = [req EXCEPT ![r] = A] /\ A \in Args
    <2>1. req[r] \in Args /\ req[r].used \cup {n} \in SUBSET Nonces
      BY <1>1, <1>2, <1>4 DEF RequestTypes, Args
    <2>2. A = [req[r] EXCEPT !.todo = Tail(todo), !.used = req[r].used \cup {n}]
      BY <2>1 DEF Args
    <2>3. A \in Args
      BY <1>4, <2>1, <2>2 DEF Args
    <2>4. QED
      BY <1>1, <1>2, <1>3, <2>3 DEF RequestTypes
  <1>6. l \in {"create", "validate"} \cap Labels /\ (l = "validate" => Tail(todo) # <<>>)
    BY DEF NextProof, Labels
  <1>7. RequestTypes'
    BY <1>2, <1>3, <1>5, <1>6 DEF RequestTypes
  <1>8. /\ \A x \in Requests \ {r} : Kept(x)
        /\ pc'[r] = l /\ reply' = reply /\ reply[r] # "ok"
        /\ req'[r] = A /\ \A x \in Requests \ {r} : req'[x] = req[x]
    BY <1>1, <1>2, <1>3, <1>5 DEF RequestTypes, Kept, CredentialRequestInv
  <1>9. /\ A.config = req[r].config /\ A.todo = Tail(todo) /\ A.token = req[r].token
        /\ A.scheme = req[r].scheme /\ A.proof = req[r].proof
        /\ A.stale = req[r].stale /\ A.used = req[r].used \cup {n}
    BY <1>1, <1>2 DEF RequestTypes, Args
  <1>10. Grows /\ TokensShrink
    BY <1>3 DEF Grows, TokensShrink
  <1>11. StoreTypes' /\ NonceInv' /\ CodeInv'
    <2>1. StoreTypes'
      BY <1>2, <1>3, <1>4 DEF StoreTypes
    <2>2. NonceInv'
      BY <1>2, <1>3, <1>4 DEF NonceInv
    <2>3. CodeInv'
      BY <1>2, <1>3 DEF CodeInv
    <2>4. QED
      BY <2>1, <2>2, <2>3
  <1>12. CredentialRequestInv(r)'
    <2>1. req[r].token \in TokenRequests /\ req[r].token \in Requests
          /\ req[r].token # r
      BY <1>1, <1>2 DEF Presented, Requests
    <2>2. Presented(r)'
      BY <1>2, <1>8, <1>9, <2>1 DEF Presented
    <2>3. UsedNonce(r) => UsedNonce(r)'
      BY <1>3, <1>8, <1>9 DEF UsedNonce, HasNonce
    <2>4. ProofBound(r)'
      BY <1>2, <1>8, <1>9, <2>1, <2>3 DEF ProofBound
    <2>5. req'[r].config \in offered'[req'[req'[r].token].code]
      <3>1. req[r].config \in offered[req[req[r].token].code]
        BY <1>1, <1>2 DEF CredentialRequestInv
      <3>2. /\ req'[r].config = req[r].config /\ req'[r].token = req[r].token
            /\ req'[req[r].token] = req[req[r].token] /\ offered' = offered
        BY <1>3, <1>8, <1>9, <2>1
      <3>3. QED
        BY <3>1, <3>2
    <2>6. QED
      BY <1>6, <1>8, <2>2, <2>4, <2>5 DEF CredentialRequestInv
  <1>13. KeyProofInv(r)'
    <2>1. req'[r].todo \in Seq(made)'
      BY <1>2, <1>3, <1>4, <1>8, <1>9 DEF KeyProofInv
    <2>2. req'[r].used \cap req'[r].stale = {}
      <3>1. req[r].used \cap req[r].stale = {} /\ n \notin req[r].stale
        BY <1>1, <1>2 DEF KeyProofInv
      <3>2. req'[r].used = req[r].used \cup {n} /\ req'[r].stale = req[r].stale
        BY <1>8, <1>9
      <3>3. QED
        BY <3>1, <3>2
    <2>3. req'[r].stale \subseteq spentCNonce' \ lingering'
      BY <1>2, <1>3, <1>8, <1>9 DEF KeyProofInv, NonceInv
    <2>4. QED
      BY <1>3, <1>6, <1>8, <1>9, <2>1, <2>2, <2>3 DEF KeyProofInv
  <1>14. QED
    BY <1>1, <1>7, <1>8, <1>10, <1>11, <1>12, <1>13, StepOf DEF RequestInv

\* The credential is handed out.
LEMMA CreateCredentialStep ==
    ASSUME IInv, NEW r \in CredentialRequests, CreateCredential(r)
    PROVE  IInv'
  <1>1. r \in Requests /\ r \notin TokenRequests /\ pc[r] = "create"
        /\ pc[r] # "done" /\ Running(r) /\ UNCHANGED <<storeVars, req, histVars>>
    BY IssuanceAssumption DEF CreateCredential, Requests, Running
  <1>2. /\ RequestTypes /\ CredentialRequestInv(r) /\ KeyProofInv(r)
        /\ Presented(r) /\ ProofBound(r) /\ req[r].token \in Requests
        /\ req[r].token # r
    BY <1>1 DEF IInv, TypeOK, RequestTypes, RequestInv, CredentialRequestInv, Admitted,
       Presented, Requests
  <1>3. pc' = [pc EXCEPT ![r] = "done"] /\ reply' = [reply EXCEPT ![r] = "ok"]
    BY DEF CreateCredential, Answer
  <1>4. RequestTypes'
    BY <1>1, <1>2, <1>3 DEF RequestTypes, Labels, Answers
  <1>5. /\ \A x \in Requests \ {r} : Kept(x)
        /\ pc'[r] = "done" /\ reply'[req[r].token] = reply[req[r].token]
    BY <1>1, <1>2, <1>3 DEF RequestTypes, Kept
  <1>6. CredentialRequestInv(r)'
    <2>1. UsedNonce(r) => UsedNonce(r)'
      BY <1>1 DEF UsedNonce, HasNonce, histVars
    <2>2. Presented(r)' /\ ProofBound(r)'
      BY <1>1, <1>2, <1>5, <2>1 DEF Presented, ProofBound
    <2>3. QED
      BY <1>1, <1>2, <1>5, <2>2 DEF CredentialRequestInv, storeVars
  <1>7. KeyProofInv(r)'
    BY <1>1, <1>2, <1>5 DEF KeyProofInv, storeVars, histVars
  <1>8. QED
    BY <1>1, <1>4, <1>5, <1>6, <1>7, ReadingStep DEF RequestInv

-----------------------------------------------------------------------------
(* The theorems *)

\* Nothing has been requested.
LEMMA InitInv == Init => IInv
  <1> SUFFICES ASSUME Init
               PROVE  IInv
    OBVIOUS
  <1>1. /\ NoArgs \in Args /\ NoArgs.cnf = NoKey /\ NoArgs.todo = <<>>
        /\ NoArgs.stale = {} /\ NoArgs.used = {}
    BY NoArgsType DEF NoArgs
  <1>2. TypeOK
    BY <1>1 DEF Init, TypeOK, Labels, Answers
  <1>3. NonceInv /\ CodeInv /\ TokenInv
    BY DEF Init, NonceInv, CodeInv, TokenInv
  <1>4. AssertedInv
    BY DEF Init, AssertedInv, Admitted, Running, Requests
  <1>5. ASSUME NEW r \in Requests
        PROVE  RequestInv(r)
    <2>1. pc[r] = "idle" /\ reply[r] = "none" /\ req[r] = NoArgs
      BY <1>5 DEF Init
    <2>2. TokenRequestInv(r) /\ CredentialRequestInv(r)
      BY <1>1, <2>1 DEF TokenRequestInv, CredentialRequestInv, Admitted, Running
    <2>3. KeyProofInv(r)
      <3>1. req[r].todo = <<>> /\ req[r].stale = {} /\ req[r].used = {}
        BY <1>1, <2>1
      <3>2. <<>> \in Seq(made)
        OBVIOUS
      <3>3. req[r].todo \in Seq(made)
        BY <3>1, <3>2
      <3>4. QED
        BY <2>1, <3>1, <3>3 DEF KeyProofInv
    <2>4. QED
      BY <2>2, <2>3 DEF RequestInv
  <1>6. QED
    BY <1>2, <1>3, <1>4, <1>5 DEF IInv

\* Every step keeps the invariant.
LEMMA NextInv == IInv /\ [Next]_vars => IInv'
  <1> SUFFICES ASSUME IInv, [Next]_vars
               PROVE  IInv'
    OBVIOUS
  <1>1. CASE Environment
    BY <1>1, EnvironmentStep
  <1>2. CASE Arrival
    <2>1. ASSUME NEW r \in TokenRequests, NEW a \in Clients, RefuseClient(r, a)
          PROVE  IInv'
      BY <2>1, RefusalStep DEF RefuseClient, Answers, Requests
    <2>2. ASSUME NEW r \in TokenRequests, NEW a \in Clients, NEW c \in Codes,
                 NEW p \in Headers, TokenRequest(r, a, c, p)
          PROVE  IInv'
      BY <2>2, TokenRequestStep
    <2>3. ASSUME NEW r \in CredentialRequests, NEW t \in TokenRequests,
                 NEW scheme \in {"bearer", "dpop"}, NEW p \in Headers
          PROVE  /\ CredentialRequest(r, t, scheme, p) => IInv'
                 /\ RefuseAccess(r, t, scheme, p) => IInv'
      <3>1. CredentialRequest(r, t, scheme, p) => IInv'
        BY CredentialRequestStep
      <3>2. RefuseAccess(r, t, scheme, p) =>
               /\ pc[r] # "done" /\ UNCHANGED <<storeVars, histVars>>
               /\ \E a \in {"invalid_dpop_proof", "invalid_token"} : Refuse(r, a)
        BY DEF RefuseAccess
      <3>3. RefuseAccess(r, t, scheme, p) => IInv'
        BY <3>2, RefusalStep DEF Answers, Requests
      <3>4. QED
        BY <3>1, <3>3
    <2>4. QED
      BY <1>2, <2>1, <2>2, <2>3 DEF Arrival
  <1>3. ASSUME NEW r \in TokenRequests, TokenStep(r)
        PROVE  IInv'
    <2>1. RefuseCode(r) => IInv'
      BY RefusalStep DEF RefuseCode, Answers, Requests
    <2>2. ResolveTokenMode(r) \/ RedeemCode(r) \/ SignToken(r) \/ RespondToken(r) => IInv'
      BY ResolveTokenModeStep, RedeemCodeStep, SignTokenStep, RespondTokenStep
    <2>3. ConsumeDpopNonce(r) \/ (\E n \in Nonces : DpopNonceResponse(r, n)) => IInv'
      BY ConsumeDpopNonceStep, DpopNonceResponseStep DEF Requests
    <2>4. SaveTokenJti(r) => IInv'
      BY SaveJtiStep DEF SaveTokenJti, Requests
    <2>5. QED
      BY <1>3, <2>1, <2>2, <2>3, <2>4 DEF TokenStep
  <1>4. ASSUME NEW r \in CredentialRequests, CredentialStep(r)
        PROVE  IInv'
    <2>1. RefuseCNonce(r) => IInv'
      BY RefusalStep DEF RefuseCNonce, Answers, Requests
    <2>2. ConsumeDpopNonce(r) \/ (\E n \in Nonces : DpopNonceResponse(r, n)) => IInv'
      BY ConsumeDpopNonceStep, DpopNonceResponseStep DEF Requests
    <2>3. BindAndSaveJti(r) \/ ValidateCNonce(r) \/ RevokeCNonce(r)
          \/ CreateCredential(r) => IInv'
      BY BindAndSaveJtiStep, ValidateCNonceStep, RevokeCNonceStep, CreateCredentialStep
    <2>4. (\E g \in Configs, ns \in Bodies : FetchAllowed(r, g, ns)) => IInv'
      BY FetchAllowedStep
    <2>5. QED
      BY <1>4, <2>1, <2>2, <2>3, <2>4 DEF CredentialStep
  <1>5. ASSUME NEW r \in Requests, Fail(r)
        PROVE  IInv'
    BY <1>5, RefusalStep DEF Fail, Answers
  <1>6. CASE UNCHANGED vars
    <2>1. UNCHANGED <<pc, req, reply, storeVars, histVars>>
      BY <1>6 DEF vars
    <2>2. Grows /\ TokensShrink /\ \A q \in Requests : Kept(q)
      BY <2>1 DEF Grows, TokensShrink, Kept, storeVars, histVars
    <2>3. TypeOK' /\ NonceInv' /\ CodeInv' /\ TokenInv'
      BY <2>1 DEF IInv, TypeOK, NonceInv, CodeInv, TokenInv, storeVars, histVars
    <2>4. AssertedInv'
      BY <2>1 DEF IInv, AssertedInv, Admitted, Running, storeVars
    <2>5. \A q \in Requests : RequestInv(q)'
      BY <2>2, KeptRequest DEF Requests
    <2>6. QED
      BY <2>3, <2>4, <2>5 DEF IInv
  <1>7. QED
    BY <1>1, <1>2, <1>3, <1>4, <1>5, <1>6 DEF Next

\* The stores and every request always know what IInv says they know.
THEOREM InvariantHolds == Spec => []IInv
  BY InitInv, NextInv, PTL DEF Spec

\* Every state of the issuance is well typed: in particular no nonce store holds
\* a nonce that was not made, and only codes that were offered can be redeemed.
THEOREM TypeCorrect == Spec => []TypeOK
  <1>1. IInv => TypeOK
    BY DEF IInv
  <1>2. QED
    BY <1>1, InvariantHolds, PTL

\* A DPoP proof is honoured once, at either endpoint, whatever the jti store has
\* forgotten: two requests it was honoured for both took its nonce out.
THEOREM ProofHonouredOnceHolds == Spec => []ProofHonouredOnce
  <1>1. ASSUME IInv, NEW r \in Requests, Honoured(r)
        PROVE  UsedNonce(r)
    BY <1>1 DEF IInv, RequestInv, Requests, Honoured, TokenRequestInv,
       CredentialRequestInv, ProofBound
  <1>2. IInv => ProofHonouredOnce
    BY <1>1 DEF IInv, NonceInv, ProofHonouredOnce, UsedNonce, HasNonce
  <1>3. QED
    BY <1>2, InvariantHolds, PTL

\* Neither a code nor a client assertion ever yields two tokens, whatever
\* requests race for it and wherever one of them fails.
THEOREM OneTokenPerGrantHolds == Spec => []OneTokenPerGrant
  <1>1. ASSUME IInv, NEW r \in TokenRequests, reply[r] = "ok"
        PROVE  /\ req[r].code \in Codes /\ r \in winners[req[r].code]
               /\ Admitted(r)
    BY <1>1 DEF IInv, TypeOK, RequestInv, Requests, TokenRequestInv, Args, Admitted
  <1>2. IInv => OneTokenPerGrant
    BY <1>1 DEF IInv, CodeInv, AssertedInv, OneTokenPerGrant
  <1>3. QED
    BY <1>2, InvariantHolds, PTL

\* Every credential goes back to an offer, through the one token of a code; a
\* bound token never passes without a proof of its key over a nonce of its own,
\* whatever happens to the DPoP policy between the requests.
THEOREM CredentialAuthorizedHolds == Spec => []CredentialAuthorized
  <1>1. ASSUME IInv, NEW r \in CredentialRequests, reply[r] = "ok"
        PROVE  LET t == req[r].token
                   p == req[r].proof
               IN  /\ reply[t] = "ok"
                   /\ req[r].config \in offered[req[t].code]
                   /\ winners[req[t].code] = {t}
                   /\ req[t].cnf # NoKey =>
                        /\ p # NoProof /\ p.key = req[t].cnf /\ p.ath = t
                        /\ dpopUse[p.nonce] = {r}
    <2> DEFINE t == req[r].token
               p == req[r].proof
    <2>1. r \in Requests /\ CredentialRequestInv(r) /\ Presented(r) /\ ProofBound(r)
          /\ req[r].scheme \in {"bearer", "dpop"}
      BY <1>1 DEF IInv, TypeOK, RequestInv, Requests, CredentialRequestInv, Admitted, Args
    <2>2. t \in TokenRequests /\ reply[t] = "ok"
      BY <2>1 DEF Presented
    <2>3. req[t].code \in Codes /\ t \in winners[req[t].code]
      BY <1>1, <2>2 DEF IInv, TypeOK, RequestInv, Requests, TokenRequestInv, Args
    <2>4. winners[req[t].code] = {t}
      BY <1>1, <2>3 DEF IInv, CodeInv
    <2>5. req[r].config \in offered[req[t].code]
      BY <1>1, <2>1 DEF CredentialRequestInv
    <2>6. ASSUME req[t].cnf # NoKey
          PROVE  p # NoProof /\ p.key = req[t].cnf /\ p.ath = t /\ dpopUse[p.nonce] = {r}
      <3>1. req[r].scheme = "dpop"
        BY <2>1, <2>6 DEF Presented
      <3>2. /\ p # NoProof /\ p.key = req[t].cnf /\ p.ath = t
            /\ p.nonce \in Nonces /\ r \in dpopUse[p.nonce]
        BY <2>1, <3>1 DEF Presented, ProofBound, UsedNonce, HasNonce
      <3>3. dpopUse[p.nonce] = {r}
        BY <1>1, <3>2 DEF IInv, NonceInv
      <3>4. QED
        BY <3>2, <3>3
    <2>7. QED
      BY <2>2, <2>4, <2>5, <2>6
  <1>2. IInv => CredentialAuthorized
    BY <1>1 DEF CredentialAuthorized
  <1>3. QED
    BY <1>2, InvariantHolds, PTL

\* A c_nonce that was used up lets no request through that began when its deletion
\* had reached every replica, on any nonce store.
THEOREM SpentCNonceStaysSpentHolds == Spec => []SpentCNonceStaysSpent
  <1>1. IInv => SpentCNonceStaysSpent
    BY DEF IInv, RequestInv, Requests, KeyProofInv, SpentCNonceStaysSpent
  <1>2. QED
    BY <1>1, InvariantHolds, PTL

-----------------------------------------------------------------------------
(* The endpoints refine CredentialGrant *)

\* Where a request is once it has redeemed its code.
Won == {"sign", "entry", "done"}

\* Nobody redeems twice: the requests that redeemed a code are past that step.
WinnerInv == \A c \in Codes : \A t \in winners[c] : pc[t] \in Won

GrantInv == IInv /\ WinnerInv

\* The step changes nothing that the grant sees.
Quiet ==
    /\ UNCHANGED <<offered, live, winners>>
    /\ \A t \in TokenRequests : Sent(t)' = Sent(t)
    /\ \A r \in CredentialRequests : Issued(r)' = Issued(r)
    /\ \A t \in TokenRequests : pc[t] \in Won => pc'[t] \in Won

\* Such a step is a stutter of the grant.
LEMMA QuietStutters ==
    ASSUME GrantInv, Quiet
    PROVE  UNCHANGED Grant!vars /\ WinnerInv'
  <1>1. UNCHANGED Grant!vars
    BY DEF Quiet, Grant!vars
  <1>2. WinnerInv'
    <2>1. \A c \in Codes : winners[c] \subseteq TokenRequests
      BY DEF GrantInv, IInv, TypeOK
    <2>2. QED
      BY <2>1 DEF GrantInv, WinnerInv, Quiet
  <1>3. QED
    BY <1>1, <1>2

\* A request that a step leaves alone shows the grant what it showed.
LEMMA KeptShows ==
    ASSUME NEW q, Kept(q)
    PROVE  Sent(q)' = Sent(q) /\ Issued(q)' = Issued(q)
  BY DEF Kept, Sent, Issued

\* A request that has not ended, or not with ok, has been sent nothing.
LEMMA NothingShown ==
    ASSUME NEW q, reply[q] # "ok"
    PROVE  Sent(q) = {} /\ Issued(q) = {}
  BY DEF Sent, Issued

\* A request that has not ended has not been answered.
LEMMA NotAnswered ==
    ASSUME IInv, NEW r \in Requests, pc[r] # "done"
    PROVE  reply[r] # "ok"
  BY DEF IInv, RequestInv, Requests, TokenRequestInv, CredentialRequestInv

\* A step of one request that redeems nothing and is not answered with ok.
LEMMA QuietRequest ==
    ASSUME IInv, NEW r \in Requests, pc[r] # "done",
           \A q \in Requests \ {r} : Kept(q),
           reply'[r] # "ok",
           pc[r] \in Won => pc'[r] \in Won,
           UNCHANGED <<offered, live, winners>>
    PROVE  Quiet
  <1>1. Sent(r)' = Sent(r) /\ Issued(r)' = Issued(r)
    <2>1. Sent(r) = {} /\ Issued(r) = {}
      BY NotAnswered, NothingShown
    <2>2. Sent(r)' = {} /\ Issued(r)' = {}
      BY DEF Sent, Issued
    <2>3. QED
      BY <2>1, <2>2
  <1>2. \A q \in Requests \ {r} :
           /\ Sent(q)' = Sent(q) /\ Issued(q)' = Issued(q)
           /\ pc'[q] = pc[q]
    BY KeptShows DEF Kept
  <1>3. QED
    BY <1>1, <1>2 DEF Quiet, Requests

\* A refusal shows the grant nothing.
LEMMA QuietRefusal ==
    ASSUME IInv, NEW r \in Requests, pc[r] # "done",
           NEW a \in Answers \ {"ok"}, Refuse(r, a),
           UNCHANGED <<offered, live, winners>>
    PROVE  Quiet
  <1>1. \A q \in Requests \ {r} : Kept(q)
    BY Refused
  <1>2. pc'[r] = "done" /\ reply'[r] = a
    BY DEF IInv, TypeOK, Refuse, Answer
  <1>3. QED
    BY <1>1, <1>2, QuietRequest DEF Won

\* Nor does a request that only goes on.
LEMMA QuietProceed ==
    ASSUME IInv, NEW r \in Requests, Running(r),
           NEW l \in Labels \ {"idle", "done"}, Proceed(r, l),
           pc[r] \in Won => l \in Won,
           UNCHANGED <<offered, live, winners>>
    PROVE  Quiet
  <1>1. /\ \A q \in Requests \ {r} : Kept(q)
        /\ pc'[r] = l /\ reply' = reply /\ reply[r] # "ok"
    BY Proceeded
  <1>2. QED
    BY <1>1, QuietRequest DEF Running

\* Nor does one that goes on with new arguments.
LEMMA QuietMove ==
    ASSUME IInv, NEW r \in Requests, pc[r] # "done", pc[r] \notin Won,
           NEW l, Goto(r, l),
           \A q \in Requests \ {r} : req'[q] = req[q],
           UNCHANGED <<offered, live, winners>>
    PROVE  Quiet
  <1>1. pc' = [pc EXCEPT ![r] = l] /\ reply' = reply
    BY DEF Goto
  <1>2. \A q \in Requests \ {r} : Kept(q)
    BY <1>1 DEF Kept, IInv, TypeOK
  <1>3. QED
    BY <1>1, <1>2, NotAnswered, QuietRequest

\* What the operator and time do: an offer is made, a code withdrawn; the rest
\* the grant does not see.
LEMMA EnvironmentRefines ==
    ASSUME GrantInv, Environment
    PROVE  /\ Grant!Next \/ UNCHANGED Grant!vars
           /\ WinnerInv'
  <1>1. UNCHANGED <<pc, req, reply, winners>>
    BY DEF Environment, WithdrawCode, Offer, SetPolicy, CreateNonce, RevokeNonce,
       CatchUp, ForgetJti, ExpireToken, ForgetAllowed, histVars
  <1>2. /\ \A t \in TokenRequests : Sent(t)' = Sent(t)
        /\ \A r \in CredentialRequests : Issued(r)' = Issued(r)
    BY <1>1 DEF Sent, Issued
  <1>3. WinnerInv'
    BY <1>1 DEF GrantInv, WinnerInv
  <1>4. ASSUME NEW c \in Codes, NEW gs \in (SUBSET Configs) \ {{}}, Offer(c, gs)
        PROVE  Grant!Next
    <2>1. Grant!Offer(c, gs)
      BY <1>1, <1>2, <1>4 DEF Offer, Grant!Offer
    <2>2. QED
      BY <2>1 DEF Grant!Next
  <1>5. ASSUME NEW c \in Codes, WithdrawCode(c)
        PROVE  Grant!Next
    <2>1. Grant!Withdraw(c)
      BY <1>1, <1>2, <1>5 DEF WithdrawCode, Grant!Withdraw
    <2>2. QED
      BY <2>1 DEF Grant!Next
  <1>6. CASE UNCHANGED <<offered, live>>
    BY <1>1, <1>2, <1>3, <1>6 DEF Grant!vars
  <1>7. \/ \E c \in Codes, gs \in (SUBSET Configs) \ {{}} : Offer(c, gs)
        \/ \E c \in Codes : WithdrawCode(c)
        \/ UNCHANGED <<offered, live>>
    BY DEF Environment, SetPolicy, CreateNonce, RevokeNonce, CatchUp, ForgetJti,
       ExpireToken, ForgetAllowed
  <1>8. QED
    BY <1>3, <1>4, <1>5, <1>6, <1>7

\* An arriving request, let in or not, has been sent nothing.
LEMMA ArrivalQuiet ==
    ASSUME IInv, Arrival
    PROVE  Quiet
  <1>1. ASSUME NEW r \in TokenRequests, NEW a \in Clients, RefuseClient(r, a)
        PROVE  Quiet
    BY <1>1, QuietRefusal DEF RefuseClient, Answers, Requests, storeVars, histVars
  <1>2. ASSUME NEW r \in TokenRequests, NEW a \in Clients, NEW c \in Codes,
               NEW p \in Headers, TokenRequest(r, a, c, p)
        PROVE  Quiet
    <2>1. /\ r \in Requests /\ pc[r] = "idle" /\ Goto(r, "mode")
          /\ UNCHANGED <<offered, live, winners>>
      BY <1>2 DEF TokenRequest, Requests, histVars
    <2>2. \A q \in Requests \ {r} : req'[q] = req[q]
      BY <1>2 DEF TokenRequest, IInv, TypeOK
    <2>3. QED
      BY <2>1, <2>2, QuietMove DEF Won
  <1>3. ASSUME NEW r \in CredentialRequests, NEW t \in TokenRequests,
               NEW scheme \in {"bearer", "dpop"}, NEW p \in Headers,
               CredentialRequest(r, t, scheme, p)
        PROVE  Quiet
    <2> DEFINE l == IF scheme = "bearer" THEN "body"
                    ELSE IF p.nonce = NoNonce THEN "challenge" ELSE "nonce"
    <2>1. /\ r \in Requests /\ pc[r] = "idle" /\ Goto(r, l)
          /\ UNCHANGED <<offered, live, winners>>
      BY <1>3 DEF CredentialRequest, Requests, storeVars, histVars
    <2>2. \A q \in Requests \ {r} : req'[q] = req[q]
      BY <1>3 DEF CredentialRequest, IInv, TypeOK
    <2>3. QED
      BY <2>1, <2>2, QuietMove DEF Won
  <1>4. ASSUME NEW r \in CredentialRequests, NEW t \in TokenRequests,
               NEW scheme \in {"bearer", "dpop"}, NEW p \in Headers,
               RefuseAccess(r, t, scheme, p)
        PROVE  Quiet
    <2>1. /\ r \in Requests /\ pc[r] # "done" /\ UNCHANGED <<offered, live, winners>>
          /\ \E a \in {"invalid_dpop_proof", "invalid_token"} : Refuse(r, a)
      BY <1>4 DEF RefuseAccess, Requests, storeVars, histVars
    <2>2. QED
      BY <2>1, QuietRefusal DEF Answers
  <1>5. QED
    BY <1>1, <1>2, <1>3, <1>4 DEF Arrival

\* The steps that concern DPoP show the grant nothing, at either endpoint.
LEMMA DpopQuiet ==
    ASSUME IInv, NEW r \in Requests,
           \/ ConsumeDpopNonce(r)
           \/ \E n \in Nonces : DpopNonceResponse(r, n)
           \/ SaveTokenJti(r)
           \/ BindAndSaveJti(r)
    PROVE  Quiet
  <1>1. CASE ConsumeDpopNonce(r)
    <2> DEFINE l == IF req[r].proof.nonce \in nonces THEN "jti" ELSE "challenge"
    <2>1. /\ pc[r] = "nonce" /\ Proceed(r, l)
          /\ UNCHANGED <<offered, live, winners>>
      BY <1>1 DEF ConsumeDpopNonce
    <2>2. QED
      BY <2>1, QuietProceed DEF Running, Won, Labels
  <1>2. CASE \E n \in Nonces : DpopNonceResponse(r, n)
    BY <1>2, QuietRefusal DEF DpopNonceResponse, Answers, histVars
  <1>3. CASE SaveTokenJti(r) \/ BindAndSaveJti(r)
    <2>1. /\ pc[r] = "jti" /\ UNCHANGED <<offered, live, winners>>
          /\ \/ Refuse(r, "invalid_dpop_proof")
             \/ Proceed(r, "code") \/ Proceed(r, "body")
      BY <1>3 DEF SaveTokenJti, BindAndSaveJti, SaveJti, storeVars, histVars
    <2>2. CASE Refuse(r, "invalid_dpop_proof")
      BY <2>1, <2>2, QuietRefusal DEF Answers
    <2>3. CASE Proceed(r, "code") \/ Proceed(r, "body")
      BY <2>1, <2>3, QuietProceed DEF Running, Won, Labels
    <2>4. QED
      BY <2>1, <2>2, <2>3
  <1>4. QED
    BY <1>1, <1>2, <1>3

\* At POST /token, neither does what is done before and after the code is
\* redeemed, until the token is sent.
LEMMA TokenRequestQuiet ==
    ASSUME IInv, NEW r \in TokenRequests,
           ResolveTokenMode(r) \/ RefuseCode(r) \/ SignToken(r)
    PROVE  Quiet
  <1>1. r \in Requests
    BY DEF Requests
  <1>2. CASE ResolveTokenMode(r)
    <2>1. pc[r] = "mode" /\ UNCHANGED <<offered, live, winners>>
      BY <1>2 DEF ResolveTokenMode, storeVars, histVars
    <2>2. \/ Refuse(r, "invalid_request") \/ Refuse(r, "invalid_dpop_proof")
          \/ Proceed(r, "code")
          \/ /\ \E l : Goto(r, l)
             /\ \E k : req' = [req EXCEPT ![r].cnf = k]
      BY <1>2 DEF ResolveTokenMode
    <2>3. CASE Refuse(r, "invalid_request") \/ Refuse(r, "invalid_dpop_proof")
      BY <1>1, <2>1, <2>3, QuietRefusal DEF Answers
    <2>4. CASE Proceed(r, "code")
      BY <1>1, <2>1, <2>4, QuietProceed DEF Running, Won, Labels
    <2>5. CASE (\E l : Goto(r, l)) /\ (\E k : req' = [req EXCEPT ![r].cnf = k])
      <3>1. \A q \in Requests \ {r} : req'[q] = req[q]
        BY <2>5 DEF IInv, TypeOK
      <3>2. QED
        BY <1>1, <2>1, <2>5, <3>1, QuietMove DEF Won
    <2>6. QED
      BY <2>2, <2>3, <2>4, <2>5
  <1>3. CASE RefuseCode(r)
    BY <1>1, <1>3, QuietRefusal DEF RefuseCode, Answers, storeVars, histVars
  <1>4. CASE SignToken(r)
    <2>1. /\ pc[r] = "sign" /\ UNCHANGED <<offered, live, winners>>
          /\ Proceed(r, "entry") \/ Refuse(r, "internal_server_error")
      BY <1>4 DEF SignToken, storeVars, histVars
    <2>2. CASE Proceed(r, "entry")
      BY <1>1, <2>1, <2>2, QuietProceed DEF Running, Won, Labels
    <2>3. CASE Refuse(r, "internal_server_error")
      BY <1>1, <2>1, <2>3, QuietRefusal DEF Answers
    <2>4. QED
      BY <2>1, <2>2, <2>3
  <1>5. QED
    BY <1>2, <1>3, <1>4

\* Nor what POST /credentials does before it creates the credential.
LEMMA CredentialRequestQuiet ==
    ASSUME IInv, NEW r \in CredentialRequests,
           \/ \E g \in Configs, ns \in Bodies : FetchAllowed(r, g, ns)
           \/ ValidateCNonce(r) \/ RefuseCNonce(r) \/ RevokeCNonce(r)
    PROVE  Quiet
  <1>1. r \in Requests
    BY DEF Requests
  <1>2. CASE \E g \in Configs, ns \in Bodies : FetchAllowed(r, g, ns)
    <2>1. PICK g \in Configs, ns \in Bodies : FetchAllowed(r, g, ns)
      BY <1>2
    <2>2. pc[r] = "body" /\ UNCHANGED <<offered, live, winners>>
      BY <2>1 DEF FetchAllowed, storeVars, histVars
    <2>3. CASE Refuse(r, "invalid_credential_request") \/ Refuse(r, "invalid_proof")
      BY <1>1, <2>2, <2>3, QuietRefusal DEF Answers
    <2>4. CASE /\ Goto(r, NextProof(ns))
               /\ req' = [req EXCEPT ![r].config = g, ![r].todo = ns]
      <3>1. \A q \in Requests \ {r} : req'[q] = req[q]
        BY <2>4 DEF IInv, TypeOK
      <3>2. QED
        BY <1>1, <2>2, <2>4, <3>1, QuietMove DEF Won
    <2>5. QED
      BY <2>1, <2>3, <2>4 DEF FetchAllowed
  <1>3. CASE ValidateCNonce(r)
    <2>1. pc[r] = "validate" /\ Proceed(r, "revoke") /\ UNCHANGED <<offered, live, winners>>
      BY <1>3 DEF ValidateCNonce, storeVars, histVars
    <2>2. QED
      BY <1>1, <2>1, QuietProceed DEF Running, Won, Labels
  <1>4. CASE RefuseCNonce(r)
    BY <1>1, <1>4, QuietRefusal DEF RefuseCNonce, Answers, storeVars, histVars
  <1>5. CASE RevokeCNonce(r)
    <2>1. /\ pc[r] = "revoke" /\ UNCHANGED <<offered, live, winners>>
          /\ Goto(r, NextProof(Tail(req[r].todo)))
      BY <1>5 DEF RevokeCNonce, UseCNonce
    <2>2. \A q \in Requests \ {r} : req'[q] = req[q]
      BY <1>5 DEF RevokeCNonce, UseCNonce, IInv, TypeOK
    <2>3. QED
      BY <1>1, <2>1, <2>2, QuietMove DEF Won
  <1>6. QED
    BY <1>2, <1>3, <1>4, <1>5

\* Redeeming a code takes it out of those that can be redeemed, for a request
\* that has redeemed none.
LEMMA RedeemCodeRefines ==
    ASSUME GrantInv, NEW r \in TokenRequests, RedeemCode(r)
    PROVE  Grant!Next /\ WinnerInv'
  <1> DEFINE c == req[r].code
  <1>1. /\ r \in Requests /\ pc[r] = "code" /\ Running(r) /\ IInv
        /\ Proceed(r, "sign") /\ "sign" \in Labels \ {"idle", "done"}
    BY DEF RedeemCode, Requests, Running, Labels, GrantInv
  <1>2. StoreTypes /\ CodeInv /\ c \in Codes
    BY <1>1 DEF IInv, TypeOK, StoreTypes, Args
  <1>3. /\ c \in live /\ live' = live \ {c} /\ offered' = offered
        /\ winners' = [winners EXCEPT ![c] = @ \cup {r}]
    BY DEF RedeemCode
  <1>4. winners[c] = {}
    BY <1>2, <1>3 DEF CodeInv
  <1>5. winners' = [winners EXCEPT ![c] = {r}]
    BY <1>2, <1>3, <1>4 DEF StoreTypes
  <1>6. \A d \in Codes : r \notin winners[d]
    BY <1>1 DEF GrantInv, WinnerInv, Won
  <1>7. /\ \A q \in Requests \ {r} : Kept(q)
        /\ pc'[r] = "sign" /\ req' = req /\ reply' = reply
    BY <1>1, Proceeded
  <1>8. /\ \A t \in TokenRequests : Sent(t)' = Sent(t)
        /\ \A q \in CredentialRequests : Issued(q)' = Issued(q)
    BY <1>7 DEF Sent, Issued
  <1>9. Grant!Redeem(c, r)
    BY <1>3, <1>5, <1>6, <1>8 DEF Grant!Redeem
  <1>10. WinnerInv'
    <2>1. \A d \in Codes : \A t \in winners'[d] : t = r \/ t \in winners[d]
      BY <1>2, <1>5 DEF StoreTypes
    <2>2. \A d \in Codes : \A t \in winners[d] : t # r /\ t \in Requests
      BY <1>2, <1>6 DEF StoreTypes, Requests
    <2>3. QED
      BY <1>7, <2>1, <2>2 DEF GrantInv, WinnerInv, Won, Kept
  <1>11. QED
    BY <1>2, <1>9, <1>10 DEF Grant!Next

\* The token is sent to the request that redeemed its code; no other request
\* was sent one for its assertion.
LEMMA RespondTokenRefines ==
    ASSUME GrantInv, NEW r \in TokenRequests, RespondToken(r)
    PROVE  Grant!Next /\ WinnerInv'
  <1> DEFINE c == req[r].code
             a == req[r].auth
             k == req[r].cnf
             sent == [t \in TokenRequests |-> Sent(t)]
  <1>1. /\ r \in Requests /\ r \notin CredentialRequests /\ pc[r] = "entry" /\ Running(r)
        /\ pc' = [pc EXCEPT ![r] = "done"] /\ reply' = [reply EXCEPT ![r] = "ok"]
        /\ UNCHANGED <<req, offered, live, winners>> /\ IInv
    BY IssuanceAssumption
       DEF RespondToken, Answer, Requests, Running, histVars, GrantInv
  <1>2. /\ RequestTypes /\ TokenRequestInv(r) /\ AssertedInv
        /\ c \in Codes /\ a \in Clients /\ k \in Keys \cup {NoKey}
    BY <1>1 DEF IInv, TypeOK, RequestTypes, RequestInv, Args
  <1>3. r \in winners[c]
    BY <1>1, <1>2 DEF TokenRequestInv
  <1>4. Sent(r) = {}
    BY <1>1, NotAnswered, NothingShown
  <1>5. \A q \in Requests \ {r} : Kept(q) /\ Sent(q)' = Sent(q) /\ Issued(q)' = Issued(q)
    <2>1. \A q \in Requests \ {r} : Kept(q)
      BY <1>1, <1>2 DEF RequestTypes, Kept
    <2>2. QED
      BY <2>1, KeptShows
  <1>6. Sent(r)' = {[code |-> c, client |-> a, key |-> k]}
    <2>1. reply'[r] = "ok" /\ req'[r] = req[r]
      BY <1>1, <1>2 DEF RequestTypes
    <2>2. QED
      BY <2>1 DEF Sent
  <1>7. ASSUME a \in Assertions, NEW u \in TokenRequests, NEW token \in Sent(u)
        PROVE  token.client # a
    <2>1. reply[u] = "ok" /\ token.client = req[u].auth
      BY <1>7 DEF Sent
    <2>2. u # r
      BY <1>4, <1>7
    <2>3. Admitted(u) /\ Admitted(r)
      BY <1>1, <2>1 DEF Admitted
    <2>4. QED
      BY <1>2, <1>7, <2>1, <2>2, <2>3 DEF AssertedInv
  <1>8. sent' = [sent EXCEPT ![r] = {[code |-> c, client |-> a, key |-> k]}]
    BY <1>5, <1>6 DEF Requests
  <1>9. \A q \in CredentialRequests : Issued(q)' = Issued(q)
    BY <1>1, <1>5 DEF Requests
  <1>10. Grant!Send(r, a, k)
    <2>1. sent[r] = {}
      BY <1>4
    <2>2. a \in Assertions => \A u \in TokenRequests : \A token \in sent[u] : token.client # a
      BY <1>7
    <2>3. [q \in CredentialRequests |-> Issued(q)]' = [q \in CredentialRequests |-> Issued(q)]
      BY <1>9
    <2>4. QED
      BY <1>1, <1>2, <1>3, <1>8, <2>1, <2>2, <2>3 DEF Grant!Send
  <1>11. WinnerInv'
    <2>1. \A d \in Codes : winners[d] \subseteq TokenRequests
      BY <1>1 DEF IInv, TypeOK
    <2>2. pc'[r] = "done" /\ \A t \in TokenRequests \ {r} : pc'[t] = pc[t]
      BY <1>1, <1>2 DEF RequestTypes, Requests
    <2>3. QED
      BY <1>1, <2>1, <2>2 DEF GrantInv, WinnerInv, Won
  <1>12. QED
    BY <1>2, <1>10, <1>11 DEF Grant!Next

\* The credential is issued for a token that was sent, of a configuration its
\* code was offered with, with the key the token is bound to.
LEMMA CreateCredentialRefines ==
    ASSUME GrantInv, NEW r \in CredentialRequests, CreateCredential(r)
    PROVE  Grant!Next /\ WinnerInv'
  <1> DEFINE t == req[r].token
             g == req[r].config
             token == [code |-> req[t].code, client |-> req[t].auth, key |-> req[t].cnf]
             issued == [q \in CredentialRequests |-> Issued(q)]
  <1>1. /\ r \in Requests /\ r \notin TokenRequests /\ pc[r] = "create" /\ Running(r)
        /\ pc' = [pc EXCEPT ![r] = "done"] /\ reply' = [reply EXCEPT ![r] = "ok"]
        /\ UNCHANGED <<req, offered, live, winners>> /\ IInv
    BY IssuanceAssumption
       DEF CreateCredential, Answer, Requests, Running, storeVars, histVars, GrantInv
  <1>2. /\ RequestTypes /\ CredentialRequestInv(r) /\ Presented(r) /\ ProofBound(r)
        /\ req[r].scheme \in {"bearer", "dpop"}
    BY <1>1 DEF IInv, TypeOK, RequestTypes, RequestInv, CredentialRequestInv, Admitted,
       Args
  <1>3. /\ t \in TokenRequests /\ Sent(t) = {token}
        /\ g \in offered[token.code]
    <2>1. t \in TokenRequests /\ reply[t] = "ok"
      BY <1>2 DEF Presented
    <2>2. g \in offered[req[t].code]
      BY <1>1, <1>2 DEF CredentialRequestInv
    <2>3. QED
      BY <2>1, <2>2 DEF Sent
  <1>4. token.key = IF req[r].scheme = "dpop" THEN req[r].proof.key ELSE NoKey
    BY <1>2 DEF Presented, ProofBound
  <1>5. Issued(r) = {}
    BY <1>1, NotAnswered, NothingShown
  <1>6. \A q \in Requests \ {r} : Kept(q) /\ Sent(q)' = Sent(q) /\ Issued(q)' = Issued(q)
    <2>1. \A q \in Requests \ {r} : Kept(q)
      BY <1>1, <1>2 DEF RequestTypes, Kept
    <2>2. QED
      BY <2>1, KeptShows
  <1>7. Issued(r)' = {[token |-> t, config |-> g, key |-> token.key]}
    <2>1. reply'[r] = "ok" /\ req'[r] = req[r]
      BY <1>1, <1>2 DEF RequestTypes
    <2>2. Issued(r)' = {[token |-> t, config |-> g,
                         key |-> IF req[r].scheme = "dpop" THEN req[r].proof.key
                                 ELSE NoKey]}
      BY <2>1 DEF Issued
    <2>3. QED
      BY <1>4, <2>2
  <1>8. issued' = [issued EXCEPT ![r] = {[token |-> t, config |-> g, key |-> token.key]}]
    BY <1>6, <1>7 DEF Requests
  <1>9. \A q \in TokenRequests : Sent(q)' = Sent(q)
    BY <1>1, <1>6 DEF Requests
  <1>10. Grant!Issue(r, t)
    <2>1. issued[r] = {} /\ [q \in TokenRequests |-> Sent(q)][t] = {token}
      BY <1>3, <1>5
    <2>2. [q \in TokenRequests |-> Sent(q)]' = [q \in TokenRequests |-> Sent(q)]
      BY <1>9
    <2>3. \E x \in [q \in TokenRequests |-> Sent(q)][t] : \E y \in offered[x.code] :
             issued' = [issued EXCEPT ![r] = {[token |-> t, config |-> y, key |-> x.key]}]
      BY <1>3, <1>8, <2>1
    <2>4. QED
      BY <1>1, <2>1, <2>2, <2>3 DEF Grant!Issue
  <1>11. WinnerInv'
    <2>1. \A d \in Codes : winners[d] \subseteq TokenRequests
      BY <1>1 DEF IInv, TypeOK
    <2>2. \A q \in TokenRequests : pc'[q] = pc[q]
      BY <1>1, <1>2 DEF RequestTypes, Requests
    <2>3. QED
      BY <1>1, <2>1, <2>2 DEF GrantInv, WinnerInv
  <1>12. QED
    BY <1>3, <1>10, <1>11 DEF Grant!Next

\* Before the first offer the grant has nothing either.
LEMMA GrantInit == Init => Grant!Init /\ WinnerInv
  <1> SUFFICES ASSUME Init
               PROVE  Grant!Init /\ WinnerInv
    OBVIOUS
  <1>1. \A r \in Requests : Sent(r) = {} /\ Issued(r) = {}
    BY DEF Init, Sent, Issued
  <1>2. Grant!Init
    BY <1>1 DEF Init, Grant!Init, Requests
  <1>3. QED
    BY <1>2 DEF Init, WinnerInv

\* Every step of the endpoints is one of the grant or a stutter.
LEMMA GrantStep == GrantInv /\ [Next]_vars => [Grant!Next]_Grant!vars /\ WinnerInv'
  <1> SUFFICES ASSUME GrantInv, [Next]_vars
               PROVE  (Grant!Next \/ UNCHANGED Grant!vars) /\ WinnerInv'
    OBVIOUS
  <1> DEFINE Goal == (Grant!Next \/ UNCHANGED Grant!vars) /\ WinnerInv'
  <1>1. IInv /\ (Quiet => Goal)
    BY QuietStutters DEF GrantInv
  <1>2. CASE Environment
    BY <1>2, EnvironmentRefines
  <1>3. CASE Arrival
    BY <1>1, <1>3, ArrivalQuiet
  <1>4. ASSUME NEW r \in TokenRequests, TokenStep(r)
        PROVE  Goal
    <2>1. RedeemCode(r) \/ RespondToken(r) => Goal
      BY RedeemCodeRefines, RespondTokenRefines
    <2>2. ResolveTokenMode(r) \/ RefuseCode(r) \/ SignToken(r) => Goal
      BY <1>1, TokenRequestQuiet
    <2>3. \/ ConsumeDpopNonce(r) \/ SaveTokenJti(r)
          \/ (\E n \in Nonces : DpopNonceResponse(r, n))
          => Goal
      BY <1>1, DpopQuiet DEF Requests
    <2>4. QED
      BY <1>4, <2>1, <2>2, <2>3 DEF TokenStep
  <1>5. ASSUME NEW r \in CredentialRequests, CredentialStep(r)
        PROVE  Goal
    <2>1. CreateCredential(r) => Goal
      BY CreateCredentialRefines
    <2>2. \/ (\E g \in Configs, ns \in Bodies : FetchAllowed(r, g, ns))
          \/ ValidateCNonce(r) \/ RefuseCNonce(r) \/ RevokeCNonce(r)
          => Goal
      BY <1>1, CredentialRequestQuiet
    <2>3. \/ ConsumeDpopNonce(r) \/ BindAndSaveJti(r)
          \/ (\E n \in Nonces : DpopNonceResponse(r, n))
          => Goal
      BY <1>1, DpopQuiet DEF Requests
    <2>4. QED
      BY <1>5, <2>1, <2>2, <2>3 DEF CredentialStep
  <1>6. ASSUME NEW r \in Requests, Fail(r)
        PROVE  Goal
    <2>1. pc[r] # "done" /\ Refuse(r, "failure") /\ UNCHANGED <<offered, live, winners>>
      BY <1>6 DEF Fail, storeVars, histVars
    <2>2. QED
      BY <1>1, <2>1, QuietRefusal DEF Answers
  <1>7. CASE UNCHANGED vars
    <2>1. UNCHANGED <<pc, req, reply, offered, live, winners>>
      BY <1>7 DEF vars, storeVars, histVars
    <2>2. Quiet
      BY <2>1 DEF Quiet, Sent, Issued
    <2>3. QED
      BY <1>1, <2>2
  <1>8. QED
    BY <1>2, <1>3, <1>4, <1>5, <1>6, <1>7 DEF Next

\* The endpoints implement the grant: for any number of requests, offers, keys
\* and policies, whatever the stores forget and wherever requests fail, a code is
\* redeemed by one request or withdrawn, that request is sent at most one token
\* and an assertion yields one, and credentials go to what was offered and to
\* the key the token is bound to.
THEOREM CredentialGrantRefined == Spec => RefinesCredentialGrant
  <1>1. Init => Grant!Init /\ GrantInv
    BY GrantInit, InitInv DEF GrantInv
  <1>2. GrantInv /\ [Next]_vars => GrantInv'
    BY GrantStep, NextInv DEF GrantInv
  <1>3. GrantInv /\ [Next]_vars => [Grant!Next]_Grant!vars
    BY GrantStep
  <1>4. QED
    BY <1>1, <1>2, <1>3, PTL DEF Spec, RefinesCredentialGrant, Grant!Spec

=============================================================================
