------------------------------ MODULE Issuance ------------------------------
(***************************************************************************)
(* Issuing a credential: the offer, POST /token, POST /nonce and           *)
(* POST /credentials, served by any number of concurrent requests over     *)
(* shared stores.                                                          *)
(*                                                                         *)
(* A request is a sequence of round trips to the stores; between two of    *)
(* them any other request may run, a store entry may expire, the operator  *)
(* may change the DPoP policy, and the process serving it may die.  One    *)
(* nonce store serves the c_nonce of key proofs and the nonce of DPoP      *)
(* proofs.  The pre-authorized code is the one-shot object of              *)
(* CodeRedemption: consume() hands it to one request or refuses.           *)
(***************************************************************************)
EXTENDS Naturals, Sequences, FiniteSets

CONSTANTS Codes, Configs,     \* pre-authorized codes, credential configurations
          TokenRequests,      \* calls of POST /token; a token is named by its call
          CredentialRequests, \* calls of POST /credentials
          Keys, Jtis, Nonces, \* DPoP keys, jti values of proofs, nonce values
          Assertions,         \* client assertions of the private_key_jwt client
          Clients,            \* how clients identify themselves: an assertion, or
          Anonymous,          \*   neither client_id nor assertion, or
          PublicClient,       \*   the client_id of a client with auth method none
          NoProof, NoNonce, NoToken, NoKey,
          AnonymousAccess,    \* pre-authorized_grant_anonymous_access_supported
          StaleReads,         \* validate() of the nonce store may miss the latest writes
                              \* (DynamoDB's eventually consistent GetItem)
          Modes,              \* the DPoP modes the operator uses
          MaxProofs           \* bound on the key proofs of one request

Requests == TokenRequests \cup CredentialRequests

Kind(auth) == IF auth = Anonymous THEN "anonymous_client" ELSE "default_client"

\* The policy buckets that some client falls into; POST /nonce asks for the
\* second.
Kinds == {Kind(a) : a \in Clients} \cup {"default_client"}

ASSUME IssuanceAssumption ==
    /\ TokenRequests \cap CredentialRequests = {}
    /\ Anonymous \notin Assertions /\ PublicClient \notin Assertions
    /\ Anonymous # PublicClient
    /\ Clients \subseteq Assertions \cup {Anonymous, PublicClient} /\ Clients # {}
    /\ NoNonce \notin Nonces /\ NoToken \notin TokenRequests /\ NoKey \notin Keys
    /\ AnonymousAccess \in BOOLEAN /\ StaleReads \in BOOLEAN
    /\ Modes \subseteq {"off", "optional", "required"}
    /\ Codes # {} /\ Configs # {}
    /\ MaxProofs \in Nat

\* A well-formed DPoP proof: htu is /token exactly when it carries no ath.
DpopProofs == [jti : Jtis, key : Keys, ath : TokenRequests \cup {NoToken},
               nonce : Nonces \cup {NoNonce}]

ASSUME NoProofAssumption == NoProof \notin DpopProofs

VARIABLES
    offered,     \* code -> configurations of its offer; {}: no offer yet
    live,        \* codes that can be redeemed
    mode,        \* client kind -> effective DPoP mode
    made,        \* history: nonces generated so far
    nonces,      \* nonces the store holds and that have not expired
    lingering,   \* nonces that were removed and that some replica still shows
    jtis,        \* <<key, jti>> pairs the DPoP jti store remembers
    asserted,    \* assertions whose jti the assertion jti store remembers; it does
                 \* so until they expire (AssertionAcceptedOnce of ReplayGuard)
    valid,       \* tokens that were handed out and have not expired
    allowed,     \* token -> its entry in the allowed-configuration store
    pc,          \* request -> where it is
    req,         \* request -> its arguments and local variables
    reply,       \* request -> how it ended
    dpopUse,     \* history: nonce -> requests that consumed it for a DPoP proof
    winners,     \* history: code -> requests that redeemed it
    spentCNonce  \* history: c_nonces some credential request has used up

storeVars == <<lingering, offered, live, mode, made, nonces, jtis, asserted,
               valid, allowed>>
histVars  == <<dpopUse, winners, spentCNonce>>
vars      == <<storeVars, pc, req, reply, histVars>>

\* auth and code belong to a token request, cnf is the key its token is bound
\* to; token to used belong to a credential request: todo are the nonces of the
\* key proofs still to verify, used those it was let through with, and stale
\* (a history) the c_nonces whose use was over, on every replica, before it began.
Args == [auth : Clients, code : Codes, proof : DpopProofs \cup {NoProof},
         cnf : Keys \cup {NoKey},
         token : TokenRequests \cup {NoToken}, scheme : {"bearer", "dpop"},
         config : Configs, todo : Seq(Nonces),
         stale : SUBSET Nonces, used : SUBSET Nonces]

\* Before the request arrives, and after it was refused.
NoArgs == [auth |-> CHOOSE a \in Clients : TRUE, code |-> CHOOSE c \in Codes : TRUE,
           proof |-> NoProof, cnf |-> NoKey, token |-> NoToken, scheme |-> "bearer",
           config |-> CHOOSE g \in Configs : TRUE, todo |-> <<>>,
           stale |-> {}, used |-> {}]

Answers == {"none", "ok", "invalid_client", "invalid_request", "invalid_dpop_proof",
            "use_dpop_nonce", "invalid_grant", "internal_server_error",
            "invalid_token", "invalid_credential_request", "invalid_nonce",
            "invalid_proof", "failure"}

-----------------------------------------------------------------------------
\* DPoP protects the request: the mode is not off and a proof came with it.
UsesDpop(r, m) == m # "off" /\ req[r].proof # NoProof

Init ==
    /\ offered = [c \in Codes |-> {}]
    /\ live = {}
    /\ lingering = {}
    /\ mode \in [Kinds -> Modes]
    /\ made = {} /\ nonces = {} /\ jtis = {} /\ asserted = {}
    /\ valid = {}
    /\ allowed = [t \in TokenRequests |-> {}]
    /\ pc = [r \in Requests |-> "idle"]
    /\ req = [r \in Requests |-> NoArgs]
    /\ reply = [r \in Requests |-> "none"]
    /\ dpopUse = [n \in Nonces |-> {}]
    /\ winners = [c \in Codes |-> {}]
    /\ spentCNonce = {}

Goto(r, l) == pc' = [pc EXCEPT ![r] = l] /\ UNCHANGED reply

Answer(r, a) ==
    /\ pc' = [pc EXCEPT ![r] = "done"]
    /\ reply' = [reply EXCEPT ![r] = a]

\* An error is answered; nothing of the request stays.
Refuse(r, a) == Answer(r, a) /\ req' = [req EXCEPT ![r] = NoArgs]

\* The request goes on with the arguments it has.
Proceed(r, l) == Goto(r, l) /\ UNCHANGED req

-----------------------------------------------------------------------------
(* The operator, time, and the endpoints without a request state *)

\* offerCredential(): the code is saved with its configurations.
Offer(c, gs) ==
    /\ offered[c] = {}
    /\ offered' = [offered EXCEPT ![c] = gs]
    /\ live' = live \cup {c}
    /\ UNCHANGED <<lingering, mode, made, nonces, jtis, asserted, valid,
                   allowed, pc, req, reply, histVars>>

\* createAuthzOAuthPolicy() or createAuthzOAuthClient() changes what applies.
SetPolicy(k, m) ==
    /\ mode[k] # m
    /\ mode' = [mode EXCEPT ![k] = m]
    /\ UNCHANGED <<lingering, offered, live, made, nonces, jtis, asserted,
                   valid, allowed, pc, req, reply, histVars>>

\* POST /nonce: a c_nonce and, unless DPoP is off for registered clients, a
\* DPoP nonce of its own.
CreateNonce(ns) ==
    /\ ns \cap made = {}
    /\ Cardinality(ns) = IF mode["default_client"] = "off" THEN 1 ELSE 2
    /\ made' = made \cup ns
    /\ nonces' = nonces \cup ns
    /\ UNCHANGED <<lingering, offered, live, mode, jtis, asserted, valid,
                   allowed, pc, req, reply, histVars>>

\* A nonce is deleted where writes go; replicas that reads go to follow later.
DeleteNonce(n) ==
    /\ nonces' = nonces \ {n}
    /\ lingering' = IF StaleReads THEN lingering \cup ({n} \cap nonces) ELSE lingering

\* A nonce expires, DELETE /nonce/:nonce revokes it, or the in-memory store is
\* restarted.
RevokeNonce(n) ==
    /\ n \in nonces
    /\ DeleteNonce(n)
    /\ UNCHANGED <<offered, live, mode, made, jtis, asserted,
                   valid, allowed, pc, req, reply, histVars>>

\* The deletion of a nonce has reached every replica.
CatchUp(n) ==
    /\ n \in lingering
    /\ lingering' = lingering \ {n}
    /\ UNCHANGED <<offered, live, mode, made, nonces, jtis, asserted,
                   valid, allowed, pc, req, reply, histVars>>

\* The jti store forgets a proof: its entry expired (ReplayGuard shows that
\* this can be early) or the in-memory store was restarted.
ForgetJti(j) ==
    /\ j \in jtis
    /\ jtis' = jtis \ {j}
    /\ UNCHANGED <<lingering, offered, live, mode, made, nonces, asserted,
                   valid, allowed, pc, req, reply, histVars>>

\* A code expires or is locked out.
WithdrawCode(c) ==
    /\ c \in live
    /\ live' = live \ {c}
    /\ UNCHANGED <<lingering, offered, mode, made, nonces, jtis, asserted,
                   valid, allowed, pc, req, reply, histVars>>

ExpireToken(t) ==
    /\ t \in valid
    /\ valid' = valid \ {t}
    /\ UNCHANGED <<lingering, offered, live, mode, made, nonces, jtis,
                   asserted, allowed, pc, req, reply, histVars>>

\* The entry expires, or was lost with the in-memory store.
ForgetAllowed(t) ==
    /\ allowed[t] # {}
    /\ allowed' = [allowed EXCEPT ![t] = {}]
    /\ UNCHANGED <<lingering, offered, live, mode, made, nonces, jtis,
                   asserted, valid, pc, req, reply, histVars>>

-----------------------------------------------------------------------------
(* POST /token *)

\* A request arrives with DPoP header p; resolveTokenRequestClientPolicy() up to
\* the policy lookup: anonymous access must be supported, and the jti of an
\* assertion is saved if it is new.
TokenRequest(r, a, c, p) ==
    /\ pc[r] = "idle"
    /\ a = Anonymous => AnonymousAccess
    /\ a \notin asserted
    /\ asserted' = asserted \cup ({a} \cap Assertions)
    /\ req' = [req EXCEPT ![r].auth = a, ![r].code = c, ![r].proof = p]
    /\ Goto(r, "mode")
    /\ UNCHANGED <<lingering, offered, live, mode, made, nonces, jtis, valid,
                   allowed, histVars>>

\* Otherwise the client is refused.
RefuseClient(r, a) ==
    /\ pc[r] = "idle"
    /\ \/ a = Anonymous /\ ~AnonymousAccess
       \/ a \in asserted
    /\ Refuse(r, "invalid_client")
    /\ UNCHANGED <<storeVars, histVars>>

\* The DPoP mode is looked up, the header checked against it and the proof
\* verified: its htu must be /token, and a nonce is required.
ResolveTokenMode(r) ==
    LET m == mode[Kind(req[r].auth)]
        p == req[r].proof
    IN  /\ pc[r] = "mode"
        /\ IF ~UsesDpop(r, m)
           THEN IF m = "required" THEN Refuse(r, "invalid_request")
                                  ELSE Proceed(r, "code")
           ELSE IF p.ath # NoToken THEN Refuse(r, "invalid_dpop_proof")
           ELSE /\ Goto(r, IF p.nonce = NoNonce THEN "challenge" ELSE "nonce")
                /\ req' = [req EXCEPT ![r].cnf = p.key]
        /\ UNCHANGED <<storeVars, histVars>>

\* Mutant: the nonce is validated and left in the store.
ValidateDpopNonce(r) ==
    LET n == req[r].proof.nonce
    IN  /\ pc[r] = "nonce"
        /\ dpopUse' = [dpopUse EXCEPT ![n] = IF n \in nonces THEN @ \cup {r} ELSE @]
        /\ Proceed(r, IF n \in nonces THEN "jti" ELSE "challenge")
        /\ UNCHANGED <<storeVars, winners, spentCNonce>>

\* nonceStore.consume() at either endpoint: remove the nonce and say whether
\* it was there.
ConsumeDpopNonce(r) ==
    LET n == req[r].proof.nonce
    IN  /\ pc[r] = "nonce"
        /\ DeleteNonce(n)
        /\ dpopUse' = [dpopUse EXCEPT ![n] = IF n \in nonces THEN @ \cup {r} ELSE @]
        /\ Proceed(r, IF n \in nonces THEN "jti" ELSE "challenge")
        /\ UNCHANGED <<offered, live, mode, made, jtis, asserted,
                       valid, allowed, winners, spentCNonce>>

\* dpopNonceResponse(): a new nonce is saved and sent with use_dpop_nonce.
DpopNonceResponse(r, n) ==
    /\ pc[r] = "challenge"
    /\ n \notin made
    /\ made' = made \cup {n}
    /\ nonces' = nonces \cup {n}
    /\ Refuse(r, "use_dpop_nonce")
    /\ UNCHANGED <<lingering, offered, live, mode, jtis, asserted, valid,
                   allowed, histVars>>

\* Mutant: the jti is not scoped to its key.
SaveBareJti(r, next) ==
    LET j == req[r].proof.jti
    IN  /\ jtis' = jtis \cup {j}
        /\ IF j \in jtis THEN Refuse(r, "invalid_dpop_proof") ELSE Proceed(r, next)
        /\ UNCHANGED <<lingering, offered, live, mode, made, nonces, asserted,
                       valid, allowed, histVars>>

\* dpopProofJtiStore.saveIfAbsent(thumbprint, jti), then on to next.
SaveJti(r, next) ==
    LET j == <<req[r].proof.key, req[r].proof.jti>>
    IN  /\ jtis' = jtis \cup {j}
        /\ IF j \in jtis THEN Refuse(r, "invalid_dpop_proof") ELSE Proceed(r, next)
        /\ UNCHANGED <<lingering, offered, live, mode, made, nonces, asserted,
                       valid, allowed, histVars>>

SaveTokenJti(r) == pc[r] = "jti" /\ SaveJti(r, "code")

\* Mutant: the code is looked up and left in the store.
LookUpCode(r) ==
    LET c == req[r].code
    IN  /\ pc[r] = "code"
        /\ c \in live
        /\ winners' = [winners EXCEPT ![c] = @ \cup {r}]
        /\ Proceed(r, "sign")
        /\ UNCHANGED <<storeVars, dpopUse, spentCNonce>>

\* codeStore.consume() hands the code over.
RedeemCode(r) ==
    LET c == req[r].code
    IN  /\ pc[r] = "code"
        /\ c \in live
        /\ live' = live \ {c}
        /\ winners' = [winners EXCEPT ![c] = @ \cup {r}]
        /\ Proceed(r, "sign")
        /\ UNCHANGED <<lingering, offered, mode, made, nonces, jtis, asserted,
                       valid, allowed, dpopUse, spentCNonce>>

\* codeStore.consume() refuses: unknown, gone, or a wrong tx_code.
RefuseCode(r) ==
    /\ pc[r] = "code"
    /\ Refuse(r, "invalid_grant")
    /\ UNCHANGED <<storeVars, histVars>>

\* authzKey.sign() yields a signature, or none: then the code is spent.
SignToken(r) ==
    /\ pc[r] = "sign"
    /\ Proceed(r, "entry") \/ Refuse(r, "internal_server_error")
    /\ UNCHANGED <<storeVars, histVars>>

\* The configurations the code was offered with are saved under the token's
\* hash, and the token is sent.
RespondToken(r) ==
    /\ pc[r] = "entry"
    /\ allowed' = [allowed EXCEPT ![r] = offered[req[r].code]]
    /\ valid' = valid \cup {r}
    /\ Answer(r, "ok")
    /\ UNCHANGED <<lingering, offered, live, mode, made, nonces, jtis, asserted,
                   req, histVars>>

-----------------------------------------------------------------------------
(* POST /credentials *)

\* Mutant: a bound token passes as a bearer token.
AdmissibleUnbound(t, scheme, p, m) ==
    /\ t \in valid
    /\ m = "off" => scheme = "bearer" /\ p = NoProof
    /\ scheme = "bearer" => m # "required"
    /\ scheme = "dpop" => p # NoProof /\ req[t].cnf # NoKey

\* authorizeCredentialEndpointAccess() up to the first write, for a request
\* that presents token t under a scheme with DPoP header p: the token must be
\* valid, and the policy m of its client decides what may come with it.
Admissible(t, scheme, p, m) ==
    /\ t \in valid
    /\ m = "off" => scheme = "bearer" /\ p = NoProof
    /\ scheme = "bearer" => m # "required" /\ req[t].cnf = NoKey
    /\ scheme = "dpop" => p # NoProof /\ req[t].cnf # NoKey

\* A DPoP header beside a bearer token is not looked at.
CredentialRequest(r, t, scheme, p) ==
    /\ pc[r] = "idle"
    /\ Admissible(t, scheme, p, mode[Kind(req[t].auth)])
    /\ scheme = "dpop" => p.ath = t
    /\ req' = [req EXCEPT ![r].token = t, ![r].scheme = scheme,
                          ![r].proof = IF scheme = "dpop" THEN p ELSE NoProof,
                          ![r].stale = spentCNonce \ lingering]
    /\ Goto(r, IF scheme = "bearer" THEN "body"
               ELSE IF p.nonce = NoNonce THEN "challenge" ELSE "nonce")
    /\ UNCHANGED <<storeVars, histVars>>

\* Otherwise access is refused: invalid_dpop_proof where a proof is missing or
\* made for something else, invalid_token for the rest.
RefuseAccess(r, t, scheme, p) ==
    LET m == mode[Kind(req[t].auth)]
    IN  /\ pc[r] = "idle"
        /\ \/ /\ ~Admissible(t, scheme, p, m)
              /\ Refuse(r, IF t \in valid /\ scheme = "dpop" /\ p = NoProof
                              /\ m # "off"
                           THEN "invalid_dpop_proof" ELSE "invalid_token")
           \/ /\ Admissible(t, scheme, p, m)
              /\ scheme = "dpop" /\ p.ath # t
              /\ Refuse(r, "invalid_dpop_proof")
        /\ UNCHANGED <<storeVars, histVars>>

\* The proof's key must be the token's; only then is the jti recorded.
BindAndSaveJti(r) ==
    /\ pc[r] = "jti"
    /\ IF req[r].proof.key # req[req[r].token].cnf
       THEN Refuse(r, "invalid_dpop_proof") /\ UNCHANGED <<storeVars, histVars>>
       ELSE SaveJti(r, "body")

\* Where the loop over the key proofs goes with ns to verify.
NextProof(ns) == IF ns = <<>> THEN "create" ELSE "validate"

\* The body is read and the requested configuration looked up among those of
\* the token; ns are the nonces of its key proofs.  A proof without a nonce needs
\* nothing of the store, a body without any proof is refused.
FetchAllowed(r, g, ns) ==
    /\ pc[r] = "body"
    /\ \/ /\ g \notin allowed[req[r].token]
          /\ Refuse(r, "invalid_credential_request")
       \/ /\ g \in allowed[req[r].token]
          /\ ns = <<>>
          /\ Refuse(r, "invalid_proof")
       \/ /\ g \in allowed[req[r].token]
          /\ req' = [req EXCEPT ![r].config = g, ![r].todo = ns]
          /\ Goto(r, NextProof(ns))
    /\ UNCHANGED <<storeVars, histVars>>

\* cnonceStore.validate() finds the nonce of the next key proof.
ValidateCNonce(r) ==
    LET n == Head(req[r].todo)
    IN  /\ pc[r] = "validate"
        /\ n \in nonces \cup lingering
        /\ Proceed(r, "revoke")
        /\ UNCHANGED <<storeVars, histVars>>

\* cnonceStore.validate() does not find it; a replica that is behind may not have it
\* yet.
RefuseCNonce(r) ==
    /\ pc[r] = "validate"
    /\ Head(req[r].todo) \notin nonces \/ StaleReads
    /\ Refuse(r, "invalid_nonce")
    /\ UNCHANGED <<storeVars, histVars>>

\* The key proof passed: its nonce is used up, and the loop goes on.
UseCNonce(r) ==
    LET n == Head(req[r].todo)
    IN  /\ spentCNonce' = spentCNonce \cup {n}
        /\ req' = [req EXCEPT ![r].todo = Tail(@), ![r].used = @ \cup {n}]
        /\ Goto(r, NextProof(Tail(req[r].todo)))

\* Mutant: the nonce of a key proof is only validated.
KeepCNonce(r) ==
    /\ pc[r] = "revoke"
    /\ UseCNonce(r)
    /\ UNCHANGED <<storeVars, dpopUse, winners>>

\* cnonceStore.revoke(), whose result is not looked at.
RevokeCNonce(r) ==
    /\ pc[r] = "revoke"
    /\ DeleteNonce(Head(req[r].todo))
    /\ UseCNonce(r)
    /\ UNCHANGED <<offered, live, mode, made, jtis, asserted, valid,
                   allowed, dpopUse, winners>>

CreateCredential(r) ==
    /\ pc[r] = "create"
    /\ Answer(r, "ok")
    /\ UNCHANGED <<storeVars, req, histVars>>

\* A round trip throws or the process dies; what was written stays.
Fail(r) ==
    /\ pc[r] \notin {"idle", "done"}
    /\ Refuse(r, "failure")
    /\ UNCHANGED <<storeVars, histVars>>

-----------------------------------------------------------------------------
Environment ==
    \/ \E c \in Codes : WithdrawCode(c)
    \/ \E c \in Codes, gs \in (SUBSET Configs) \ {{}} : Offer(c, gs)
    \/ \E k \in Kinds, m \in Modes : SetPolicy(k, m)
    \/ \E ns \in SUBSET Nonces : CreateNonce(ns)
    \/ \E n \in Nonces : RevokeNonce(n) \/ CatchUp(n)
    \/ \E j \in Keys \X Jtis : ForgetJti(j)
    \/ \E t \in TokenRequests : ExpireToken(t) \/ ForgetAllowed(t)

\* Nonces are unguessable: a value that was not handed out is like an expired
\* one, so only values handed out are presented.
Known == made \cup {NoNonce}

Headers == {p \in DpopProofs : p.nonce \in Known} \cup {NoProof}

\* The nonces of the key proofs of a body.
Bodies == UNION {[1..k -> made] : k \in 0..MaxProofs}

Arrival ==
    \/ \E r \in TokenRequests, a \in Clients :
          \/ RefuseClient(r, a)
          \/ \E c \in Codes, p \in Headers : TokenRequest(r, a, c, p)
    \/ \E r \in CredentialRequests, t \in TokenRequests,
          scheme \in {"bearer", "dpop"}, p \in Headers :
             CredentialRequest(r, t, scheme, p) \/ RefuseAccess(r, t, scheme, p)

TokenStep(r) ==
    \/ ResolveTokenMode(r) \/ ConsumeDpopNonce(r) \/ SaveTokenJti(r)
    \/ RedeemCode(r) \/ RefuseCode(r) \/ SignToken(r) \/ RespondToken(r)
    \/ \E n \in Nonces : DpopNonceResponse(r, n)

CredentialStep(r) ==
    \/ ConsumeDpopNonce(r) \/ BindAndSaveJti(r)
    \/ \E g \in Configs, ns \in Bodies : FetchAllowed(r, g, ns)
    \/ ValidateCNonce(r) \/ RefuseCNonce(r)
    \/ RevokeCNonce(r) \/ CreateCredential(r)
    \/ \E n \in Nonces : DpopNonceResponse(r, n)

Next ==
    \/ Environment
    \/ Arrival
    \/ \E r \in TokenRequests : TokenStep(r)
    \/ \E r \in CredentialRequests : CredentialStep(r)
    \/ \E r \in Requests : Fail(r)

Spec == Init /\ [][Next]_vars

-----------------------------------------------------------------------------
(* Properties *)

Labels == {"idle", "mode", "nonce", "challenge", "jti", "code", "sign", "entry",
           "body", "validate", "revoke", "create", "done"}

TypeOK ==
    /\ offered \in [Codes -> SUBSET Configs]
    /\ live \subseteq {c \in Codes : offered[c] # {}}
    /\ mode \in [Kinds -> Modes]
    /\ made \subseteq Nonces /\ nonces \subseteq made /\ lingering \subseteq made
    /\ jtis \subseteq Keys \X Jtis
    /\ asserted \subseteq Assertions
    /\ valid \subseteq TokenRequests
    /\ allowed \in [TokenRequests -> SUBSET Configs]
    /\ pc \in [Requests -> Labels]
    /\ req \in [Requests -> Args]
    /\ reply \in [Requests -> Answers]
    /\ dpopUse \in [Nonces -> SUBSET Requests]
    /\ winners \in [Codes -> SUBSET TokenRequests]
    /\ spentCNonce \subseteq Nonces

\* The request succeeded on the strength of its DPoP proof.
Honoured(r) ==
    /\ reply[r] = "ok"
    /\ IF r \in TokenRequests THEN req[r].cnf # NoKey ELSE req[r].scheme = "dpop"

\* A DPoP proof is honoured once across both endpoints even when the jti store
\* forgets it: with nonceRequired the one-time nonce is what stops a replay.
ProofHonouredOnce ==
    \A r1, r2 \in Requests :
        Honoured(r1) /\ Honoured(r2) /\ req[r1].proof = req[r2].proof => r1 = r2

\* One grant, one token: neither a code nor a client assertion ever yields a
\* second token, whatever requests race for it and wherever one of them fails.
OneTokenPerGrant ==
    \A r1, r2 \in TokenRequests :
        /\ reply[r1] = "ok"
        /\ reply[r2] = "ok"
        /\ \/ req[r1].code = req[r2].code
           \/ req[r1].auth = req[r2].auth /\ req[r1].auth \in Assertions
        => r1 = r2

\* Every credential goes back to an offer: its token was sent to the one
\* request that redeemed a code offered for this configuration, and a token
\* bound to a key was used with a proof of that key, for that token, over a
\* nonce nobody else used.  Policy changes between the requests, and between
\* the round trips of one, do not let a bound token through as a bearer token.
CredentialAuthorized ==
    \A r \in CredentialRequests : reply[r] = "ok" =>
        LET t == req[r].token
            p == req[r].proof
        IN  /\ reply[t] = "ok"
            /\ req[r].config \in offered[req[t].code]
            /\ winners[req[t].code] = {t}
            /\ req[t].cnf # NoKey =>
                 /\ p # NoProof
                 /\ p.key = req[t].cnf
                 /\ p.ath = t
                 /\ dpopUse[p.nonce] = {r}

\* A key proof is fresh at least in this sense: a c_nonce that some request has
\* used up lets no request through that began later, counted from when its
\* deletion has reached every replica.  (validate and revoke are two round trips,
\* so requests that overlap can share one, and on DynamoDB so can requests within
\* the replication delay.)
SpentCNonceStaysSpent ==
    \A r \in CredentialRequests : req[r].used \cap req[r].stale = {}

\* The token a request was sent, the credential it got: what the grant of
\* CredentialGrant sees of a request.
Sent(t) ==
    IF reply[t] = "ok"
    THEN {[code |-> req[t].code, client |-> req[t].auth, key |-> req[t].cnf]}
    ELSE {}

Issued(r) ==
    IF reply[r] = "ok"
    THEN {[token |-> req[r].token, config |-> req[r].config,
           key |-> IF req[r].scheme = "dpop" THEN req[r].proof.key ELSE NoKey]}
    ELSE {}

Grant == INSTANCE CredentialGrant WITH
    tokens <- [t \in TokenRequests |-> Sent(t)],
    credentials <- [r \in CredentialRequests |-> Issued(r)]

\* Each step of the two endpoints, whatever their stores expire and forget and
\* wherever a request fails, is a step of the grant or none: a code is redeemed
\* once, a credential is issued only for a token that was sent, of a
\* configuration its code was offered with, over a proof with the token's key.
RefinesCredentialGrant == Grant!Spec

=============================================================================
