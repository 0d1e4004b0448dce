------------------------ MODULE ClientAuthentication ------------------------
(***************************************************************************)
(* Who a token request comes from and which DPoP mode it falls under:      *)
(* resolveTokenRequestClientPolicy() and the checks of POST /token before  *)
(* the code is redeemed.  The client's registration, the server's metadata *)
(* and the OAuth policy are three documents read one after the other,      *)
(* while an operator may save new ones.                                    *)
(*                                                                         *)
(* A document is a record whose optional fields may be Absent.  The time   *)
(* checks of an assertion and its jti's lifetime are ReplayGuard's.        *)
(***************************************************************************)
EXTENDS Integers, FiniteSets

CONSTANTS Requests,       \* requests served at a time
          Clients,
          Keys,           \* signature keys of clients and of anybody else
          KeyAlg,         \* key -> the alg its registered JWK names, or Absent
          Assertions,     \* client assertions that are sent
          Registrations,  \* client documents that are saved
          Policies,       \* OAuth policy documents that are saved
          Metadata,       \* metadata the server may be registered with
          Backends,       \* stores looked at: "memory", "dynamodb", "firestore"
          MaxSaves,       \* bound on the saves of an operator
          Absent, NoClient, NoAssertion

Algs == {"ES256", "ES384", "HS256", "none"}
Modes == {"off", "optional", "required"}
ClientKinds == {"default_client", "anonymous_client"}
Headers == {"ok", "missing", "malformed"}   \* what parseDpopHeader() finds

SenderConstraint == [method : {"none", "dpop", "mtls", Absent}, mode : Modes \cup {Absent}]
ClientDocs == [enabled : BOOLEAN \cup {Absent},
               method  : {"none", "private_key_jwt", "client_secret_basic", Absent},
               alg     : Algs \cup {Absent},
               aud     : {"here", "elsewhere", Absent},
               keys    : (SUBSET Keys) \cup {Absent},
               sc      : SenderConstraint \cup {Absent}]
PolicyDocs == [ClientKinds -> SenderConstraint \cup {Absent}]
MetadataDocs == [anonymous : BOOLEAN, pkjwt : BOOLEAN, algs : SUBSET Algs]

\* An assertion's kid names a registered key; claims says that exp, iat, nbf
\* and jti are there and pass.
AssertionDocs == [jwt : BOOLEAN, iss : Clients \cup {NoClient}, sub : Clients \cup {NoClient},
                  signer : Keys, kid : Keys \cup {Absent}, alg : Algs,
                  aud : {"here", "elsewhere"}, claims : BOOLEAN, bearer : BOOLEAN]

ASSUME ClientAuthenticationAssumption ==
    /\ Assertions \subseteq AssertionDocs
    /\ Registrations \subseteq ClientDocs
    /\ Policies \subseteq PolicyDocs
    /\ Metadata \subseteq MetadataDocs
    /\ KeyAlg \in [Keys -> Algs \cup {Absent}]
    /\ Backends \subseteq {"memory", "dynamodb", "firestore"}
    /\ MaxSaves \in Nat
    /\ NoAssertion \notin Assertions /\ NoClient \notin Clients
    /\ Absent \notin ClientDocs \cup PolicyDocs

VARIABLES
    backend, metadata,
    registry,  \* client -> its document, or Absent
    policy,    \* the OAuth policy document, or Absent
    clientReads, policyReads,  \* what a read of either may return now
    saves,     \* saves so far
    jtis,      \* assertions whose jti is stored
    req,       \* request -> [pc, client_id, assertion, preAuth, doc, mode, proof]
    inForce,   \* history: request -> [doc, mode] pairs in force since it arrived
    outdated   \* history: request -> [docs, policies] replaced before it arrived that
               \* some replica still showed then

storeVars == <<backend, metadata, registry, policy, clientReads, policyReads, saves>>
histVars  == <<inForce, outdated>>
vars      == <<storeVars, jtis, req, histVars>>

-----------------------------------------------------------------------------
(* Reading a request *)

\* extractClientIdFromClientAssertion(): iss or sub, none when they disagree.
IdFromAssertion(a) ==
    CASE a = NoAssertion -> NoClient
      [] a # NoAssertion /\ a.iss # NoClient /\ a.sub # NoClient /\ a.iss # a.sub -> NoClient
      [] OTHER -> IF a.iss # NoClient THEN a.iss ELSE a.sub

\* getTokenRequestClientId(): the body's client_id goes before the assertion.
ClientId(q) == IF q.client_id # NoClient THEN q.client_id ELSE IdFromAssertion(q.assertion)

ClientKind(q) == IF ClientId(q) = NoClient THEN "anonymous_client" ELSE "default_client"

AuthMethod(d) == IF d.method = Absent THEN "none" ELSE d.method

\* resolveTokenRequestPolicyClientContext(): the registered method is one the
\* server implements, and private_key_jwt comes with an assertion of its type.
HasAuthMaterial(q, d) ==
    \/ AuthMethod(d) = "none"
    \/ AuthMethod(d) = "private_key_jwt" /\ q.assertion # NoAssertion /\ q.assertion.bearer

\* Nothing to look up: anonymous, unless an assertion names nobody.
AnonymousOk(q) == ClientId(q) = NoClient /\ q.assertion = NoAssertion

-----------------------------------------------------------------------------
(* verifyPrivateKeyJwtClientAuthentication() *)

\* getExpectedClientAssertionAudiences()
ExpectedAud(d) == IF d.aud = Absent THEN "here" ELSE d.aud

\* selectClientAssertionJwk(): the key kid names, or the only one.
SelectedKeys(d, a) ==
    LET keys == IF d.keys = Absent THEN {} ELSE d.keys
    IN  IF a.kid # Absent THEN keys \cap {a.kid}
        ELSE IF Cardinality(keys) = 1 THEN keys ELSE {}

\* Mutant: sub is not compared, and anybody's signature does for the kid.
AssertionVerifiesIss(x, d, a) ==
    /\ a # NoAssertion /\ a.bearer /\ a.jwt
    /\ a.iss = x
    /\ a.claims
    /\ a.alg \notin {"none", "HS256"}
    /\ metadata # Absent /\ metadata.pkjwt /\ a.alg \in metadata.algs
    /\ d.alg \in {Absent, a.alg}
    /\ \E k \in SelectedKeys(d, a) : KeyAlg[k] \in {Absent, a.alg}
    /\ a.aud = ExpectedAud(d)

\* Every check of the assertion, the signature last.
AssertionVerifies(x, d, a) ==
    /\ a # NoAssertion /\ a.bearer /\ a.jwt
    /\ a.iss = x /\ a.sub = x
    /\ a.claims
    /\ a.alg \notin {"none", "HS256"}
    /\ metadata # Absent /\ metadata.pkjwt /\ a.alg \in metadata.algs
    /\ d.alg \in {Absent, a.alg}
    /\ a.signer \in SelectedKeys(d, a) /\ KeyAlg[a.signer] \in {Absent, a.alg}
    /\ a.aud = ExpectedAud(d)

-----------------------------------------------------------------------------
(* resolveAuthzPolicyDpopMode() *)

\* A document with a constraint of its own, be it an empty one.
Own(d) == d # Absent /\ d.sc # Absent

\* It goes before the policy's.
Constraint(d, p, kind) ==
    IF Own(d) THEN d.sc
    ELSE IF p # Absent THEN p[kind] ELSE Absent

PolicyMode(d, p, kind) ==
    LET sc == Constraint(d, p, kind)
    IN  CASE sc = Absent -> "off"
          [] sc # Absent /\ sc.method \in {"none", "mtls"} -> "off"
          [] OTHER -> IF sc.mode = Absent THEN "off" ELSE sc.mode

-----------------------------------------------------------------------------
(* The operator *)

\* Firestore's set() with merge: fields that are left out keep their value,
\* inside a nested document too.
MergeDoc(old, new) ==
    IF old = Absent THEN new
    ELSE IF new = Absent THEN old
    ELSE [f \in DOMAIN new |-> IF new[f] = Absent THEN old[f] ELSE new[f]]

MergeClient(old, new) ==
    IF old = Absent THEN new
    ELSE [MergeDoc(old, new) EXCEPT !.sc = MergeDoc(old.sc, new.sc)]

MergePolicy(old, new) ==
    IF old = Absent THEN new
    ELSE [k \in ClientKinds |-> MergeDoc(old[k], new[k])]

\* Mutant: a disabled client is found.
FoundDisabled(d) == d

\* A disabled client is not found.
Found(d) == IF d # Absent /\ d.enabled = FALSE THEN Absent ELSE d

\* What is in force for request q under a registry and a policy.
InForceFor(q, reg, p) ==
    LET d == IF ClientId(q) = NoClient THEN Absent ELSE Found(reg[ClientId(q)])
    IN  [doc |-> d, mode |-> PolicyMode(d, p, ClientKind(q))]

\* What a read of the registry may return for q.
DocsFor(q) ==
    IF ClientId(q) = NoClient THEN {Absent} ELSE {Found(d) : d \in clientReads[ClientId(q)]}

Active(r) == req[r].pc \notin {"idle", "admitted", "refused", "failed"}

Observe(reg, p) ==
    inForce' = [r \in Requests |->
                  IF Active(r) THEN inForce[r] \cup {InForceFor(req[r], reg, p)} ELSE inForce[r]]

\* After a document is written, DynamoDB's replicas may show it or an older one.
Reads(old, doc) == {doc} \cup IF backend = "dynamodb" THEN old ELSE {}

\* createAuthzOAuthClient()
SaveClient(x, d) ==
    LET doc == IF backend = "firestore" THEN MergeClient(registry[x], d) ELSE d
    IN  /\ saves < MaxSaves
        /\ registry' = [registry EXCEPT ![x] = doc]
        /\ clientReads' = [clientReads EXCEPT ![x] = Reads(@, doc)]
        /\ saves' = saves + 1
        /\ Observe(registry', policy)
        /\ UNCHANGED <<backend, metadata, policy, policyReads, jtis, req, outdated>>

\* createAuthzOAuthPolicy()
SavePolicy(p) ==
    /\ saves < MaxSaves
    /\ policy' = IF backend = "firestore" THEN MergePolicy(policy, p) ELSE p
    /\ policyReads' = Reads(policyReads, policy')
    /\ saves' = saves + 1
    /\ Observe(registry, policy')
    /\ UNCHANGED <<backend, metadata, registry, clientReads, jtis, req, outdated>>

\* Every replica shows the latest registration of x, or the latest policy.
CatchUpClient(x) ==
    /\ clientReads[x] # {registry[x]}
    /\ clientReads' = [clientReads EXCEPT ![x] = {registry[x]}]
    /\ UNCHANGED <<backend, metadata, registry, policy, policyReads, saves, jtis, req, histVars>>

CatchUpPolicy ==
    /\ policyReads # {policy}
    /\ policyReads' = {policy}
    /\ UNCHANGED <<backend, metadata, registry, policy, clientReads, saves, jtis, req, histVars>>

-----------------------------------------------------------------------------
(* POST /token *)

Idle == [pc |-> "idle", client_id |-> NoClient, assertion |-> NoAssertion, preAuth |-> FALSE,
         doc |-> Absent, mode |-> "off", proof |-> FALSE]

Nothing == [docs |-> {}, policies |-> {}]

Init ==
    /\ backend \in Backends
    /\ metadata \in Metadata \cup {Absent}
    /\ registry = [x \in Clients |-> Absent]
    /\ policy = Absent
    /\ clientReads = [x \in Clients |-> {Absent}]
    /\ policyReads = {Absent}
    /\ saves = 0
    /\ jtis = {}
    /\ req = [r \in Requests |-> Idle]
    /\ inForce = [r \in Requests |-> {}]
    /\ outdated = [r \in Requests |-> Nothing]

\* An answer is sent: nothing of the request is kept but how it ended.
End(r, pc) ==
    /\ req' = [req EXCEPT ![r] = [Idle EXCEPT !.pc = pc]]
    /\ inForce' = [inForce EXCEPT ![r] = {}]
    /\ outdated' = [outdated EXCEPT ![r] = Nothing]

Goto(r, pc, d) ==
    /\ req' = [req EXCEPT ![r].pc = pc, ![r].doc = d]
    /\ UNCHANGED histVars

\* The request arrives.  A client id leads to the registry; without one the
\* metadata is needed for a pre-authorized code only, and nothing else of the
\* grant is looked at.
Arrive(r, x, a, pre) ==
    LET q == [Idle EXCEPT !.client_id = x, !.assertion = a, !.preAuth = pre]
        f == InForceFor(q, registry, policy)
    IN  /\ ~Active(r)
        /\ (ClientId(q) # NoClient /\ ~pre) \/ AnonymousOk(q)
        /\ req' = [req EXCEPT ![r] = [q EXCEPT !.pc =
                     IF ClientId(q) # NoClient THEN "client"
                     ELSE IF pre THEN "metadata" ELSE "policy"]]
        /\ inForce' = [inForce EXCEPT ![r] = {f}]
        /\ outdated' = [outdated EXCEPT ![r] = [docs |-> DocsFor(q) \ {f.doc},
                                                policies |-> policyReads \ {policy}]]
        /\ UNCHANGED <<storeVars, jtis>>

\* An assertion that names nobody.
ArriveUnnamed(r, a) ==
    /\ ~Active(r)
    /\ ClientId([Idle EXCEPT !.assertion = a]) = NoClient
    /\ ~AnonymousOk([Idle EXCEPT !.assertion = a])
    /\ End(r, "refused")
    /\ UNCHANGED <<storeVars, jtis>>

\* The registry answers.
FetchClient(r) ==
    /\ req[r].pc = "client"
    /\ \E d \in DocsFor(req[r]) :
         IF d = Absent \/ ~HasAuthMaterial(req[r], d) THEN End(r, "refused")
         ELSE Goto(r, IF AuthMethod(d) = "private_key_jwt" THEN "metadata" ELSE "policy", d)
    /\ UNCHANGED <<storeVars, jtis>>

\* The metadata of an anonymous request for a pre-authorized code has to allow it.
FetchMetadataAnonymous(r) ==
    /\ req[r].pc = "metadata" /\ ClientId(req[r]) = NoClient
    /\ IF metadata # Absent /\ metadata.anonymous THEN Goto(r, "policy", Absent)
       ELSE End(r, "refused")
    /\ UNCHANGED <<storeVars, jtis>>

\* Mutant: the jti is stored before the assertion is verified.
FetchMetadataSavingJti(r) ==
    /\ req[r].pc = "metadata" /\ ClientId(req[r]) # NoClient
    /\ jtis' = jtis \cup {req[r].assertion}
    /\ IF AssertionVerifies(ClientId(req[r]), req[r].doc, req[r].assertion)
       THEN Goto(r, "jti", req[r].doc)
       ELSE End(r, "refused")
    /\ UNCHANGED storeVars

\* With the metadata of a private_key_jwt request its assertion is verified, in
\* turns that touch no store.
FetchMetadata(r) ==
    /\ req[r].pc = "metadata" /\ ClientId(req[r]) # NoClient
    /\ IF AssertionVerifies(ClientId(req[r]), req[r].doc, req[r].assertion)
       THEN Goto(r, "jti", req[r].doc)
       ELSE End(r, "refused")
    /\ UNCHANGED <<storeVars, jtis>>

\* saveIfAbsent(client_id, jti)
SaveJti(r) ==
    /\ req[r].pc = "jti"
    /\ jtis' = jtis \cup {req[r].assertion}
    /\ IF req[r].assertion \in jtis THEN End(r, "refused") ELSE Goto(r, "policy", req[r].doc)
    /\ UNCHANGED storeVars

\* Does the DPoP header do under this mode?
HeaderOk(mode, h) ==
    /\ mode = "required" => h = "ok"
    /\ mode # "off" => h \in {"ok", "missing"}

\* Mutant: the client's own constraint is not handed on.
FetchPolicyOfKind(r, h) ==
    /\ req[r].pc = "policy"
    /\ \E p \in policyReads :
         LET mode == PolicyMode(Absent, p, ClientKind(req[r]))
         IN  IF HeaderOk(mode, h)
             THEN /\ req' = [req EXCEPT ![r].pc = "admitted", ![r].mode = mode,
                                        ![r].proof = mode # "off" /\ h = "ok"]
                  /\ UNCHANGED histVars
             ELSE End(r, "refused")
    /\ UNCHANGED <<storeVars, jtis>>

\* The policy is fetched, the mode resolved and the header looked at.  A request
\* that passes goes on to createAccessToken(), with its proof unless the mode is
\* off.
FetchPolicy(r, h) ==
    /\ req[r].pc = "policy"
    /\ \E p \in policyReads :
         LET mode == PolicyMode(req[r].doc, p, ClientKind(req[r]))
         IN  IF HeaderOk(mode, h)
             THEN /\ req' = [req EXCEPT ![r].pc = "admitted", ![r].mode = mode,
                                        ![r].proof = mode # "off" /\ h = "ok"]
                  /\ UNCHANGED histVars
             ELSE End(r, "refused")
    /\ UNCHANGED <<storeVars, jtis>>

\* A round trip throws, or the process dies; the jti may have been stored.
Fail(r) ==
    /\ Active(r)
    /\ jtis' \in {jtis, IF req[r].pc = "jti" THEN jtis \cup {req[r].assertion} ELSE jtis}
    /\ End(r, "failed")
    /\ UNCHANGED storeVars

CatchUp == CatchUpPolicy \/ \E x \in Clients : CatchUpClient(x)

Operator == \/ \E x \in Clients, d \in Registrations : SaveClient(x, d)
            \/ \E p \in Policies : SavePolicy(p)
            \/ CatchUp

Step(r) == \/ FetchClient(r)
           \/ FetchMetadataAnonymous(r)
           \/ FetchMetadata(r)
           \/ SaveJti(r)
           \/ \E h \in Headers : FetchPolicy(r, h)
           \/ Fail(r)

Next == \/ Operator
        \/ \E r \in Requests :
             \/ \E x \in Clients \cup {NoClient}, a \in Assertions \cup {NoAssertion},
                   pre \in BOOLEAN : Arrive(r, x, a, pre)
             \/ \E a \in Assertions : ArriveUnnamed(r, a)
             \/ Step(r)

Spec == Init /\ [][Next]_vars

\* A request that arrived is answered or fails, and DynamoDB's replicas converge.
Fairness ==
    /\ \A r \in Requests : WF_vars(Step(r))
    /\ \A x \in Clients : WF_vars(CatchUpClient(x))

FairSpec == Spec /\ Fairness

-----------------------------------------------------------------------------
(* Properties *)

\* Every variable keeps its type, and only a client that authenticates with
\* private_key_jwt has a jti stored.
TypeOK ==
    /\ backend \in Backends
    /\ metadata \in Metadata \cup {Absent}
    /\ registry \in [Clients -> ClientDocs \cup {Absent}]
    /\ policy \in PolicyDocs \cup {Absent}
    /\ clientReads \in [Clients -> SUBSET (ClientDocs \cup {Absent})]
    /\ policyReads \subseteq PolicyDocs \cup {Absent}
    /\ policy \in policyReads /\ \A x \in Clients : registry[x] \in clientReads[x]
    /\ saves \in 0 .. MaxSaves
    /\ \A a \in jtis : a \in Assertions /\ a.iss = a.sub /\ a.iss # NoClient
    /\ \A r \in Requests :
         /\ req[r].pc \in {"idle", "client", "metadata", "jti", "policy",
                           "admitted", "refused", "failed"}
         /\ req[r].client_id \in Clients \cup {NoClient}
         /\ req[r].assertion \in Assertions \cup {NoAssertion}
         /\ req[r].doc \in ClientDocs \cup {Absent}
         /\ req[r].mode \in Modes

Admitted(r) == req[r].pc = "admitted"

\* Did client x prove who it is, judged by its document d?
Proves(x, d, a) ==
    /\ a # NoAssertion
    /\ a.iss = x /\ a.sub = x /\ a.aud = ExpectedAud(d)
    /\ d.keys # Absent /\ a.signer \in d.keys
    /\ d.alg \in {Absent, a.alg}

\* A request that is let through came, judged by one registration, from an enabled
\* client that needs no authentication or proved who it is with one of its registered
\* keys; a request that names no client carries no assertion, and the server allows
\* anonymous access when it is for a pre-authorized code.  The registration was in
\* force while the request ran, with one exception: DynamoDB may still show one
\* that was replaced before the request came.  It is read once and used over several
\* round trips, and the id comes from the body or the assertion (authz.flows.ts,
\* resolveTokenRequestClientPolicy).
AuthenticatedClient ==
    \A r \in Requests : Admitted(r) =>
        LET x == ClientId(req[r])
            a == req[r].assertion
        IN  IF x = NoClient
            THEN a = NoAssertion /\ (req[r].preAuth => metadata # Absent /\ metadata.anonymous)
            ELSE \E d \in {f.doc : f \in inForce[r]} \cup outdated[r].docs :
                   /\ d # Absent /\ d.enabled # FALSE
                   /\ \/ AuthMethod(d) = "none"
                      \/ AuthMethod(d) = "private_key_jwt" /\ Proves(x, d, a)

\* The mode a request is held to was in force at some instant of it, and a request
\* let through under "required" has a DPoP proof, although registration and policy
\* are read a few round trips apart.  The exceptions: the client got a constraint of
\* its own after its registration was read, so that the old registration meets the
\* new policy; and on DynamoDB the mode is that of a registration or of a policy that
\* was replaced before the request came (authz.flows.ts, resolveAuthzPolicyDpopMode).
ModeInForce ==
    \A r \in Requests : Admitted(r) =>
        LET d    == req[r].doc
            mode == req[r].mode
            kind == ClientKind(req[r])
        IN  /\ mode = "required" => req[r].proof
            /\ \/ \E f \in inForce[r] : f.mode = mode
               \/ d # Absent /\ ~Own(d) /\ \E f \in inForce[r] : Own(f.doc)
               \/ d \in outdated[r].docs /\ Own(d) /\ mode = PolicyMode(d, Absent, kind)
               \/ ~Own(d) /\ \E p \in outdated[r].policies : mode = PolicyMode(Absent, p, kind)

\* A client that stays disabled is let in no more: from some time on no request of its
\* gets past the registry, whatever the replicas showed before and however many
\* requests arrive (the providers' fetch(), which hides a disabled registration).
DisabledTakesEffect ==
    \A x \in Clients :
        <>[](registry[x] # Absent /\ registry[x].enabled = FALSE)
          => <>[](\A r \in Requests :
                    ClientId(req[r]) = x => req[r].pc \notin {"metadata", "jti", "policy"})

=============================================================================
