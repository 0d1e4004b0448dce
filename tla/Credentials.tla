----------------------------- MODULE Credentials -----------------------------
(***************************************************************************)
(* A credential's way from the issuer through a wallet to a verifier: the  *)
(* holder's proof, createCredential() of the two formats, the key set the  *)
(* issuer publishes, and verifyPresentations() with its providers.  Issuer *)
(* and verifier share no store: what the verifier concludes rests on the   *)
(* documents and on the keys that are published when it looks.             *)
(*                                                                         *)
(* A signature is the key that made it.  Nonces, transactions and access   *)
(* are Issuance's and Presentation's.                                      *)
(***************************************************************************)
EXTENDS Integers, Sequences, FiniteSets, SequencesExt

CONSTANTS HolderKeys,      \* keys of wallets, and of anybody who is not the issuer
          HolderAlg,       \* the algorithm each of them signs with
          OtherKeys,       \* the keys another issuer publishes
          MaxVersion,      \* bound on the keys the issuer has per algorithm
          MaxCredentials,  \* bound on the credentials issued
          MaxPresentations, \* bound on the presentations of a response
          Claims, QueryIds,
          Registrations,   \* what the issuer may support: sets of configurations
          Proofs,          \* proofs of possession that arrive
          Transactions,    \* what a verifier may ask for
          Foreign,         \* credentials that did not come from the issuer
          NoKey, Absent

\* The issuer's algorithms, and those of any key: ES384 stands for what is
\* verified beside ES256, EdDSA for what jsonwebtoken does not know.
Algs == {"ES256", "ES384"}
JwtAlgs == Algs \cup {"EdDSA"}
Formats == {"jwt_vc_json", "dc+sd-jwt"}
IssuerKeys == [alg : Algs, version : 1 .. MaxVersion]
Keys == IssuerKeys \cup HolderKeys

\* A credential_configurations_supported entry.
ConfigurationDocs == [format : Formats, bindings : (SUBSET {"jwk", "did"}) \cup {Absent},
                      algs : (SUBSET Algs) \cup {Absent}, claims : SUBSET Claims,
                      mandatory : SUBSET Claims]

\* A certificate.  current says that it is in its validity period, and began in
\* that of the certificate above it.
Certificates == [key : HolderKeys, subject : STRING, issuer : STRING, signer : HolderKeys,
                 current : BOOLEAN]

\* The proof that counts, the request's last: what its header has of kid, jwk
\* and x5c, the key kid or jwk names, the chain in x5c, and who signed.  fits
\* says that typ, alg, iat, aud and iss pass, earlier that the proofs before it
\* in the request do.
IsProof(p) ==
    /\ p.refs \subseteq {"kid", "jwk", "x5c"}
    /\ {p.names, p.signer} \subseteq HolderKeys
    /\ p.chain \in Seq(Certificates)
    /\ {p.fits, p.earlier} \subseteq BOOLEAN

\* Credentials.  iss is who they name as issuer, holder the key in cnf or
\* behind credentialSubject.id; x5c says that the header brings a certificate
\* instead of a kid, vc that the payload parses as a credential.  prover is
\* whoever proved possession when the issuer made it.
CredentialDocs == [format : Formats, alg : Algs, kid : Keys, signer : Keys,
                   iss : {"issuer", "other"}, x5c : BOOLEAN, vc : BOOLEAN,
                   holder : HolderKeys \cup {NoKey}, claims : SUBSET Claims,
                   prover : HolderKeys \cup {NoKey}]

\* A DCQL query and the algorithms of the verifier's metadata: of each format,
\* and of key binding JWTs.  required has, for each credential_set that must be
\* met, its options; without credential_sets all queries are to be answered.
TransactionDocs == [format : [QueryIds -> Formats], claims : [QueryIds -> SUBSET Claims],
                    required : SUBSET SUBSET SUBSET QueryIds, sets : BOOLEAN,
                    algs : [Formats -> (SUBSET JwtAlgs) \cup {Absent}],
                    kbAlgs : (SUBSET JwtAlgs) \cup {Absent}]

ASSUME CredentialsAssumption ==
    /\ MaxVersion \in Nat \ {0} /\ {MaxCredentials, MaxPresentations} \subseteq Nat
    /\ OtherKeys \in Seq(HolderKeys) /\ HolderAlg \in [HolderKeys -> JwtAlgs]
    /\ Registrations \subseteq SUBSET ConfigurationDocs
    /\ \A p \in Proofs : IsProof(p)
    /\ Transactions \subseteq TransactionDocs
    /\ \A c \in Foreign : c \in CredentialDocs /\ c.signer \in HolderKeys /\ c.prover = NoKey
    /\ NoKey \notin Keys

VARIABLES
    metadata,   \* the configurations the issuer registered
    algOrder,   \* their algorithms, in the order they appear
    issuerKey,  \* alg -> version of the key the store signs with, 0 when there is none
    wallet,     \* credentials issued
    issue,      \* the issuance under way
    ver         \* the verification under way

issuerVars == <<metadata, algOrder, issuerKey>>
vars == <<issuerVars, wallet, issue, ver>>

NoIssue == [pc |-> "idle"]
NoVer == [pc |-> "idle"]

\* A list of algorithms that may be left out has an algorithm.
Lists(algs, a) == IF algs = Absent THEN TRUE ELSE a \in algs

AlgsOf(cfgs) == UNION {cfg.algs : cfg \in {c \in cfgs : c.algs # Absent}}

\* A registered issuer, with a key for each algorithm it lists.
Init ==
    /\ metadata \in Registrations
    /\ algOrder \in SetToAllKPermutations(Algs)
    /\ ToSet(algOrder) = AlgsOf(metadata)
    /\ issuerKey = [a \in Algs |-> IF a \in ToSet(algOrder) THEN 1 ELSE 0]
    /\ wallet = {}
    /\ issue = NoIssue
    /\ ver = NoVer

CurrentKey(a) == [alg |-> a, version |-> issuerKey[a]]

\* findJwtVcIssuerMetadata(): the current key of each algorithm, with its
\* thumbprint as kid.  NoKey stands where an algorithm without a key is left out.
PublishedKeys ==
    LET algs == IF algOrder = <<>> THEN <<"ES256">> ELSE algOrder
    IN  [i \in DOMAIN algs |-> IF issuerKey[algs[i]] > 0 THEN CurrentKey(algs[i]) ELSE NoKey]

\* The key set a verifier gets from the issuer that a credential names.
KeysOf(iss) == IF iss = "issuer" THEN PublishedKeys ELSE OtherKeys

\* k is the first key of a key set.
IsFirst(k, keys) ==
    \E i \in DOMAIN keys : k = keys[i] /\ k # NoKey /\ \A j \in 1 .. i - 1 : keys[j] = NoKey

\* The operator, or a restart of the in-memory store, replaces a key.
ReplaceKey(a) ==
    /\ issuerKey[a] \in 1 .. MaxVersion - 1
    /\ issuerKey' = [issuerKey EXCEPT ![a] = @ + 1]
    /\ UNCHANGED <<metadata, algOrder, wallet, issue, ver>>

-----------------------------------------------------------------------------
(* issueCredential(): from the proof to the signature *)

\* validate() of the certificate provider: every certificate is current, each
\* is signed by the next, and a last one that names itself as issuer by itself.
\* No anchor is asked for.
ChainValid(chain) ==
    LET last == chain[Len(chain)]
    IN  /\ chain # <<>>
        /\ \A i \in 1 .. Len(chain) : chain[i].current
        /\ \A i \in 1 .. Len(chain) - 1 :
             chain[i].issuer = chain[i + 1].subject /\ chain[i].signer = chain[i + 1].key
        /\ last.issuer = last.subject => last.signer = last.key

\* resolveHeaderPublicKey(): the header has exactly one of kid, jwk and x5c, and
\* brings the key of a DID document, a JWK or a chain's leaf.
HeaderKey(p) ==
    CASE p.refs = {"x5c"}             -> IF ChainValid(p.chain) THEN p.chain[1].key ELSE NoKey
      [] p.refs \in {{"kid"}, {"jwk"}} -> p.names
      [] OTHER                        -> NoKey

\* verifyProof() of every proof in the request.  The signer's algorithm may be
\* any but a symmetric one: no metadata is asked.
ProofVerifies(p) == p.fits /\ p.earlier /\ p.signer = HeaderKey(p)

\* The SD-JWT provider's binding: a configuration that lists binding methods
\* takes the key from the proof's header, and knows no x5c.
SdJwtBindingOk(cfg, p) ==
    IF cfg.bindings = Absent THEN TRUE
    ELSE \/ p.refs = {"jwk"} /\ "jwk" \in cfg.bindings
         \/ p.refs = {"kid"} /\ "did" \in cfg.bindings

\* Who an SD-JWT is bound to by its cnf claim.
CnfOf(cfg, p) == IF cfg.bindings = Absent THEN NoKey ELSE p.names

\* Who a JWT VC is bound to: its subject is the proof's kid, if it has one.
SubjectOf(p) == IF p.refs = {"kid"} THEN p.names ELSE NoKey

\* The claims that go into a credential: those the configuration lists.
ClaimsOf(cfg, claims) == cfg.claims \cap claims

\* What both providers refuse: claims without a mandatory one, and an algorithm
\* that the configuration does not list.
Issuable(cfg, p, claims, a) ==
    /\ ProofVerifies(p)
    /\ cfg.format = "dc+sd-jwt" => SdJwtBindingOk(cfg, p)
    /\ cfg.mandatory \subseteq claims
    /\ Lists(cfg.algs, a)

\* A request is checked and the key fetched; its thumbprint becomes the kid.
FetchKey(cfg, p, claims, a) ==
    /\ issue.pc = "idle"
    /\ Cardinality(wallet) < MaxCredentials
    /\ Issuable(cfg, p, claims, a)
    /\ issuerKey[a] > 0
    /\ issue' = [pc |-> "sign", format |-> cfg.format, alg |-> a, kid |-> CurrentKey(a),
                 holder |-> IF cfg.format = "dc+sd-jwt" THEN CnfOf(cfg, p) ELSE SubjectOf(p),
                 claims |-> ClaimsOf(cfg, claims), prover |-> p.signer]
    /\ UNCHANGED <<issuerVars, wallet, ver>>

\* Mutant: the store signs with the newest key of any algorithm.
SignCredentialAny ==
    /\ issue.pc = "sign"
    /\ \E a \in Algs :
         wallet' = wallet \cup
           {[format |-> issue.format, alg |-> issue.alg, kid |-> issue.kid,
             signer |-> CurrentKey(a), iss |-> "issuer", x5c |-> FALSE, vc |-> TRUE,
             holder |-> issue.holder, claims |-> issue.claims, prover |-> issue.prover]}
    /\ issue' = NoIssue
    /\ UNCHANGED <<issuerVars, ver>>

\* The store signs, with the key it has by then.
SignCredential ==
    /\ issue.pc = "sign"
    /\ wallet' = wallet \cup
         {[format |-> issue.format, alg |-> issue.alg, kid |-> issue.kid,
           signer |-> CurrentKey(issue.alg), iss |-> "issuer", x5c |-> FALSE, vc |-> TRUE,
           holder |-> issue.holder, claims |-> issue.claims, prover |-> issue.prover]}
    /\ issue' = NoIssue
    /\ UNCHANGED <<issuerVars, ver>>

\* The signing round trip throws.
IssueFails ==
    /\ issue.pc = "sign"
    /\ issue' = NoIssue
    /\ UNCHANGED <<issuerVars, wallet, ver>>

-----------------------------------------------------------------------------
(* Providers of the verifier *)

\* A presentation: a JWT VP with a few credentials, whose kid names a key, or
\* one SD-JWT with what is disclosed and perhaps a key binding JWT, by signer.
\* forTx says that nonce, aud and iat are right for the transaction, asIssued
\* that the wallet hands the SD-JWT on as it came.
JwtVps(cs) ==
    [creds : {s \in SUBSET cs : Cardinality(s) \in 1 .. 2}, names : HolderKeys,
     signer : HolderKeys, forTx : BOOLEAN, disclosed : {{}}, asIssued : {FALSE}]
SdJwts(cs) ==
    {v \in [creds : {{c} : c \in cs}, names : {NoKey}, signer : HolderKeys \cup {NoKey},
            forTx : BOOLEAN, disclosed : SUBSET Claims, asIssued : BOOLEAN] :
       \A c \in v.creds :
         /\ v.signer = NoKey => ~v.forTx
         /\ v.asIssued => v.signer = NoKey /\ v.disclosed = c.claims
         /\ v.disclosed \subseteq c.claims}
Presentations(cs, f) == IF f = "dc+sd-jwt" THEN SdJwts(cs) ELSE JwtVps(cs)

\* Mutant: only the first published key is looked at.
SdJwtKeyFirst(c) ==
    IF c.x5c \/ IsFirst(c.kid, KeysOf(c.iss)) THEN c.kid ELSE NoKey

\* The SD-JWT's key: the certificate's, or the published one the kid names.
SdJwtKey(c) ==
    IF c.x5c \/ c.kid \in ToSet(KeysOf(c.iss)) THEN c.kid ELSE NoKey

\* The algorithms of the verifier's metadata, and what the provider can do.
SdJwtAlgOk(c, tx) ==
    /\ c.alg = "ES256"
    /\ Lists(tx.algs["dc+sd-jwt"], c.alg)

\* The same of a key binding JWT, whether or not it is to be verified; its
\* header has the algorithm of the key that signs it.
KbJwtAlgOk(v, tx) ==
    v.signer # NoKey => HolderAlg[v.signer] = "ES256" /\ Lists(tx.kbAlgs, "ES256")

\* Without disclosures a credential is issued without "~": its issuer JWT is
\* then taken for a key binding JWT, and has not its typ.
TailOk(c, v, kb) ==
    /\ v.asIssued => c.claims # {}
    /\ kb => v.signer # NoKey

\* verify() of the dc+sd-jwt provider.
SdJwtVerifies(c, v, kb, tx, id) ==
    /\ c.format = "dc+sd-jwt"
    /\ TailOk(c, v, kb)
    /\ SdJwtAlgOk(c, tx)
    /\ KbJwtAlgOk(v, tx)
    /\ c.signer = SdJwtKey(c)
    /\ kb => c.holder # NoKey /\ v.signer = c.holder /\ v.forTx
    /\ tx.claims[id] \subseteq v.disclosed

\* verify() of the jwt_vc_json credential: the first key the issuer publishes.
JwtVcVerifies(c, tx) ==
    /\ c.vc
    /\ Lists(tx.algs["jwt_vc_json"], c.alg)
    /\ IsFirst(c.signer, KeysOf(c.iss))

\* Mutant: a credential that names no subject is anybody's.
HolderBoundIfNamed(c, k) == c.holder \in {NoKey, k}

\* verify() of the holder binding provider: the subject's DID has the key.
HolderBound(c, k) == c.holder = k

\* verify() of the jwt_vp_json provider: credentials that do not parse are
\* dropped, but one has to be left.  The signature is jsonwebtoken's to verify.
JwtVpVerifies(v, tx) ==
    LET parsed == {c \in v.creds : c.vc}
    IN  /\ v.forTx
        /\ parsed # {}
        /\ \A c \in parsed : c.format = "jwt_vc_json" /\ JwtVcVerifies(c, tx)
        /\ Lists(tx.algs["jwt_vc_json"], HolderAlg[v.signer])
        /\ v.signer = v.names /\ HolderAlg[v.signer] # "EdDSA"
        /\ \A c \in parsed : HolderBound(c, v.names)

Verifies(v, kb, tx, id) ==
    IF tx.format[id] = "dc+sd-jwt"
    THEN \A c \in v.creds : SdJwtVerifies(c, v, kb, tx, id)
    ELSE JwtVpVerifies(v, tx)

-----------------------------------------------------------------------------
(* verifyPresentations() *)

\* A response answers some of the queries.
Respond(tx, kb, ids) ==
    /\ ver.pc # "verifying"
    /\ ver' = [pc |-> "verifying", tx |-> tx, kb |-> kb, left |-> ids, shown |-> {}]
    /\ UNCHANGED <<issuerVars, wallet, issue>>

\* The next presentation is verified; a query may be answered by more than one.
VerifyPresentation(id, v) ==
    /\ ver.pc = "verifying" /\ id \in ver.left
    /\ Cardinality(ver.shown) < MaxPresentations
    /\ Verifies(v, ver.kb, ver.tx, id)
    /\ \E more \in SUBSET {id} :
         ver' = [ver EXCEPT !.left = (@ \ {id}) \cup more,
                            !.shown = @ \cup {[id |-> id, vp |-> v]}]
    /\ UNCHANGED <<issuerVars, wallet, issue>>

\* A presentation does not verify, or the answer names a query that was not
\* asked or has no presentation for one.
RefuseResponse ==
    /\ ver.pc = "verifying"
    /\ ver' = NoVer
    /\ UNCHANGED <<issuerVars, wallet, issue>>

\* All that is required was presented.
Answered(tx, ids) ==
    IF tx.sets THEN \A opts \in tx.required : \E o \in opts : o \subseteq ids
    ELSE ids = QueryIds

Conclude ==
    /\ ver.pc = "verifying" /\ ver.left = {}
    /\ ver' = IF Answered(ver.tx, {s.id : s \in ver.shown}) THEN [ver EXCEPT !.pc = "accepted"]
              ELSE NoVer
    /\ UNCHANGED <<issuerVars, wallet, issue>>

Next ==
    \/ \E a \in Algs : ReplaceKey(a)
    \/ \E cfg \in metadata, p \in Proofs, claims \in SUBSET Claims, a \in Algs :
         FetchKey(cfg, p, claims, a)
    \/ SignCredential
    \/ IssueFails
    \/ \E tx \in Transactions, kb \in BOOLEAN, ids \in SUBSET QueryIds : Respond(tx, kb, ids)
    \/ ver.pc = "verifying" /\ \E id \in ver.left :
         \E v \in Presentations(wallet \cup Foreign, ver.tx.format[id]) :
           VerifyPresentation(id, v)
    \/ RefuseResponse
    \/ Conclude

Spec == Init /\ [][Next]_vars

-----------------------------------------------------------------------------
(* Properties *)

\* Every variable keeps its type, and what the issuer signs bears the algorithm
\* of the key it is signed with, one that the issuer has or had.
TypeOK ==
    /\ metadata \in Registrations
    /\ algOrder \in Seq(Algs)
    /\ issuerKey \in [Algs -> 0 .. MaxVersion]
    /\ wallet \subseteq CredentialDocs
    /\ \A c \in wallet : c.signer.alg = c.alg /\ c.signer.version \in 1 .. issuerKey[c.alg]
    /\ issue.pc \in {"idle", "sign"}
    /\ ver.pc \in {"idle", "verifying", "accepted"}
    /\ ver.pc # "idle" =>
         ver.left \subseteq QueryIds /\ ver.tx \in Transactions /\ ver.kb \in BOOLEAN

\* A key of the issuer that a credential names.
Genuine(c) == c.signer \in IF c.iss = "issuer" THEN IssuerKeys ELSE ToSet(OtherKeys)

\* What a verifier accepts was signed by the issuer it names; it is shown, for
\* this transaction, by whoever proved possession of the key when it was
\* issued, with the demanded claims; and everything required was answered.
\* Two exceptions are the code's: a certificate in an SD-JWT's header vouches
\* for itself, and without key binding (POST /callback) anybody may show an
\* SD-JWT (verify-presentation-dc-sd-jwt.provider.ts,
\* verify-presentation-jwt-vp-json.provider.ts, verifier.flows.ts).
AcceptedIsGenuine ==
    LET counted(s) == {c \in s.vp.creds : c.vc \/ ver.tx.format[s.id] = "dc+sd-jwt"}
        ids == {s.id : s \in ver.shown}
    IN  ver.pc = "accepted" =>
          /\ \A s \in ver.shown :
               /\ counted(s) # {}
               /\ \A c \in counted(s) :
                    /\ c.format = ver.tx.format[s.id]
                    /\ Genuine(c) \/ (c.format = "dc+sd-jwt" /\ c.x5c)
                    /\ c.format = "dc+sd-jwt" => ver.tx.claims[s.id] \subseteq s.vp.disclosed
                    /\ ver.kb \/ c.format = "jwt_vc_json" =>
                         s.vp.forTx /\ (c.prover # NoKey => s.vp.signer = c.prover)
          /\ IF ver.tx.sets THEN \A opts \in ver.tx.required : \E o \in opts : o \subseteq ids
             ELSE ids = QueryIds

\* A presentation as a well-behaved holder makes it.
Honest(v, kb, tx, id) ==
    \A c \in v.creds :
        /\ c.format = tx.format[id]
        /\ \/ v.forTx /\ v.signer = c.prover /\ v.names \in {v.signer, NoKey}
           \/ c.format = "dc+sd-jwt" /\ ~kb /\ v.signer = NoKey
        /\ c.format = "dc+sd-jwt" => tx.claims[id] \subseteq v.disclosed

\* The verifier's metadata lists the algorithms of issuer and holder.
Wanted(c, v, tx) ==
    /\ Lists(tx.algs[c.format], c.alg)
    /\ v.signer # NoKey =>
         Lists(IF c.format = "jwt_vc_json" THEN tx.algs[c.format] ELSE tx.kbAlgs,
               HolderAlg[v.signer])

\* Gaps between what is issued and what can be verified.  A JWT VC is checked
\* with the first published key, is bound to nobody unless the proof had a kid,
\* and cannot be presented with an EdDSA key, though it is bound to one.  An
\* SD-JWT is verified for ES256 only, its holder's signature too; it is bound to
\* nobody if its configuration lists no binding method, and ends without "~" if
\* it has nothing to disclose.
Unverifiable(c, v, kb) ==
    IF c.format = "jwt_vc_json"
    THEN \/ c.holder = NoKey
         \/ ~IsFirst(c.signer, PublishedKeys)
         \/ HolderAlg[v.signer] = "EdDSA"
    ELSE \/ c.alg # "ES256"
         \/ v.signer # NoKey /\ HolderAlg[v.signer] # "ES256"
         \/ kb /\ c.holder = NoKey
         \/ v.asIssued /\ c.claims = {}

\* Issuer and verifier agree: what was issued here and is shown as it should
\* be verifies, as long as its key is published and was not replaced between
\* fetch() and sign(), and the verifier's metadata lists the algorithms; but for
\* the gaps (issue-credential-dc-sd-jwt.provider.ts, issue-credential-jwt-vc-
\* json.provider.ts, credential-proof-jwt.provider.ts and the verifying
\* providers).
HonestVerifies ==
    \A tx \in Transactions, kb \in BOOLEAN, id \in QueryIds :
      \A v \in Presentations(wallet, tx.format[id]) :
        Honest(v, kb, tx, id) =>
          \/ \E c \in v.creds :
               \/ c.signer # CurrentKey(c.alg) \/ c.kid # c.signer
               \/ ~Wanted(c, v, tx)
               \/ Unverifiable(c, v, kb)
          \/ Verifies(v, kb, tx, id)

=============================================================================
