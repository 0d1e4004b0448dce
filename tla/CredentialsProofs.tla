------------------------- MODULE CredentialsProofs -------------------------
(***************************************************************************)
(* Proofs about Credentials, for any keys, registrations, proofs,          *)
(* transactions and forgeries, and any number of credentials: what a       *)
(* verifier accepts is genuine and shown by its holder, and what an honest *)
(* holder shows verifies, but for the gaps the model names.                *)
(***************************************************************************)
EXTENDS Credentials, FiniteSetTheorems, TLAPS

IssueRecord == [pc : {"sign"}, format : Formats, alg : Algs, kid : IssuerKeys,
                holder : HolderKeys \cup {NoKey}, claims : SUBSET Claims, prover : HolderKeys]
VpRecord == [creds : SUBSET CredentialDocs, names : HolderKeys \cup {NoKey},
             signer : HolderKeys \cup {NoKey}, forTx : BOOLEAN, disclosed : SUBSET Claims,
             asIssued : BOOLEAN]
VerRecord == [pc : {"verifying", "accepted"}, tx : Transactions, kb : BOOLEAN,
              left : SUBSET QueryIds, shown : SUBSET [id : QueryIds, vp : VpRecord]]

\* The issuer has a key for exactly the algorithms that its metadata lists.
KeyInv == \A a \in Algs : issuerKey[a] > 0 <=> a \in ToSet(algOrder)

\* A credential on its way is bound to whoever proved possession, or to nobody.
IssueInv ==
    issue.pc = "sign" =>
      /\ issue \in IssueRecord
      /\ issue.holder \in {NoKey, issue.prover}
      /\ issuerKey[issue.alg] > 0

\* So is one that was issued; it names the issuer and one of its keys.
IssuedInv(c) ==
    /\ c.iss = "issuer" /\ c.vc /\ ~c.x5c
    /\ c.kid \in IssuerKeys
    /\ c.prover \in HolderKeys /\ c.holder \in {NoKey, c.prover}

\* What holds of a presentation that has verified, for the rest of its response.
Counted(s, tx) == {c \in s.vp.creds : c.vc \/ tx.format[s.id] = "dc+sd-jwt"}
Shown(s, tx, kb) ==
    /\ Counted(s, tx) # {}
    /\ \A c \in Counted(s, tx) :
         /\ c.format = tx.format[s.id]
         /\ Genuine(c) \/ (c.format = "dc+sd-jwt" /\ c.x5c)
         /\ c.format = "dc+sd-jwt" => tx.claims[s.id] \subseteq s.vp.disclosed
         /\ kb \/ c.format = "jwt_vc_json" =>
              s.vp.forTx /\ (c.prover # NoKey => s.vp.signer = c.prover)

VerInv ==
    ver.pc # "idle" =>
      /\ ver \in VerRecord
      /\ \A s \in ver.shown : Shown(s, ver.tx, ver.kb)
      /\ ver.pc = "accepted" => Answered(ver.tx, {s.id : s \in ver.shown})

\* The inductive invariant.
IInv ==
    /\ TypeOK
    /\ KeyInv
    /\ IssueInv
    /\ \A c \in wallet : IssuedInv(c)
    /\ VerInv
-----------------------------------------------------------------------------
(* Types *)

\* The initial order of the algorithms is a sequence of algorithms.
LEMMA OrderType ==
    ASSUME NEW o \in SetToAllKPermutations(Algs)
    PROVE  o \in Seq(Algs)
  <1>1. PICK S \in SUBSET Algs : o \in SetToSeqs(S)
    BY DEF SetToAllKPermutations
  <1>2. IsFiniteSet(Algs)
    <2>1. Algs = {"ES256"} \cup {"ES384"}
      BY DEF Algs
    <2>2. QED
      BY <2>1, FS_Singleton, FS_AddElement
  <1>3. Cardinality(S) \in Nat
    BY <1>1, <1>2, FS_Subset, FS_CardinalityType
  <1>4. o \in [1 .. Cardinality(S) -> S]
    BY <1>1 DEF SetToSeqs
  <1>5. QED
    BY <1>1, <1>3, <1>4

\* The initial states satisfy the inductive invariant.
LEMMA InitHolds == Init => IInv
  <1> SUFFICES ASSUME Init PROVE IInv
    OBVIOUS
  <1>1. algOrder \in Seq(Algs)
    BY OrderType DEF Init
  <1>2. issuerKey \in [Algs -> 0 .. MaxVersion]
    BY CredentialsAssumption DEF Init
  <1>3. KeyInv
    BY DEF Init, KeyInv
  <1>4. issue.pc = "idle" /\ ver.pc = "idle"
    BY DEF Init, NoIssue, NoVer
  <1>5. QED
    BY <1>1, <1>2, <1>3, <1>4 DEF Init, IInv, TypeOK, IssueInv, VerInv

\* A key in force is one of the issuer's.
LEMMA CurrentKeyType ==
    ASSUME TypeOK, NEW a \in Algs, issuerKey[a] > 0
    PROVE  CurrentKey(a) \in IssuerKeys
  <1>1. issuerKey[a] \in 1 .. MaxVersion
    BY CredentialsAssumption DEF TypeOK
  <1>2. QED
    BY <1>1 DEF CurrentKey, IssuerKeys

\* What is published are keys of the issuer.
LEMMA PublishedType ==
    ASSUME TypeOK
    PROVE  ToSet(PublishedKeys) \subseteq IssuerKeys \cup {NoKey}
  <1> DEFINE algs == IF algOrder = <<>> THEN <<"ES256">> ELSE algOrder
  <1>1. algs \in Seq(Algs)
    <2>1. <<"ES256">> \in Seq(Algs)
      BY DEF Algs
    <2>2. QED
      BY <2>1 DEF TypeOK
  <1>2. \A i \in DOMAIN algs : algs[i] \in Algs
    BY <1>1
  <1> HIDE DEF algs
  <1>3. PublishedKeys = [i \in DOMAIN algs |->
                           IF issuerKey[algs[i]] > 0 THEN CurrentKey(algs[i]) ELSE NoKey]
    BY DEF PublishedKeys, algs
  <1>4. \A i \in DOMAIN PublishedKeys : PublishedKeys[i] \in IssuerKeys \cup {NoKey}
    BY <1>2, <1>3, CurrentKeyType
  <1>5. QED
    BY <1>4 DEF ToSet

\* A key of the key set that a credential's issuer publishes makes it genuine.
LEMMA PublishedIsGenuine ==
    ASSUME TypeOK, NEW c, c.iss \in {"issuer", "other"}, c.signer \in ToSet(KeysOf(c.iss)),
           c.signer # NoKey
    PROVE  Genuine(c)
  <1>1. CASE c.iss = "issuer"
    BY <1>1, PublishedType DEF KeysOf, Genuine
  <1>2. CASE c.iss # "issuer"
    BY <1>2 DEF KeysOf, Genuine
  <1>3. QED
    BY <1>1, <1>2

\* The first key of a key set is in it.
LEMMA FirstIsPublished ==
    ASSUME NEW k, NEW keys, IsFirst(k, keys)
    PROVE  k # NoKey /\ k \in ToSet(keys)
  BY DEF IsFirst, ToSet

-----------------------------------------------------------------------------
(* The issuer *)

\* A step that leaves the verification alone keeps what is known about it.
LEMMA VerUnchanged ==
    ASSUME IInv, UNCHANGED ver
    PROVE  /\ VerInv'
           /\ ver'.pc \in {"idle", "verifying", "accepted"}
           /\ ver'.pc # "idle" =>
                ver'.left \subseteq QueryIds /\ ver'.tx \in Transactions /\ ver'.kb \in BOOLEAN
  BY DEF IInv, TypeOK, VerInv

\* A replaced key leaves behind a version that was the issuer's.
LEMMA ReplaceKeyKeeps ==
    ASSUME IInv, NEW a \in Algs, ReplaceKey(a)
    PROVE  IInv'
  <1>1. /\ issuerKey \in [Algs -> 0 .. MaxVersion] /\ issuerKey[a] \in 1 .. MaxVersion - 1
        /\ issuerKey' = [issuerKey EXCEPT ![a] = issuerKey[a] + 1]
        /\ UNCHANGED <<metadata, algOrder, wallet, issue, ver>>
    BY DEF IInv, TypeOK, ReplaceKey
  <1>2. MaxVersion \in Nat
    BY CredentialsAssumption
  <1>3. issuerKey' \in [Algs -> 0 .. MaxVersion]
    BY <1>1, <1>2
  <1>4. \A b \in Algs : /\ issuerKey[b] \in Nat /\ issuerKey'[b] \in Nat
                        /\ issuerKey[b] <= issuerKey'[b]
                        /\ issuerKey[b] > 0 <=> issuerKey'[b] > 0
    BY <1>1, <1>2
  <1>5. \A c \in wallet' : c.signer.alg = c.alg /\ c.signer.version \in 1 .. issuerKey'[c.alg]
    <2> SUFFICES ASSUME NEW c \in wallet
                 PROVE  c.signer.alg = c.alg /\ c.signer.version \in 1 .. issuerKey'[c.alg]
      BY <1>1
    <2>1. c.signer.alg = c.alg /\ c.signer.version \in 1 .. issuerKey[c.alg] /\ c.alg \in Algs
      BY DEF IInv, TypeOK, CredentialDocs
    <2>2. QED
      BY <1>4, <2>1
  <1>6. TypeOK'
    BY <1>1, <1>3, <1>5, VerUnchanged DEF IInv, TypeOK
  <1>7. KeyInv'
    BY <1>1, <1>4 DEF IInv, KeyInv
  <1>8. IssueInv'
    BY <1>1, <1>4 DEF IInv, IssueInv, IssueRecord
  <1>9. \A c \in wallet' : IssuedInv(c)'
    BY <1>1 DEF IInv, IssuedInv
  <1>10. QED
    BY <1>1, <1>6, <1>7, <1>8, <1>9, VerUnchanged DEF IInv

\* A proof that verifies and brings a key itself was signed with that key.
LEMMA NamedSigned ==
    ASSUME NEW p \in Proofs, ProofVerifies(p)
    PROVE  /\ p.names \in HolderKeys /\ p.signer \in HolderKeys
           /\ p.refs \in {{"kid"}, {"jwk"}} => p.signer = p.names
  BY CredentialsAssumption DEF IsProof, ProofVerifies, HeaderKey

\* So whoever a credential is bound to has proved possession.
LEMMA FetchKeyKeeps ==
    ASSUME IInv, NEW cfg \in metadata, NEW p \in Proofs, NEW claims \in SUBSET Claims,
           NEW a \in Algs, FetchKey(cfg, p, claims, a)
    PROVE  IInv'
  <1>1. /\ Issuable(cfg, p, claims, a) /\ issuerKey[a] > 0
        /\ UNCHANGED <<metadata, algOrder, issuerKey, wallet, ver>>
    BY DEF FetchKey, issuerVars
  <1>2. cfg \in ConfigurationDocs
    BY CredentialsAssumption DEF IInv, TypeOK
  <1>3. /\ cfg.format \in Formats /\ ClaimsOf(cfg, claims) \in SUBSET Claims
        /\ CurrentKey(a) \in IssuerKeys
    BY <1>1, <1>2, CurrentKeyType DEF IInv, ClaimsOf, ConfigurationDocs
  <1>4. PICK holder : holder = IF cfg.format = "dc+sd-jwt" THEN CnfOf(cfg, p) ELSE SubjectOf(p)
    OBVIOUS
  <1>5. p.signer \in HolderKeys /\ holder \in {NoKey, p.signer}
    BY <1>1, <1>4, NamedSigned DEF Issuable, SdJwtBindingOk, CnfOf, SubjectOf
  <1>6. issue' = [pc |-> "sign", format |-> cfg.format, alg |-> a, kid |-> CurrentKey(a),
                  holder |-> holder, claims |-> ClaimsOf(cfg, claims), prover |-> p.signer]
    BY <1>4 DEF FetchKey
  <1>7. issue' \in IssueRecord
    BY <1>3, <1>5, <1>6 DEF IssueRecord
  <1>8. IssueInv'
    BY <1>1, <1>5, <1>6, <1>7 DEF IssueInv
  <1>9. TypeOK'
    BY <1>1, <1>6, VerUnchanged DEF IInv, TypeOK
  <1>10. QED
    BY <1>1, <1>8, <1>9, VerUnchanged DEF IInv, KeyInv, IssuedInv

\* The credential the store signs.
LEMMA SignCredentialKeeps ==
    ASSUME IInv, SignCredential
    PROVE  IInv'
  <1>1. /\ issue \in IssueRecord /\ issue.holder \in {NoKey, issue.prover}
        /\ issuerKey[issue.alg] > 0
        /\ UNCHANGED <<metadata, algOrder, issuerKey, ver>> /\ issue' = NoIssue
    BY DEF IInv, IssueInv, SignCredential, issuerVars
  <1>2. /\ issue.alg \in Algs /\ issue.kid \in IssuerKeys /\ issue.format \in Formats
        /\ issue.holder \in HolderKeys \cup {NoKey} /\ issue.claims \in SUBSET Claims
        /\ issue.prover \in HolderKeys
    BY <1>1 DEF IssueRecord
  <1>3. CurrentKey(issue.alg) \in IssuerKeys
    BY <1>1, <1>2, CurrentKeyType DEF IInv
  <1>4. PICK k : k = CurrentKey(issue.alg)
    OBVIOUS
  <1>5. k \in IssuerKeys /\ k.alg = issue.alg /\ k.version = issuerKey[issue.alg]
    BY <1>3, <1>4 DEF CurrentKey
  <1>6. PICK c : c = [format |-> issue.format, alg |-> issue.alg, kid |-> issue.kid,
                      signer |-> k, iss |-> "issuer", x5c |-> FALSE, vc |-> TRUE,
                      holder |-> issue.holder, claims |-> issue.claims,
                      prover |-> issue.prover]
    OBVIOUS
  <1>7. wallet' = wallet \cup {c}
    BY <1>4, <1>6 DEF SignCredential
  <1>8. c \in CredentialDocs
    BY <1>2, <1>5, <1>6 DEF CredentialDocs, Keys
  <1>9. IssuedInv(c)
    BY <1>1, <1>2, <1>6 DEF IssuedInv
  <1>10. c.signer.alg = c.alg /\ c.signer.version \in 1 .. issuerKey[c.alg]
    <2>1. issuerKey[issue.alg] \in Nat
      BY <1>2, CredentialsAssumption DEF IInv, TypeOK
    <2>2. QED
      BY <1>1, <1>5, <1>6, <2>1
  <1>11. issue'.pc = "idle"
    BY <1>1 DEF NoIssue
  <1>12. TypeOK'
    BY <1>1, <1>7, <1>8, <1>10, <1>11, VerUnchanged DEF IInv, TypeOK
  <1>13. \A d \in wallet' : IssuedInv(d)'
    BY <1>7, <1>9 DEF IInv, IssuedInv
  <1>14. QED
    BY <1>1, <1>11, <1>12, <1>13, VerUnchanged DEF IInv, KeyInv, IssueInv

\* The signing round trip throws.
LEMMA IssueFailsKeeps ==
    ASSUME IInv, IssueFails
    PROVE  IInv'
  <1>1. UNCHANGED <<metadata, algOrder, issuerKey, wallet, ver>> /\ issue'.pc = "idle"
    BY DEF IssueFails, issuerVars, NoIssue
  <1>2. TypeOK'
    BY <1>1, VerUnchanged DEF IInv, TypeOK
  <1>3. QED
    BY <1>1, <1>2, VerUnchanged DEF IInv, KeyInv, IssueInv, IssuedInv

-----------------------------------------------------------------------------
(* The verifier *)

\* A step of the verifier has to keep only what is known about it.
LEMMA VerifierStep ==
    ASSUME IInv, UNCHANGED <<issuerVars, wallet, issue>>,
           ver'.pc = "idle" \/ ver' \in VerRecord, VerInv'
    PROVE  IInv'
  <1>1. TypeOK'
    BY DEF IInv, TypeOK, VerRecord, issuerVars
  <1>2. QED
    BY <1>1 DEF IInv, KeyInv, IssueInv, IssuedInv, issuerVars

\* A response arrives.
LEMMA RespondKeeps ==
    ASSUME IInv, NEW tx \in Transactions, NEW kb \in BOOLEAN, NEW ids \in SUBSET QueryIds,
           Respond(tx, kb, ids)
    PROVE  IInv'
  <1>1. /\ ver' = [pc |-> "verifying", tx |-> tx, kb |-> kb, left |-> ids, shown |-> {}]
        /\ UNCHANGED <<issuerVars, wallet, issue>>
    BY DEF Respond
  <1>2. ver' \in VerRecord /\ ver'.shown = {} /\ ver'.pc = "verifying"
    BY <1>1 DEF VerRecord
  <1>3. VerInv'
    BY <1>2 DEF VerInv
  <1>4. QED
    BY <1>1, <1>2, <1>3, VerifierStep

\* A response is refused.
LEMMA RefuseResponseKeeps ==
    ASSUME IInv, RefuseResponse
    PROVE  IInv'
  <1>1. ver'.pc = "idle" /\ UNCHANGED <<issuerVars, wallet, issue>>
    BY DEF RefuseResponse, NoVer
  <1>2. QED
    BY <1>1, VerifierStep DEF VerInv

\* All of a response has been verified.
LEMMA ConcludeKeeps ==
    ASSUME IInv, Conclude
    PROVE  IInv'
  <1> DEFINE answered == Answered(ver.tx, {s.id : s \in ver.shown})
  <1>1. /\ ver.pc = "verifying" /\ ver \in VerRecord
        /\ \A s \in ver.shown : Shown(s, ver.tx, ver.kb)
        /\ UNCHANGED <<issuerVars, wallet, issue>>
    BY DEF IInv, VerInv, Conclude
  <1>2. CASE answered
    <2>1. ver' = [ver EXCEPT !.pc = "accepted"]
      BY <1>2 DEF Conclude
    <2>2. /\ ver' \in VerRecord /\ ver'.pc = "accepted"
          /\ ver'.tx = ver.tx /\ ver'.kb = ver.kb /\ ver'.shown = ver.shown
      BY <1>1, <2>1 DEF VerRecord
    <2>3. VerInv'
      BY <1>1, <1>2, <2>2 DEF VerInv
    <2>4. QED
      BY <1>1, <2>2, <2>3, VerifierStep
  <1>3. CASE ~answered
    <2>1. ver'.pc = "idle"
      BY <1>3 DEF Conclude, NoVer
    <2>2. QED
      BY <1>1, <2>1, VerifierStep DEF VerInv
  <1>4. QED
    BY <1>2, <1>3

\* Presentations are what their types say; they are of credentials that exist.
LEMMA PresentationType ==
    ASSUME NEW cs \in SUBSET CredentialDocs, NEW f, NEW v \in Presentations(cs, f)
    PROVE  /\ v \in VpRecord
           /\ v.creds \in SUBSET cs /\ v.creds # {}
           /\ f # "dc+sd-jwt" => v.names \in HolderKeys
  <1>1. CASE f = "dc+sd-jwt"
    <2>1. v \in [creds : {{c} : c \in cs}, names : {NoKey}, signer : HolderKeys \cup {NoKey},
                 forTx : BOOLEAN, disclosed : SUBSET Claims, asIssued : BOOLEAN]
      BY <1>1 DEF Presentations, SdJwts
    <2>2. v.creds \in SUBSET cs /\ v.creds # {}
      BY <2>1
    <2>3. QED
      BY <1>1, <2>1, <2>2 DEF VpRecord
  <1>2. CASE f # "dc+sd-jwt"
    <2>1. v \in [creds : {s \in SUBSET cs : Cardinality(s) \in 1 .. 2}, names : HolderKeys,
                 signer : HolderKeys, forTx : BOOLEAN, disclosed : {{}}, asIssued : {FALSE}]
      BY <1>2 DEF Presentations, JwtVps
    <2>2. v.creds \in SUBSET cs /\ v.creds # {}
      BY <2>1, FS_EmptySet
    <2>3. QED
      BY <1>2, <2>1, <2>2 DEF VpRecord
  <1>3. QED
    BY <1>1, <1>2

\* The credentials that can be presented, and whom they are bound to.
LEMMA Presentable ==
    ASSUME IInv, NEW c \in wallet \cup Foreign
    PROVE  /\ c \in CredentialDocs
           /\ c.prover = NoKey \/ c.holder \in {NoKey, c.prover}
  BY CredentialsAssumption DEF IInv, TypeOK, IssuedInv

\* What the dc+sd-jwt provider lets through.
LEMMA SdJwtShown ==
    ASSUME IInv, NEW c \in wallet \cup Foreign, NEW v, NEW kb \in BOOLEAN, NEW tx, NEW id,
           SdJwtVerifies(c, v, kb, tx, id)
    PROVE  /\ c.format = "dc+sd-jwt"
           /\ Genuine(c) \/ c.x5c
           /\ tx.claims[id] \subseteq v.disclosed
           /\ kb => v.forTx /\ (c.prover # NoKey => v.signer = c.prover)
  <1>1. c \in CredentialDocs /\ (c.prover = NoKey \/ c.holder \in {NoKey, c.prover})
    BY Presentable
  <1>2. c.signer = SdJwtKey(c)
    BY DEF SdJwtVerifies
  <1>3. c.signer # NoKey /\ c.iss \in {"issuer", "other"}
    BY <1>1, CredentialsAssumption DEF CredentialDocs
  <1>4. c.x5c \/ c.signer \in ToSet(KeysOf(c.iss))
    BY <1>2, <1>3 DEF SdJwtKey
  <1>5. Genuine(c) \/ c.x5c
    BY <1>3, <1>4, PublishedIsGenuine DEF IInv
  <1>6. QED
    BY <1>1, <1>5 DEF SdJwtVerifies

\* What the jwt_vp_json provider lets through.
LEMMA JwtVpShown ==
    ASSUME IInv, NEW v, v.creds \subseteq wallet \cup Foreign, v.names \in HolderKeys, NEW tx,
           JwtVpVerifies(v, tx), NEW c \in v.creds, c.vc
    PROVE  /\ c.format = "jwt_vc_json"
           /\ Genuine(c)
           /\ v.forTx /\ (c.prover # NoKey => v.signer = c.prover)
  <1>1. c \in CredentialDocs /\ (c.prover = NoKey \/ c.holder \in {NoKey, c.prover})
    BY Presentable
  <1>2. /\ c.format = "jwt_vc_json" /\ JwtVcVerifies(c, tx)
        /\ v.forTx /\ v.signer = v.names /\ c.holder = v.names
    BY DEF JwtVpVerifies, HolderBound
  <1>3. c.iss \in {"issuer", "other"} /\ v.names # NoKey
    BY <1>1, CredentialsAssumption DEF CredentialDocs, Keys
  <1>4. Genuine(c)
    BY <1>2, <1>3, FirstIsPublished, PublishedIsGenuine DEF IInv, JwtVcVerifies
  <1>5. QED
    BY <1>1, <1>2, <1>3, <1>4

\* A presentation that verifies is what VerInv says of it.
LEMMA VerifiedIsShown ==
    ASSUME IInv, NEW tx \in Transactions, NEW kb \in BOOLEAN, NEW id \in QueryIds,
           NEW v \in Presentations(wallet \cup Foreign, tx.format[id]),
           Verifies(v, kb, tx, id),
           NEW s, s.id = id, s.vp = v
    PROVE  Shown(s, tx, kb)
  <1>1. wallet \cup Foreign \in SUBSET CredentialDocs
    BY Presentable
  <1>2. v.creds \subseteq wallet \cup Foreign /\ v.creds # {}
    BY <1>1, PresentationType
  <1>3. CASE tx.format[id] = "dc+sd-jwt"
    <2>1. Counted(s, tx) = v.creds
      BY <1>3 DEF Counted
    <2>2. \A c \in v.creds : SdJwtVerifies(c, v, kb, tx, id)
      BY <1>3 DEF Verifies
    <2>3. \A c \in v.creds :
             /\ c.format = "dc+sd-jwt" /\ (Genuine(c) \/ c.x5c)
             /\ tx.claims[id] \subseteq v.disclosed
             /\ kb => v.forTx /\ (c.prover # NoKey => v.signer = c.prover)
      BY <1>2, <2>2, SdJwtShown
    <2>4. QED
      BY <1>2, <1>3, <2>1, <2>3 DEF Shown
  <1>4. CASE tx.format[id] # "dc+sd-jwt"
    <2>1. Counted(s, tx) = {c \in v.creds : c.vc}
      BY <1>4 DEF Counted
    <2>2. JwtVpVerifies(v, tx) /\ v.names \in HolderKeys
      BY <1>1, <1>4, PresentationType DEF Verifies
    <2>3. {c \in v.creds : c.vc} # {}
      BY <2>2 DEF JwtVpVerifies
    <2>4. \A c \in Counted(s, tx) :
             /\ c.format = "jwt_vc_json" /\ Genuine(c)
             /\ v.forTx /\ (c.prover # NoKey => v.signer = c.prover)
      BY <1>2, <2>1, <2>2, JwtVpShown
    <2>5. tx.format[id] = "jwt_vc_json"
      BY <1>4, CredentialsAssumption DEF TransactionDocs, Formats
    <2>6. QED
      BY <2>1, <2>3, <2>4, <2>5 DEF Shown
  <1>5. QED
    BY <1>3, <1>4

\* The next presentation is added to what the response has shown.
LEMMA VerifyPresentationKeeps ==
    ASSUME IInv, ver.pc = "verifying", NEW id \in ver.left,
           NEW v \in Presentations(wallet \cup Foreign, ver.tx.format[id]),
           VerifyPresentation(id, v)
    PROVE  IInv'
  <1>1. /\ ver \in VerRecord /\ \A s \in ver.shown : Shown(s, ver.tx, ver.kb)
        /\ Verifies(v, ver.kb, ver.tx, id)
        /\ UNCHANGED <<issuerVars, wallet, issue>>
    BY DEF IInv, VerInv, VerifyPresentation
  <1>2. /\ ver.tx \in Transactions /\ ver.kb \in BOOLEAN /\ ver.left \in SUBSET QueryIds
        /\ id \in QueryIds
    BY <1>1 DEF VerRecord
  <1>3. v \in VpRecord
    BY Presentable, PresentationType
  <1>4. PICK s : s = [id |-> id, vp |-> v]
    OBVIOUS
  <1>5. Shown(s, ver.tx, ver.kb)
    BY <1>1, <1>2, <1>4, VerifiedIsShown
  <1>6. PICK more \in SUBSET {id} :
           ver' = [ver EXCEPT !.left = (ver.left \ {id}) \cup more, !.shown = ver.shown \cup {s}]
    BY <1>4 DEF VerifyPresentation
  <1>7. PICK left \in SUBSET QueryIds : left = (ver.left \ {id}) \cup more
    BY <1>2
  <1>8. ver.shown \cup {s} \in SUBSET [id : QueryIds, vp : VpRecord]
    BY <1>1, <1>2, <1>3, <1>4 DEF VerRecord
  <1>9. /\ ver' \in VerRecord /\ ver'.pc = "verifying" /\ ver'.tx = ver.tx /\ ver'.kb = ver.kb
        /\ ver'.shown = ver.shown \cup {s}
    BY <1>1, <1>6, <1>7, <1>8 DEF VerRecord
  <1>10. VerInv'
    BY <1>1, <1>5, <1>9 DEF VerInv
  <1>11. QED
    BY <1>1, <1>9, <1>10, VerifierStep

-----------------------------------------------------------------------------
(* The theorems *)

\* A step that changes nothing.
LEMMA StutterHolds ==
    ASSUME IInv, UNCHANGED vars
    PROVE  IInv'
  <1>1. VerInv'
    BY VerUnchanged DEF vars
  <1>2. ver'.pc = "idle" \/ ver' \in VerRecord
    BY DEF vars, IInv, VerInv
  <1>3. QED
    BY <1>1, <1>2, VerifierStep DEF vars

\* The invariant is inductive.
LEMMA NextHolds ==
    ASSUME IInv, [Next]_vars
    PROVE  IInv'
  <1>1. CASE \E a \in Algs : ReplaceKey(a)
    BY <1>1, ReplaceKeyKeeps
  <1>2. CASE \E cfg \in metadata, p \in Proofs, claims \in SUBSET Claims, a \in Algs :
               FetchKey(cfg, p, claims, a)
    BY <1>2, FetchKeyKeeps
  <1>3. CASE SignCredential
    BY <1>3, SignCredentialKeeps
  <1>4. CASE IssueFails
    BY <1>4, IssueFailsKeeps
  <1>5. CASE \E tx \in Transactions, kb \in BOOLEAN, ids \in SUBSET QueryIds :
               Respond(tx, kb, ids)
    BY <1>5, RespondKeeps
  <1>6. CASE ver.pc = "verifying" /\ \E id \in ver.left :
               \E v \in Presentations(wallet \cup Foreign, ver.tx.format[id]) :
                 VerifyPresentation(id, v)
    BY <1>6, VerifyPresentationKeeps
  <1>7. CASE RefuseResponse
    BY <1>7, RefuseResponseKeeps
  <1>8. CASE Conclude
    BY <1>8, ConcludeKeeps
  <1>9. CASE UNCHANGED vars
    BY <1>9, StutterHolds
  <1>10. QED
    BY <1>1, <1>2, <1>3, <1>4, <1>5, <1>6, <1>7, <1>8, <1>9 DEF Next

\* The inductive invariant holds in every state of the protocol between issuer,
\* wallet and verifier.
THEOREM InvariantHolds == Spec => []IInv
  <1>1. Init => IInv
    BY InitHolds
  <1>2. IInv /\ [Next]_vars => IInv'
    BY NextHolds
  <1>3. QED
    BY <1>1, <1>2, PTL DEF Spec

\* Every variable keeps its type, and what the issuer signs bears the algorithm
\* of the key it is signed with (sign() of the key stores).
THEOREM TypeCorrect == Spec => []TypeOK
  <1>1. IInv => TypeOK
    BY DEF IInv
  <1>2. QED
    BY <1>1, InvariantHolds, PTL

\* What verifyPresentations() accepts is genuine, is shown by whoever proved
\* possession when it was issued, and answers everything that was required, but
\* for the two exceptions the property names.
THEOREM AcceptedIsGenuineHolds == Spec => []AcceptedIsGenuine
  <1>1. IInv => AcceptedIsGenuine
    <2> SUFFICES ASSUME IInv, ver.pc = "accepted" PROVE AcceptedIsGenuine
      BY DEF AcceptedIsGenuine
    <2>1. /\ \A s \in ver.shown : Shown(s, ver.tx, ver.kb)
          /\ Answered(ver.tx, {s.id : s \in ver.shown})
      BY DEF IInv, VerInv
    <2>2. QED
      BY <2>1 DEF AcceptedIsGenuine, Shown, Counted, Answered
  <1>2. QED
    BY <1>1, InvariantHolds, PTL

\* A key that signs now is published: findJwtVcIssuerMetadata() lists it.
LEMMA CurrentIsPublished ==
    ASSUME TypeOK, KeyInv, NEW a \in Algs, issuerKey[a] > 0
    PROVE  CurrentKey(a) \in ToSet(PublishedKeys)
  <1>1. PICK i \in DOMAIN algOrder : algOrder[i] = a
    BY DEF KeyInv, ToSet
  <1>2. algOrder # <<>>
    BY <1>1
  <1>3. PublishedKeys = [j \in DOMAIN algOrder |->
           IF issuerKey[algOrder[j]] > 0 THEN CurrentKey(algOrder[j]) ELSE NoKey]
    BY <1>2 DEF PublishedKeys
  <1>4. i \in DOMAIN PublishedKeys /\ PublishedKeys[i] = CurrentKey(a)
    BY <1>1, <1>3
  <1>5. QED
    BY <1>4 DEF ToSet

\* The gap-free conditions under which a credential is expected to verify.
Expected(c, v, kb, tx) ==
    /\ c.signer = CurrentKey(c.alg) /\ c.kid = c.signer
    /\ Wanted(c, v, tx)
    /\ ~Unverifiable(c, v, kb)

\* The dc+sd-jwt provider verifies what is expected to verify.
LEMMA HonestSdJwt ==
    ASSUME IInv, NEW v, NEW kb \in BOOLEAN, NEW tx, NEW id, NEW c \in wallet,
           c \in v.creds, c.format = "dc+sd-jwt", tx.format[id] = "dc+sd-jwt",
           Honest(v, kb, tx, id), Expected(c, v, kb, tx)
    PROVE  SdJwtVerifies(c, v, kb, tx, id)
  <1>1. /\ c.iss = "issuer" /\ c.vc /\ ~c.x5c
        /\ c.prover \in HolderKeys /\ c.holder \in {NoKey, c.prover}
        /\ c \in CredentialDocs /\ c.signer.version \in 1 .. issuerKey[c.alg]
    BY DEF IInv, IssuedInv, TypeOK
  <1>2. c.alg = "ES256" /\ (kb => c.holder # NoKey) /\ (v.asIssued => c.claims # {})
    BY DEF Expected, Unverifiable
  <1>3. c.alg \in Algs /\ issuerKey[c.alg] \in Nat
    BY <1>2, CredentialsAssumption DEF IInv, TypeOK, Algs
  <1>4. issuerKey[c.alg] > 0
    BY <1>1, <1>3
  <1>5. c.signer = SdJwtKey(c)
    BY <1>1, <1>3, <1>4, CurrentIsPublished DEF IInv, SdJwtKey, KeysOf, Expected
  <1>6. SdJwtAlgOk(c, tx)
    BY <1>2 DEF SdJwtAlgOk, Expected, Wanted
  <1>7. /\ kb => v.forTx /\ v.signer = c.prover
        /\ tx.claims[id] \subseteq v.disclosed
    BY DEF Honest
  <1>8. c.prover # NoKey
    BY <1>1, CredentialsAssumption DEF Keys
  <1>9. TailOk(c, v, kb)
    BY <1>2, <1>7, <1>8 DEF TailOk
  <1>10. KbJwtAlgOk(v, tx)
    BY DEF KbJwtAlgOk, Expected, Wanted, Unverifiable, Formats
  <1>11. QED
    BY <1>1, <1>2, <1>5, <1>6, <1>7, <1>9, <1>10 DEF SdJwtVerifies

\* The jwt_vp_json provider verifies what is expected to verify.
LEMMA HonestJwtVp ==
    ASSUME IInv, NEW v, v.creds \subseteq wallet, v.creds # {}, v.names \in HolderKeys,
           NEW kb \in BOOLEAN, NEW tx, NEW id, tx.format[id] = "jwt_vc_json",
           Honest(v, kb, tx, id), \A c \in v.creds : Expected(c, v, kb, tx)
    PROVE  JwtVpVerifies(v, tx)
  <1>1. v.names # NoKey
    BY CredentialsAssumption DEF Keys
  <1>2. \A c \in v.creds :
          /\ c.iss = "issuer" /\ c.vc /\ c.holder \in {NoKey, c.prover}
          /\ c.format = "jwt_vc_json" /\ v.forTx /\ v.signer = c.prover
          /\ v.names = v.signer
    BY <1>1 DEF IInv, IssuedInv, Honest
  <1>3. \A c \in v.creds : JwtVcVerifies(c, tx) /\ HolderBound(c, v.names)
    <2> SUFFICES ASSUME NEW c \in v.creds
                 PROVE  JwtVcVerifies(c, tx) /\ HolderBound(c, v.names)
      OBVIOUS
    <2>1. c.holder # NoKey /\ IsFirst(c.signer, PublishedKeys)
      BY <1>2 DEF Expected, Unverifiable
    <2>2. JwtVcVerifies(c, tx)
      BY <1>2, <2>1 DEF JwtVcVerifies, Expected, Wanted, KeysOf
    <2>3. QED
      BY <1>2, <2>1, <2>2 DEF HolderBound
  <1>4. {c \in v.creds : c.vc} = v.creds
    BY <1>2
  <1>5. v.forTx /\ v.signer = v.names
    BY <1>2
  <1>6. Lists(tx.algs["jwt_vc_json"], HolderAlg[v.signer]) /\ HolderAlg[v.signer] # "EdDSA"
    <2>1. PICK c \in v.creds : TRUE
      OBVIOUS
    <2>2. c.format = "jwt_vc_json" /\ v.signer # NoKey
      BY <1>1, <1>2, <2>1
    <2>3. QED
      BY <2>1, <2>2 DEF Expected, Wanted, Unverifiable
  <1>7. QED
    BY <1>2, <1>3, <1>4, <1>5, <1>6 DEF JwtVpVerifies

\* What createCredential() issued and an honest holder shows, the verifying
\* providers accept, but for the gaps that Unverifiable names.
THEOREM HonestVerifiesHolds == Spec => []HonestVerifies
  <1>1. IInv => HonestVerifies
    <2> SUFFICES ASSUME IInv, NEW tx \in Transactions, NEW kb \in BOOLEAN, NEW id \in QueryIds,
                        NEW v \in Presentations(wallet, tx.format[id]), Honest(v, kb, tx, id),
                        \A c \in v.creds : Expected(c, v, kb, tx)
                 PROVE  Verifies(v, kb, tx, id)
      BY DEF HonestVerifies, Expected
    <2>1. wallet \in SUBSET CredentialDocs
      BY DEF IInv, TypeOK
    <2>2. v.creds \subseteq wallet /\ v.creds # {}
      BY <2>1, PresentationType
    <2>3. CASE tx.format[id] = "dc+sd-jwt"
      <3>1. \A c \in v.creds : c.format = "dc+sd-jwt"
        BY <2>3 DEF Honest
      <3>2. \A c \in v.creds : SdJwtVerifies(c, v, kb, tx, id)
        BY <2>2, <2>3, <3>1, HonestSdJwt
      <3>3. QED
        BY <2>3, <3>2 DEF Verifies
    <2>4. CASE tx.format[id] # "dc+sd-jwt"
      <3>1. tx.format[id] = "jwt_vc_json"
        BY <2>4, CredentialsAssumption DEF TransactionDocs, Formats
      <3>2. v.names \in HolderKeys
        BY <2>1, <2>4, PresentationType
      <3>3. JwtVpVerifies(v, tx)
        BY <2>2, <3>1, <3>2, HonestJwtVp
      <3>4. QED
        BY <2>4, <3>3 DEF Verifies
    <2>5. QED
      BY <2>3, <2>4
  <1>2. QED
    BY <1>1, InvariantHolds, PTL

=============================================================================
