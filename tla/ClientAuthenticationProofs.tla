--------------------- MODULE ClientAuthenticationProofs ---------------------
(***************************************************************************)
(* Proofs about ClientAuthentication, for any clients, documents and       *)
(* assertions, any saves of the operator and any reads a replica may lag   *)
(* behind with: a request let through came from a client that is who it    *)
(* says, under a DPoP mode that was in force, or that a replica had yet to *)
(* forget when the request came.                                           *)
(***************************************************************************)
EXTENDS ClientAuthentication, TLAPS

Docs == ClientDocs \cup {Absent}
PolicyValues == PolicyDocs \cup {Absent}
Registries == [Clients -> Docs]
RequestRecord == [pc : {"idle", "client", "metadata", "jti", "policy", "admitted",
                        "refused", "failed"},
                  client_id : Clients \cup {NoClient},
                  assertion : Assertions \cup {NoAssertion}, preAuth : BOOLEAN,
                  doc : Docs, mode : Modes, proof : BOOLEAN]

\* The types of everything, inside the records, too.
Types ==
    /\ TypeOK
    /\ req \in [Requests -> RequestRecord]
    /\ inForce \in [Requests -> SUBSET [doc : Docs, mode : Modes]]
    /\ outdated \in [Requests -> [docs : SUBSET Docs, policies : SUBSET PolicyValues]]

\* The document that a registry has for a request.
DocFor(q, reg) == IF ClientId(q) = NoClient THEN Absent ELSE Found(reg[ClientId(q)])

\* Some instant of F had the document d, with the mode d asks for, or d is one of
\* the outdated ones in O.
DocSeen(q, d, F, O) ==
    \/ d \in O.docs
    \/ \E f \in F :
         f.doc = d /\ (Own(d) => f.mode = PolicyMode(d, Absent, ClientKind(q)))

\* Some instant of F had the policy p, unless the client had a constraint of its
\* own then, or p is one of the outdated ones in O.
PolicySeen(q, p, F, O) ==
    \/ p \in O.policies
    \/ \E f \in F : Own(f.doc) \/ f.mode = PolicyMode(Absent, p, ClientKind(q))

\* What can be read now was in force since a request arrived, or outdated by then.
SeenInv(r) ==
    /\ Active(r) =>
          /\ \A d \in DocsFor(req[r]) : DocSeen(req[r], d, inForce[r], outdated[r])
          /\ \A p \in policyReads : PolicySeen(req[r], p, inForce[r], outdated[r])
    /\ Active(r) /\ ClientId(req[r]) = NoClient => \A f \in inForce[r] : f.doc = Absent

\* A request that names no client has no assertion and no document; one that does
\* has a document that was in force or outdated, once it was read.
Resolved(q, F, O) ==
    IF ClientId(q) = NoClient THEN q.assertion = NoAssertion /\ q.doc = Absent
    ELSE /\ q.doc # Absent /\ q.doc.enabled # FALSE
         /\ AuthMethod(q.doc) \in {"none", "private_key_jwt"}
         /\ DocSeen(q, q.doc, F, O)

\* What the checks before the policy have established.
Cleared(q) ==
    IF ClientId(q) = NoClient
    THEN q.preAuth => metadata # Absent /\ metadata.anonymous
    ELSE \/ AuthMethod(q.doc) = "none"
         \/ /\ AuthMethod(q.doc) = "private_key_jwt"
            /\ AssertionVerifies(ClientId(q), q.doc, q.assertion)

\* What holds of a request by how far it has come.
PathInv(r) ==
    /\ req[r].pc = "client" => ClientId(req[r]) # NoClient
    /\ req[r].pc \in {"metadata", "jti", "policy", "admitted"} =>
          Resolved(req[r], inForce[r], outdated[r])
    /\ req[r].pc \in {"metadata", "jti"} /\ ClientId(req[r]) # NoClient =>
          AuthMethod(req[r].doc) = "private_key_jwt"
    /\ req[r].pc = "jti" =>
          /\ ClientId(req[r]) # NoClient
          /\ AssertionVerifies(ClientId(req[r]), req[r].doc, req[r].assertion)
    /\ req[r].pc \in {"policy", "admitted"} => Cleared(req[r])

\* Where the mode m comes from that a request q with document d is held to.
ModeSeen(q, d, m, F, O) ==
    \/ \E f \in F : f.mode = m
    \/ d # Absent /\ ~Own(d) /\ \E f \in F : Own(f.doc)
    \/ d \in O.docs /\ Own(d) /\ m = PolicyMode(d, Absent, ClientKind(q))
    \/ ~Own(d) /\ \E p \in O.policies : m = PolicyMode(Absent, p, ClientKind(q))

\* The mode an admitted request was held to.
ModeInv(r) == Admitted(r) =>
    /\ req[r].mode = "required" => req[r].proof
    /\ ModeSeen(req[r], req[r].doc, req[r].mode, inForce[r], outdated[r])

RequestInv(r) == SeenInv(r) /\ PathInv(r) /\ ModeInv(r)

IInv == Types /\ \A r \in Requests : RequestInv(r)

-----------------------------------------------------------------------------
(* The operators *)

\* An identifier is a client's or nobody's.
LEMMA IdType ==
    ASSUME NEW q, q.client_id \in Clients \cup {NoClient},
           q.assertion \in Assertions \cup {NoAssertion}
    PROVE  ClientId(q) \in Clients \cup {NoClient} /\ ClientKind(q) \in ClientKinds
  <1>1. q.assertion # NoAssertion =>
           q.assertion.iss \in Clients \cup {NoClient} /\ q.assertion.sub \in Clients \cup {NoClient}
    BY ClientAuthenticationAssumption DEF AssertionDocs
  <1>2. ClientId(q) \in Clients \cup {NoClient}
    BY <1>1 DEF ClientId, IdFromAssertion
  <1>3. QED
    BY <1>2 DEF ClientKind, ClientKinds

\* Requests with the same arguments come from the same client.
LEMMA SameId ==
    ASSUME NEW q, NEW p, p.client_id = q.client_id, p.assertion = q.assertion
    PROVE  ClientId(p) = ClientId(q) /\ ClientKind(p) = ClientKind(q)
  BY DEF ClientId, ClientKind, IdFromAssertion

\* What a registry has for a client is a document, which is not disabled.
LEMMA DocForType ==
    ASSUME NEW q, ClientId(q) \in Clients \cup {NoClient}, NEW reg \in Registries
    PROVE  /\ DocFor(q, reg) \in Docs
           /\ DocFor(q, reg) # Absent => DocFor(q, reg).enabled # FALSE
  BY DEF DocFor, Found, Registries, Docs

\* So is what a read of it may return.
LEMMA DocsForType ==
    ASSUME TypeOK, NEW q, ClientId(q) \in Clients \cup {NoClient}, NEW d \in DocsFor(q)
    PROVE  d \in Docs /\ (d # Absent => d.enabled # FALSE)
  <1>1. CASE ClientId(q) = NoClient
    BY <1>1 DEF DocsFor, Docs
  <1>2. CASE ClientId(q) # NoClient
    <2>1. PICK e \in clientReads[ClientId(q)] : d = Found(e)
      BY <1>2 DEF DocsFor
    <2>2. clientReads[ClientId(q)] \subseteq Docs
      BY <1>2 DEF TypeOK, Docs
    <2>3. e \in Docs
      BY <2>1, <2>2
    <2>4. QED
      BY <2>1, <2>3 DEF Found, Docs
  <1>3. QED
    BY <1>1, <1>2

\* A constraint has its type.
LEMMA ConstraintType ==
    ASSUME NEW d \in Docs, NEW p \in PolicyValues, NEW k \in ClientKinds
    PROVE  Constraint(d, p, k) \in SenderConstraint \cup {Absent}
  BY DEF Docs, PolicyValues, Constraint, Own, ClientDocs, PolicyDocs

\* So does the mode.
LEMMA ModeType ==
    ASSUME NEW d \in Docs, NEW p \in PolicyValues, NEW k \in ClientKinds
    PROVE  PolicyMode(d, p, k) \in Modes
  <1> DEFINE sc == Constraint(d, p, k)
  <1>1. sc \in SenderConstraint \cup {Absent}
    BY ConstraintType
  <1>2. sc # Absent => sc.mode \in Modes \cup {Absent}
    BY <1>1 DEF SenderConstraint
  <1>3. "off" \in Modes
    BY DEF Modes
  <1>4. QED
    BY <1>2, <1>3 DEF PolicyMode

\* A client's own constraint decides the mode, and without one the policy does.
LEMMA ModeOf ==
    ASSUME NEW d, NEW p, NEW k
    PROVE  /\ Own(d) => PolicyMode(d, p, k) = PolicyMode(d, Absent, k)
           /\ ~Own(d) => PolicyMode(d, p, k) = PolicyMode(Absent, p, k)
  BY DEF PolicyMode, Constraint, Own

\* What is in force has been seen.
LEMMA InForceSeen ==
    ASSUME NEW q, NEW reg, NEW p, NEW F, NEW O, InForceFor(q, reg, p) \in F
    PROVE  DocSeen(q, DocFor(q, reg), F, O) /\ PolicySeen(q, p, F, O)
  <1> DEFINE f == InForceFor(q, reg, p)
             d == DocFor(q, reg)
  <1>1. f.doc = d /\ f.mode = PolicyMode(d, p, ClientKind(q))
    BY DEF InForceFor, DocFor
  <1>2. DocSeen(q, d, F, O)
    BY <1>1, ModeOf DEF DocSeen
  <1>3. PolicySeen(q, p, F, O)
    BY <1>1, ModeOf DEF PolicySeen
  <1>4. QED
    BY <1>2, <1>3

\* What was seen stays seen.
LEMMA SeenStays ==
    ASSUME NEW q, NEW d, NEW p, NEW F, NEW G, NEW O, F \subseteq G
    PROVE  /\ DocSeen(q, d, F, O) => DocSeen(q, d, G, O)
           /\ PolicySeen(q, p, F, O) => PolicySeen(q, p, G, O)
  BY DEF DocSeen, PolicySeen

\* What is in force has its type.
LEMMA InForceType ==
    ASSUME NEW q, ClientId(q) \in Clients \cup {NoClient}, ClientKind(q) \in ClientKinds,
           NEW reg \in Registries, NEW p \in PolicyValues
    PROVE  InForceFor(q, reg, p) \in [doc : Docs, mode : Modes]
  <1>1. DocFor(q, reg) \in Docs
    BY DocForType
  <1>2. PolicyMode(DocFor(q, reg), p, ClientKind(q)) \in Modes
    BY <1>1, ModeType
  <1>3. QED
    BY <1>1, <1>2 DEF InForceFor, DocFor

\* Merging keeps the types of the documents.
LEMMA MergeScType ==
    ASSUME NEW old \in SenderConstraint \cup {Absent}, NEW new \in SenderConstraint \cup {Absent}
    PROVE  MergeDoc(old, new) \in SenderConstraint \cup {Absent}
  <1>1. CASE old = Absent \/ new = Absent
    BY <1>1 DEF MergeDoc
  <1>2. CASE old # Absent /\ new # Absent
    <2>1. [f \in DOMAIN new |-> IF new[f] = Absent THEN old[f] ELSE new[f]] \in SenderConstraint
      BY <1>2 DEF SenderConstraint
    <2>2. QED
      BY <1>2, <2>1 DEF MergeDoc
  <1>3. QED
    BY <1>1, <1>2

\* So does merging clients.
LEMMA MergeClientType ==
    ASSUME NEW old \in Docs, NEW new \in ClientDocs
    PROVE  MergeClient(old, new) \in ClientDocs
  <1>1. CASE old = Absent
    BY <1>1 DEF MergeClient
  <1>2. CASE old # Absent
    <2>1. new # Absent /\ old \in ClientDocs
      BY <1>2, ClientAuthenticationAssumption DEF Docs
    <2>2. [f \in DOMAIN new |-> IF new[f] = Absent THEN old[f] ELSE new[f]] \in ClientDocs
      BY <2>1 DEF ClientDocs
    <2>3. MergeDoc(old, new) \in ClientDocs
      BY <1>2, <2>1, <2>2 DEF MergeDoc
    <2>4. MergeDoc(old.sc, new.sc) \in SenderConstraint \cup {Absent}
      BY <2>1, MergeScType DEF ClientDocs
    <2>5. [MergeDoc(old, new) EXCEPT !.sc = MergeDoc(old.sc, new.sc)] \in ClientDocs
      BY <2>3, <2>4 DEF ClientDocs
    <2>6. QED
      BY <1>2, <2>5 DEF MergeClient
  <1>3. QED
    BY <1>1, <1>2

\* And merging policies.
LEMMA MergePolicyType ==
    ASSUME NEW old \in PolicyValues, NEW new \in PolicyDocs
    PROVE  MergePolicy(old, new) \in PolicyDocs
  <1>1. CASE old = Absent
    BY <1>1 DEF MergePolicy
  <1>2. CASE old # Absent
    <2>1. old \in PolicyDocs
      BY <1>2 DEF PolicyValues
    <2>2. \A k \in ClientKinds : MergeDoc(old[k], new[k]) \in SenderConstraint \cup {Absent}
      BY <2>1, MergeScType DEF PolicyDocs
    <2>3. QED
      BY <1>2, <2>2 DEF MergePolicy, PolicyDocs
  <1>3. QED
    BY <1>1, <1>2

-----------------------------------------------------------------------------
(* The operator *)

\* Without new metadata an assertion verifies as before.
LEMMA VerifiesStill ==
    ASSUME metadata' = metadata, NEW x, NEW d, NEW a
    PROVE  AssertionVerifies(x, d, a)' <=> AssertionVerifies(x, d, a)
  BY DEF AssertionVerifies

\* What a save adds to what a request has seen.
LEMMA ObserveKeeps ==
    ASSUME IInv, NEW r \in Requests,
           Observe(registry', policy'), req' = req, outdated' = outdated, metadata' = metadata,
           \A x \in Clients : clientReads'[x] \subseteq clientReads[x] \cup {registry'[x]},
           policyReads' \subseteq policyReads \cup {policy'}
    PROVE  RequestInv(r)'
  <1> DEFINE q == req[r]
             O == outdated[r]
             f == InForceFor(q, registry', policy')
  <1>1. RequestInv(r) /\ Types
    BY DEF IInv
  <1>2. inForce'[r] = IF Active(r) THEN inForce[r] \cup {f} ELSE inForce[r]
    BY DEF Observe
  <1>3. inForce[r] \subseteq inForce'[r]
    BY <1>2
  <1>4. (Active(r) <=> Active(r)') /\ req'[r] = q /\ outdated'[r] = O
    BY DEF Active
  <1>5. SeenInv(r)'
    <2>1. ASSUME Active(r)
          PROVE  /\ DocSeen(q, DocFor(q, registry'), inForce'[r], O)
                 /\ PolicySeen(q, policy', inForce'[r], O)
      <3>1. f \in inForce'[r]
        BY <1>2, <2>1
      <3>2. QED
        BY <3>1, InForceSeen
    <2>2. ASSUME Active(r), NEW d \in DocsFor(q)'
          PROVE  DocSeen(q, d, inForce'[r], O)
      <3>1. ClientId(q) \in Clients \cup {NoClient}
        BY <1>1, IdType DEF Types, TypeOK
      <3>2. d \in DocsFor(q) \/ d = DocFor(q, registry')
        BY <1>4, <3>1 DEF DocsFor, DocFor
      <3>3. CASE d \in DocsFor(q)
        BY <1>1, <1>3, <2>2, <3>3, SeenStays DEF RequestInv, SeenInv
      <3>4. QED
        BY <2>1, <2>2, <3>2, <3>3
    <2>3. ASSUME Active(r), NEW p \in policyReads'
          PROVE  PolicySeen(q, p, inForce'[r], O)
      <3>1. CASE p \in policyReads
        BY <1>1, <1>3, <2>3, <3>1, SeenStays DEF RequestInv, SeenInv
      <3>2. QED
        BY <2>1, <2>3, <3>1
    <2>4. ASSUME Active(r), ClientId(q) = NoClient
          PROVE  \A g \in inForce'[r] : g.doc = Absent
      <3>1. f.doc = Absent
        BY <2>4 DEF InForceFor
      <3>2. QED
        BY <1>1, <1>2, <2>4, <3>1 DEF RequestInv, SeenInv
    <2>5. QED
      BY <1>4, <2>2, <2>3, <2>4 DEF SeenInv
  <1>6. PathInv(r)'
    <2>1. Resolved(q, inForce[r], O) => Resolved(q, inForce'[r], O)
      BY <1>3, SeenStays DEF Resolved
    <2>2. Cleared(q)' <=> Cleared(q)
      BY <1>4, VerifiesStill DEF Cleared
    <2>3. QED
      BY <1>1, <1>4, <2>1, <2>2, VerifiesStill DEF RequestInv, PathInv, Cleared
  <1>7. ModeInv(r)'
    <2>1. Admitted(r)' => Admitted(r) /\ inForce'[r] = inForce[r]
      BY <1>2 DEF Admitted, Active
    <2>2. QED
      BY <1>1, <1>4, <2>1 DEF RequestInv, ModeInv, Admitted
  <1>8. QED
    BY <1>5, <1>6, <1>7 DEF RequestInv

\* What a save adds has its type.
LEMMA ObserveTypes ==
    ASSUME Types, registry' \in Registries, policy' \in PolicyValues,
           Observe(registry', policy')
    PROVE  inForce' \in [Requests -> SUBSET [doc : Docs, mode : Modes]]
  <1>1. ASSUME NEW r \in Requests
        PROVE  InForceFor(req[r], registry', policy') \in [doc : Docs, mode : Modes]
    <2>1. /\ req[r].client_id \in Clients \cup {NoClient}
          /\ req[r].assertion \in Assertions \cup {NoAssertion}
      BY DEF Types, TypeOK
    <2>2. ClientId(req[r]) \in Clients \cup {NoClient} /\ ClientKind(req[r]) \in ClientKinds
      BY <2>1, IdType
    <2>3. QED
      BY <2>2, InForceType
  <1>2. QED
    BY <1>1 DEF Observe, Types

\* A client is saved.
LEMMA SaveClientKeeps ==
    ASSUME IInv, NEW x \in Clients, NEW d \in Registrations, SaveClient(x, d)
    PROVE  IInv'
  <1>1. Types /\ d \in ClientDocs /\ registry \in Registries /\ policy \in PolicyValues
    BY ClientAuthenticationAssumption
       DEF IInv, Types, TypeOK, Registries, Docs, PolicyValues
  <1>2. PICK e \in ClientDocs :
           /\ registry' = [registry EXCEPT ![x] = e]
           /\ clientReads' = [clientReads EXCEPT ![x] = Reads(clientReads[x], e)]
    <2>1. MergeClient(registry[x], d) \in ClientDocs
      BY <1>1, MergeClientType DEF Registries
    <2>2. QED
      BY <1>1, <2>1 DEF SaveClient
  <1>3. registry' \in Registries /\ registry'[x] = e
    BY <1>1, <1>2 DEF Registries, Docs
  <1>4. clientReads \in [Clients -> SUBSET Docs]
    BY <1>1 DEF Types, TypeOK, Docs
  <1>5. /\ clientReads' \in [Clients -> SUBSET Docs]
        /\ \A y \in Clients : /\ registry'[y] \in clientReads'[y]
                             /\ clientReads'[y] \subseteq clientReads[y] \cup {registry'[y]}
    <2>1. Reads(clientReads[x], e) \subseteq clientReads[x] \cup {e}
          /\ e \in Reads(clientReads[x], e)
      BY DEF Reads
    <2>2. clientReads'[x] = Reads(clientReads[x], e)
      BY <1>2, <1>4
    <2>3. \A y \in Clients \ {x} :
             registry'[y] = registry[y] /\ clientReads'[y] = clientReads[y]
      BY <1>1, <1>2, <1>4 DEF Registries
    <2>4. \A y \in Clients : registry[y] \in clientReads[y]
      BY <1>1 DEF Types, TypeOK
    <2>5. e \in Docs
      BY DEF Docs
    <2>6. clientReads' \in [Clients -> SUBSET Docs]
      BY <1>2, <1>4, <2>1, <2>5
    <2>7. QED
      BY <1>3, <2>1, <2>2, <2>3, <2>4, <2>6
  <1>6. /\ saves < MaxSaves /\ saves' = saves + 1 /\ Observe(registry', policy)
        /\ UNCHANGED <<backend, metadata, policy, policyReads, jtis, req, outdated>>
    BY DEF SaveClient
  <1>7. Observe(registry', policy')
    BY <1>6
  <1>8. TypeOK'
    <2>1. saves' \in 0 .. MaxSaves
      BY <1>1, <1>6, ClientAuthenticationAssumption DEF Types, TypeOK
    <2>2. QED
      BY <1>1, <1>3, <1>5, <1>6, <2>1
         DEF Types, TypeOK, Registries, PolicyValues, Docs
  <1>9. Types'
    BY <1>1, <1>3, <1>6, <1>7, <1>8, ObserveTypes DEF Types
  <1>10. policyReads' \subseteq policyReads \cup {policy'}
    BY <1>6
  <1>11. \A r \in Requests : RequestInv(r)'
    BY <1>5, <1>6, <1>7, <1>10, ObserveKeeps
  <1>12. QED
    BY <1>9, <1>11 DEF IInv

\* A policy is saved.
LEMMA SavePolicyKeeps ==
    ASSUME IInv, NEW p \in Policies, SavePolicy(p)
    PROVE  IInv'
  <1>1. Types /\ p \in PolicyDocs /\ registry \in Registries /\ policy \in PolicyValues
    BY ClientAuthenticationAssumption
       DEF IInv, Types, TypeOK, Registries, Docs, PolicyValues
  <1>2. policy' \in PolicyDocs
    BY <1>1, MergePolicyType DEF SavePolicy
  <1>3. policy' \in PolicyValues
    BY <1>2 DEF PolicyValues
  <1>4. policyReads' \subseteq policyReads \cup {policy'} /\ policy' \in policyReads'
    BY DEF SavePolicy, Reads
  <1>5. policyReads' \subseteq PolicyValues
    BY <1>1, <1>3, <1>4 DEF Types, TypeOK, PolicyValues
  <1>6. /\ saves < MaxSaves /\ saves' = saves + 1 /\ Observe(registry, policy')
        /\ UNCHANGED <<backend, metadata, registry, clientReads, jtis, req, outdated>>
    BY DEF SavePolicy
  <1>7. Observe(registry', policy') /\ registry' \in Registries
    BY <1>1, <1>6
  <1>8. TypeOK'
    <2>1. saves' \in 0 .. MaxSaves
      BY <1>1, <1>6, ClientAuthenticationAssumption DEF Types, TypeOK
    <2>2. QED
      BY <1>1, <1>2, <1>4, <1>5, <1>6, <2>1
         DEF Types, TypeOK, Registries, PolicyValues, Docs
  <1>9. Types'
    BY <1>1, <1>3, <1>6, <1>7, <1>8, ObserveTypes DEF Types
  <1>10. \A x \in Clients : clientReads'[x] \subseteq clientReads[x] \cup {registry'[x]}
    BY <1>6
  <1>11. \A r \in Requests : RequestInv(r)'
    BY <1>4, <1>6, <1>7, <1>10, ObserveKeeps
  <1>12. QED
    BY <1>9, <1>11 DEF IInv

\* The replicas agree again: no read finds anything that it did not before.
LEMMA CatchUpKeeps ==
    ASSUME IInv, CatchUp \/ UNCHANGED vars
    PROVE  IInv'
  <1>1. Types
    BY DEF IInv
  <1>2. UNCHANGED <<backend, metadata, registry, policy, saves, jtis, req, inForce, outdated>>
    BY DEF CatchUp, CatchUpClient, CatchUpPolicy, vars, storeVars, histVars
  <1>3. /\ clientReads' \in [Clients -> SUBSET Docs]
        /\ \A x \in Clients : registry[x] \in clientReads'[x]
                             /\ clientReads'[x] \subseteq clientReads[x]
    <2>1. /\ clientReads \in [Clients -> SUBSET Docs]
          /\ \A x \in Clients : registry[x] \in clientReads[x]
      BY <1>1 DEF Types, TypeOK, Docs
    <2>2. CASE UNCHANGED clientReads
      BY <2>1, <2>2
    <2>3. ASSUME NEW x \in Clients, clientReads' = [clientReads EXCEPT ![x] = {registry[x]}]
          PROVE  <1>3!1 /\ <1>3!2
      BY <2>1, <2>3
    <2>4. QED
      BY <2>2, <2>3 DEF CatchUp, CatchUpClient, CatchUpPolicy, vars, storeVars
  <1>4. policy \in policyReads' /\ policyReads' \subseteq policyReads
    BY <1>1 DEF CatchUp, CatchUpClient, CatchUpPolicy, vars, storeVars, Types, TypeOK
  <1>5. Types'
    BY <1>1, <1>2, <1>3, <1>4 DEF Types, TypeOK, Docs
  <1>6. ASSUME NEW r \in Requests PROVE RequestInv(r)'
    <2>1. RequestInv(r)
      BY DEF IInv
    <2>2. DocsFor(req[r])' \subseteq DocsFor(req[r])
      <3>1. ClientId(req[r]) \in Clients \cup {NoClient}
        BY <1>1, IdType DEF Types, TypeOK
      <3>2. QED
        BY <1>2, <1>3, <3>1 DEF DocsFor
    <2>3. SeenInv(r)'
      BY <1>2, <1>4, <2>1, <2>2 DEF RequestInv, SeenInv, Active
    <2>4. PathInv(r)'
      BY <1>2, <2>1, VerifiesStill DEF RequestInv, PathInv, Cleared
    <2>5. ModeInv(r)'
      BY <1>2, <2>1 DEF RequestInv, ModeInv, Admitted
    <2>6. QED
      BY <2>3, <2>4, <2>5 DEF RequestInv
  <1>7. QED
    BY <1>5, <1>6 DEF IInv

-----------------------------------------------------------------------------
(* POST /token *)

\* The jtis that may be stored: those of assertions by which a client names itself.
JtiOk(a) == a \in Assertions /\ a.iss = a.sub /\ a.iss # NoClient

\* The invariant after a step of one request.
LEMMA StepOf ==
    ASSUME IInv, NEW r \in Requests, UNCHANGED storeVars,
           NEW q \in RequestRecord, req' = [req EXCEPT ![r] = q],
           NEW F \in SUBSET [doc : Docs, mode : Modes],
           NEW O \in [docs : SUBSET Docs, policies : SUBSET PolicyValues],
           inForce' = [inForce EXCEPT ![r] = F], outdated' = [outdated EXCEPT ![r] = O],
           \A a \in jtis' : a \in jtis \/ JtiOk(a),
           RequestInv(r)'
    PROVE  IInv'
  <1>1. Types
    BY DEF IInv
  <1>2. UNCHANGED <<backend, metadata, registry, policy, clientReads, policyReads, saves>>
    BY DEF storeVars
  <1>3. /\ req' \in [Requests -> RequestRecord]
        /\ inForce' \in [Requests -> SUBSET [doc : Docs, mode : Modes]]
        /\ outdated' \in [Requests -> [docs : SUBSET Docs, policies : SUBSET PolicyValues]]
        /\ \A x \in Requests \ {r} :
              req'[x] = req[x] /\ inForce'[x] = inForce[x] /\ outdated'[x] = outdated[x]
    BY <1>1 DEF Types
  <1>4. TypeOK'
    <2>1. \A x \in Requests : req'[x] \in RequestRecord
      BY <1>3
    <2>2. QED
      BY <1>1, <1>2, <2>1 DEF Types, TypeOK, RequestRecord, Docs, JtiOk
  <1>5. Types'
    BY <1>1, <1>2, <1>3, <1>4 DEF Types
  <1>6. ASSUME NEW x \in Requests \ {r} PROVE RequestInv(x)'
    <2>1. /\ RequestInv(x) /\ req'[x] = req[x]
          /\ inForce'[x] = inForce[x] /\ outdated'[x] = outdated[x]
      BY <1>3 DEF IInv
    <2>2. SeenInv(x)'
      BY <1>2, <2>1 DEF RequestInv, SeenInv, Active, DocsFor
    <2>3. PathInv(x)'
      BY <1>2, <2>1, VerifiesStill DEF RequestInv, PathInv, Cleared
    <2>4. ModeInv(x)'
      BY <2>1 DEF RequestInv, ModeInv, Admitted
    <2>5. QED
      BY <2>2, <2>3, <2>4 DEF RequestInv
  <1>7. QED
    BY <1>5, <1>6 DEF IInv

\* An answer.
LEMMA EndKeeps ==
    ASSUME IInv, NEW r \in Requests, UNCHANGED storeVars,
           NEW l \in {"refused", "failed"}, End(r, l),
           \A a \in jtis' : a \in jtis \/ JtiOk(a)
    PROVE  IInv'
  <1> DEFINE q == [Idle EXCEPT !.pc = l]
  <1>1. Types
    BY DEF IInv
  <1>2. /\ q \in RequestRecord /\ q.pc = l
        /\ Nothing \in [docs : SUBSET Docs, policies : SUBSET PolicyValues]
    BY DEF Idle, Nothing, RequestRecord, Docs, Modes
  <1>3. /\ req' = [req EXCEPT ![r] = q] /\ inForce' = [inForce EXCEPT ![r] = {}]
        /\ outdated' = [outdated EXCEPT ![r] = Nothing] /\ req'[r] = q
    BY <1>1 DEF End, Types
  <1>4. RequestInv(r)'
    BY <1>2, <1>3 DEF RequestInv, SeenInv, PathInv, ModeInv, Active, Admitted
  <1>5. QED
    BY <1>2, <1>3, <1>4, StepOf

\* A request that goes on has seen what it saw.
LEMMA SeenOn ==
    ASSUME NEW r \in Requests, SeenInv(r), Active(r), UNCHANGED storeVars,
           req'[r].client_id = req[r].client_id, req'[r].assertion = req[r].assertion,
           inForce'[r] = inForce[r], outdated'[r] = outdated[r]
    PROVE  SeenInv(r)'
  <1>1. ClientId(req'[r]) = ClientId(req[r]) /\ ClientKind(req'[r]) = ClientKind(req[r])
    BY SameId
  <1>2. UNCHANGED <<clientReads, policyReads>>
    BY DEF storeVars
  <1>3. DocsFor(req[r])' = DocsFor(req[r])
    BY <1>1, <1>2 DEF DocsFor
  <1>4. \A d, F, O : DocSeen(req'[r], d, F, O) <=> DocSeen(req[r], d, F, O)
    BY <1>1 DEF DocSeen
  <1>5. \A p, F, O : PolicySeen(req'[r], p, F, O) <=> PolicySeen(req[r], p, F, O)
    BY <1>1 DEF PolicySeen
  <1>6. QED
    BY <1>1, <1>2, <1>3, <1>4, <1>5 DEF SeenInv

\* The invariant after a request has gone on with a document.
LEMMA GotoKeeps ==
    ASSUME IInv, NEW r \in Requests, UNCHANGED storeVars, Active(r),
           NEW l \in {"metadata", "jti", "policy"}, NEW d \in Docs, Goto(r, l, d),
           \A a \in jtis' : a \in jtis \/ JtiOk(a),
           NEW q, q = [req[r] EXCEPT !.pc = l, !.doc = d],
           Resolved(q, inForce[r], outdated[r]),
           l \in {"metadata", "jti"} /\ ClientId(q) # NoClient =>
               AuthMethod(d) = "private_key_jwt",
           l = "jti" => /\ ClientId(q) # NoClient
                        /\ AssertionVerifies(ClientId(q), d, q.assertion),
           l = "policy" => Cleared(q)
    PROVE  IInv'
  <1>1. Types /\ SeenInv(r) /\ req[r] \in RequestRecord
    BY DEF IInv, RequestInv, Types
  <1>2. /\ q \in RequestRecord /\ q.pc = l /\ q.doc = d
        /\ q.client_id = req[r].client_id /\ q.assertion = req[r].assertion
    BY <1>1 DEF RequestRecord
  <1>3. req' = [req EXCEPT ![r] = q] /\ inForce' = inForce /\ outdated' = outdated
    BY DEF Goto, histVars
  <1>4. /\ req'[r] = q /\ inForce' = [inForce EXCEPT ![r] = inForce[r]]
        /\ outdated' = [outdated EXCEPT ![r] = outdated[r]]
    BY <1>1, <1>3 DEF Types
  <1>5. SeenInv(r)'
    BY <1>1, <1>2, <1>3, <1>4, SeenOn
  <1>6. metadata' = metadata
    BY DEF storeVars
  <1>7. PathInv(r)'
    BY <1>2, <1>3, <1>4, <1>6, VerifiesStill DEF PathInv, Cleared
  <1>8. ModeInv(r)'
    BY <1>2, <1>4 DEF ModeInv, Admitted
  <1>9. /\ inForce[r] \in SUBSET [doc : Docs, mode : Modes]
        /\ outdated[r] \in [docs : SUBSET Docs, policies : SUBSET PolicyValues]
    BY <1>1 DEF Types
  <1>10. QED
    BY <1>2, <1>3, <1>4, <1>5, <1>7, <1>8, <1>9, StepOf DEF RequestInv

\* The invariant after a request q has arrived, with f in force and O outdated.
LEMMA Arrived ==
    ASSUME IInv, NEW r \in Requests, UNCHANGED <<storeVars, jtis>>,
           NEW q \in RequestRecord, q.pc \in {"client", "metadata", "policy"},
           q.doc = Absent,
           q.pc = "client" <=> ClientId(q) # NoClient,
           ClientId(q) = NoClient => q.assertion = NoAssertion,
           q.pc = "policy" => ~q.preAuth,
           NEW f \in [doc : Docs, mode : Modes], f = InForceFor(q, registry, policy),
           NEW O, O = [docs |-> DocsFor(q) \ {f.doc}, policies |-> policyReads \ {policy}],
           req' = [req EXCEPT ![r] = q], inForce' = [inForce EXCEPT ![r] = {f}],
           outdated' = [outdated EXCEPT ![r] = O]
    PROVE  IInv'
  <1>1. Types
    BY DEF IInv
  <1>2. req'[r] = q /\ inForce'[r] = {f} /\ outdated'[r] = O
    BY <1>1 DEF Types
  <1>3. UNCHANGED <<clientReads, policyReads, metadata>>
    BY DEF storeVars
  <1>4. O \in [docs : SUBSET Docs, policies : SUBSET PolicyValues]
    <2>1. ClientId(q) \in Clients \cup {NoClient}
      BY IdType DEF RequestRecord
    <2>2. DocsFor(q) \subseteq Docs
      BY <1>1, <2>1, DocsForType DEF Types
    <2>3. policyReads \subseteq PolicyValues
      BY <1>1 DEF Types, TypeOK, PolicyValues
    <2>4. QED
      BY <2>2, <2>3
  <1>5. SeenInv(r)'
    <2>1. DocSeen(q, f.doc, {f}, O) /\ PolicySeen(q, policy, {f}, O)
      <3>1. f.doc = DocFor(q, registry)
        BY DEF InForceFor, DocFor
      <3>2. QED
        BY <3>1, InForceSeen
    <2>2. \A d \in DocsFor(q) : DocSeen(q, d, {f}, O)
      BY <2>1 DEF DocSeen
    <2>3. \A p \in policyReads : PolicySeen(q, p, {f}, O)
      BY <2>1 DEF PolicySeen
    <2>4. ClientId(q) = NoClient => f.doc = Absent
      BY DEF InForceFor
    <2>5. DocsFor(req[r])' = DocsFor(q)
      BY <1>2, <1>3 DEF DocsFor
    <2>6. QED
      BY <1>2, <1>3, <2>2, <2>3, <2>4, <2>5 DEF SeenInv
  <1>6. PathInv(r)'
    <2>1. q.pc = "metadata" \/ q.pc = "policy" => Resolved(q, {f}, O)
      BY DEF Resolved
    <2>2. q.pc = "policy" => Cleared(q)'
      BY DEF Cleared
    <2>3. QED
      BY <1>2, <2>1, <2>2 DEF PathInv
  <1>7. ModeInv(r)'
    BY <1>2 DEF ModeInv, Admitted
  <1>8. QED
    BY <1>4, <1>5, <1>6, <1>7, StepOf DEF RequestInv

\* A request arrives: what can be read is in force, or outdated.
LEMMA ArriveKeeps ==
    ASSUME IInv, NEW r \in Requests, NEW x \in Clients \cup {NoClient},
           NEW a \in Assertions \cup {NoAssertion}, NEW pre \in BOOLEAN,
           Arrive(r, x, a, pre)
    PROVE  IInv'
  <1> DEFINE q0 == [Idle EXCEPT !.client_id = x, !.assertion = a, !.preAuth = pre]
             l == IF ClientId(q0) # NoClient THEN "client"
                  ELSE IF pre THEN "metadata" ELSE "policy"
             q == [q0 EXCEPT !.pc = l]
             f == InForceFor(q0, registry, policy)
             O == [docs |-> DocsFor(q0) \ {f.doc}, policies |-> policyReads \ {policy}]
  <1>1. Types
    BY DEF IInv
  <1>2. q0 \in RequestRecord /\ q0.client_id = x /\ q0.assertion = a /\ q0.preAuth = pre
        /\ q0.doc = Absent
    BY DEF Idle, RequestRecord, Docs, Modes
  <1>3. l \in {"client", "metadata", "policy"}
    OBVIOUS
  <1>4. q \in RequestRecord /\ q.pc = l /\ q.client_id = x /\ q.assertion = a
        /\ q.preAuth = pre /\ q.doc = Absent
    BY <1>2, <1>3 DEF RequestRecord
  <1>5. ClientId(q) = ClientId(q0) /\ ClientKind(q) = ClientKind(q0)
    BY <1>2, <1>4, SameId
  <1>6. ClientId(q0) \in Clients \cup {NoClient} /\ ClientKind(q0) \in ClientKinds
    BY <1>2, IdType
  <1>7. f \in [doc : Docs, mode : Modes]
    <2>1. registry \in Registries /\ policy \in PolicyValues
      BY <1>1 DEF Types, TypeOK, Registries, Docs, PolicyValues
    <2>2. QED
      BY <1>6, <2>1, InForceType
  <1>8. f = InForceFor(q, registry, policy)
    BY <1>5 DEF InForceFor
  <1>9. O = [docs |-> DocsFor(q) \ {f.doc}, policies |-> policyReads \ {policy}]
    BY <1>5 DEF DocsFor
  <1>10. /\ req' = [req EXCEPT ![r] = q] /\ inForce' = [inForce EXCEPT ![r] = {f}]
         /\ outdated' = [outdated EXCEPT ![r] = O]
         /\ ClientId(q0) # NoClient \/ AnonymousOk(q0)
         /\ UNCHANGED <<storeVars, jtis>>
    BY DEF Arrive
  <1>11. ClientId(q) = NoClient => q.assertion = NoAssertion
    BY <1>2, <1>4, <1>5, <1>10 DEF AnonymousOk
  <1>12. (l = "client" <=> ClientId(q) # NoClient) /\ (l = "policy" => ~pre)
    BY <1>5
  <1> HIDE DEF q, l, f, O
  <1>13. QED
    BY <1>3, <1>4, <1>7, <1>8, <1>9, <1>10, <1>11, <1>12, Arrived

\* The registry answers with a document that is in force, or was.
LEMMA FetchClientKeeps ==
    ASSUME IInv, NEW r \in Requests, FetchClient(r)
    PROVE  IInv'
  <1>1. /\ req[r].pc = "client" /\ UNCHANGED <<storeVars, jtis>>
        /\ Types /\ SeenInv(r) /\ PathInv(r)
    BY DEF IInv, RequestInv, FetchClient
  <1>2. PICK d \in DocsFor(req[r]) :
           IF d = Absent \/ ~HasAuthMaterial(req[r], d) THEN End(r, "refused")
           ELSE Goto(r, IF AuthMethod(d) = "private_key_jwt" THEN "metadata" ELSE "policy", d)
    BY DEF FetchClient
  <1>3. CASE d = Absent \/ ~HasAuthMaterial(req[r], d)
    BY <1>1, <1>2, <1>3, EndKeeps
  <1>4. CASE d # Absent /\ HasAuthMaterial(req[r], d)
    <2>1. PICK l \in {"metadata", "policy"} :
             /\ Goto(r, l, d)
             /\ l = "metadata" <=> AuthMethod(d) = "private_key_jwt"
      BY <1>2, <1>4
    <2>2. PICK q : q = [req[r] EXCEPT !.pc = l, !.doc = d]
      OBVIOUS
    <2>3. req[r] \in RequestRecord
      BY <1>1 DEF Types
    <2>4. q.client_id = req[r].client_id /\ q.assertion = req[r].assertion /\ q.doc = d
      BY <2>2, <2>3 DEF RequestRecord
    <2>5. ClientId(q) = ClientId(req[r]) /\ ClientKind(q) = ClientKind(req[r])
      BY <2>4, SameId
    <2>6. ClientId(q) # NoClient /\ ClientId(req[r]) \in Clients \cup {NoClient}
      BY <1>1, <2>3, <2>5, IdType DEF PathInv, RequestRecord
    <2>7. d \in Docs /\ d.enabled # FALSE
      BY <1>1, <1>4, <2>6, DocsForType DEF Types
    <2>8. Active(r)
      BY <1>1 DEF Active
    <2>9. DocSeen(q, d, inForce[r], outdated[r])
      <3>1. DocSeen(req[r], d, inForce[r], outdated[r])
        BY <1>1, <2>8 DEF SeenInv
      <3>2. QED
        BY <2>5, <3>1 DEF DocSeen
    <2>10. AuthMethod(d) \in {"none", "private_key_jwt"}
      BY <1>4 DEF HasAuthMaterial
    <2>11. Resolved(q, inForce[r], outdated[r])
      BY <1>4, <2>4, <2>6, <2>7, <2>9, <2>10 DEF Resolved
    <2>12. l = "policy" => Cleared(q)
      BY <2>1, <2>4, <2>6, <2>10 DEF Cleared
    <2>13. QED
      BY <1>1, <2>1, <2>2, <2>7, <2>8, <2>11, <2>12, GotoKeeps
  <1>5. QED
    BY <1>3, <1>4

\* The metadata allows an anonymous request, or it does not.
LEMMA FetchMetadataAnonymousKeeps ==
    ASSUME IInv, NEW r \in Requests, FetchMetadataAnonymous(r)
    PROVE  IInv'
  <1>1. /\ req[r].pc = "metadata" /\ ClientId(req[r]) = NoClient
        /\ UNCHANGED <<storeVars, jtis>> /\ Types /\ PathInv(r)
    BY DEF IInv, RequestInv, FetchMetadataAnonymous
  <1>2. CASE metadata # Absent /\ metadata.anonymous
    <2>1. PICK l \in {"policy"}, d \in {Absent} : Goto(r, l, d)
      BY <1>2 DEF FetchMetadataAnonymous
    <2>2. PICK q : q = [req[r] EXCEPT !.pc = l, !.doc = d]
      OBVIOUS
    <2>3. req[r] \in RequestRecord /\ d \in Docs
      BY <1>1 DEF Types, Docs
    <2>4. q.client_id = req[r].client_id /\ q.assertion = req[r].assertion /\ q.doc = Absent
      BY <2>1, <2>2, <2>3 DEF RequestRecord
    <2>5. ClientId(q) = NoClient
      BY <1>1, <2>4, SameId
    <2>6. Resolved(q, inForce[r], outdated[r])
      BY <1>1, <2>4, <2>5 DEF PathInv, Resolved
    <2>7. Cleared(q)
      BY <1>2, <2>5 DEF Cleared
    <2>8. Active(r)
      BY <1>1 DEF Active
    <2>9. QED
      BY <1>1, <2>1, <2>2, <2>3, <2>5, <2>6, <2>7, <2>8, GotoKeeps
  <1>3. CASE ~(metadata # Absent /\ metadata.anonymous)
    <2>1. End(r, "refused")
      BY <1>3 DEF FetchMetadataAnonymous
    <2>2. QED
      BY <1>1, <2>1, EndKeeps
  <1>4. QED
    BY <1>2, <1>3

\* A request that goes on with the document it has is resolved as before.
LEMMA SameDoc ==
    ASSUME Types, NEW r \in Requests, NEW l, NEW q,
           q = [req[r] EXCEPT !.pc = l, !.doc = req[r].doc]
    PROVE  /\ q.client_id = req[r].client_id /\ q.assertion = req[r].assertion
           /\ q.doc = req[r].doc /\ q.doc \in Docs
           /\ ClientId(q) = ClientId(req[r])
           /\ Resolved(req[r], inForce[r], outdated[r]) => Resolved(q, inForce[r], outdated[r])
  <1>1. req[r] \in RequestRecord
    BY DEF Types
  <1>2. /\ q.client_id = req[r].client_id /\ q.assertion = req[r].assertion
        /\ q.doc = req[r].doc /\ q.doc \in Docs
    BY <1>1 DEF RequestRecord
  <1>3. ClientId(q) = ClientId(req[r]) /\ ClientKind(q) = ClientKind(req[r])
    BY <1>2, SameId
  <1>4. QED
    BY <1>2, <1>3 DEF Resolved, DocSeen

\* The assertion is verified with the document that was read.
LEMMA FetchMetadataKeeps ==
    ASSUME IInv, NEW r \in Requests, FetchMetadata(r)
    PROVE  IInv'
  <1> DEFINE ok == AssertionVerifies(ClientId(req[r]), req[r].doc, req[r].assertion)
  <1>1. /\ req[r].pc = "metadata" /\ ClientId(req[r]) # NoClient
        /\ UNCHANGED <<storeVars, jtis>> /\ Types /\ PathInv(r)
    BY DEF IInv, RequestInv, FetchMetadata
  <1>2. CASE ok
    <2>1. PICK l \in {"jti"} : Goto(r, l, req[r].doc)
      BY <1>2 DEF FetchMetadata
    <2>2. PICK q : q = [req[r] EXCEPT !.pc = l, !.doc = req[r].doc]
      OBVIOUS
    <2>3. /\ q.assertion = req[r].assertion /\ q.doc = req[r].doc /\ q.doc \in Docs
          /\ ClientId(q) = ClientId(req[r])
          /\ Resolved(q, inForce[r], outdated[r])
      BY <1>1, <2>1, <2>2, SameDoc DEF PathInv
    <2>4. Active(r)
      BY <1>1 DEF Active
    <2>5. AuthMethod(req[r].doc) = "private_key_jwt"
      BY <1>1 DEF PathInv
    <2>6. QED
      BY <1>1, <1>2, <2>1, <2>2, <2>3, <2>4, <2>5, GotoKeeps
  <1>3. CASE ~ok
    <2>1. End(r, "refused")
      BY <1>3 DEF FetchMetadata
    <2>2. QED
      BY <1>1, <2>1, EndKeeps
  <1>4. QED
    BY <1>2, <1>3

\* The jti of a verified assertion may be stored.
LEMMA VerifiedJti ==
    ASSUME IInv, NEW r \in Requests, req[r].pc = "jti"
    PROVE  JtiOk(req[r].assertion)
  <1>1. PathInv(r) /\ req[r].assertion \in Assertions \cup {NoAssertion}
    BY DEF IInv, RequestInv, Types, TypeOK
  <1>2. /\ ClientId(req[r]) # NoClient
        /\ AssertionVerifies(ClientId(req[r]), req[r].doc, req[r].assertion)
    BY <1>1 DEF PathInv
  <1>3. QED
    BY <1>1, <1>2 DEF AssertionVerifies, JtiOk

\* The jti of a verified assertion is stored.
LEMMA SaveJtiKeeps ==
    ASSUME IInv, NEW r \in Requests, SaveJti(r)
    PROVE  IInv'
  <1>1. /\ req[r].pc = "jti" /\ UNCHANGED storeVars /\ Types /\ PathInv(r)
        /\ jtis' = jtis \cup {req[r].assertion}
    BY DEF IInv, RequestInv, SaveJti
  <1>2. \A a \in jtis' : a \in jtis \/ JtiOk(a)
    BY <1>1, VerifiedJti
  <1>3. CASE req[r].assertion \in jtis
    <2>1. End(r, "refused")
      BY <1>3 DEF SaveJti
    <2>2. QED
      BY <1>1, <1>2, <2>1, EndKeeps
  <1>4. CASE req[r].assertion \notin jtis
    <2>1. PICK l \in {"policy"} : Goto(r, l, req[r].doc)
      BY <1>4 DEF SaveJti
    <2>2. PICK q : q = [req[r] EXCEPT !.pc = l, !.doc = req[r].doc]
      OBVIOUS
    <2>3. /\ q.assertion = req[r].assertion /\ q.doc = req[r].doc /\ q.doc \in Docs
          /\ ClientId(q) = ClientId(req[r])
          /\ Resolved(q, inForce[r], outdated[r])
      BY <1>1, <2>1, <2>2, SameDoc DEF PathInv
    <2>4. Active(r)
      BY <1>1 DEF Active
    <2>5. Cleared(q)
      BY <1>1, <2>3 DEF PathInv, Cleared
    <2>6. QED
      BY <1>1, <1>2, <2>1, <2>2, <2>3, <2>4, <2>5, GotoKeeps
  <1>5. QED
    BY <1>3, <1>4

\* A round trip throws.
LEMMA FailKeeps ==
    ASSUME IInv, NEW r \in Requests, Fail(r)
    PROVE  IInv'
  <1>1. UNCHANGED storeVars /\ End(r, "failed")
    BY DEF Fail
  <1>2. \A a \in jtis' : a \in jtis \/ JtiOk(a)
    BY VerifiedJti DEF Fail
  <1>3. QED
    BY <1>1, <1>2, EndKeeps

\* The mode is resolved from the document read before and the policy read now;
\* it was in force with one of them.
LEMMA FetchPolicyKeeps ==
    ASSUME IInv, NEW r \in Requests, NEW h \in Headers, FetchPolicy(r, h)
    PROVE  IInv'
  <1>1. /\ req[r].pc = "policy" /\ UNCHANGED <<storeVars, jtis>>
        /\ Types /\ SeenInv(r) /\ PathInv(r)
    BY DEF IInv, RequestInv, FetchPolicy
  <1>2. PICK p \in policyReads :
           LET mode == PolicyMode(req[r].doc, p, ClientKind(req[r]))
           IN  IF HeaderOk(mode, h)
               THEN /\ req' = [req EXCEPT ![r].pc = "admitted", ![r].mode = mode,
                                          ![r].proof = mode # "off" /\ h = "ok"]
                    /\ UNCHANGED histVars
               ELSE End(r, "refused")
    BY DEF FetchPolicy
  <1>3. PICK mode : mode = PolicyMode(req[r].doc, p, ClientKind(req[r]))
    OBVIOUS
  <1>4. CASE HeaderOk(mode, h)
    <2>1. PICK proof \in BOOLEAN : proof <=> mode # "off" /\ h = "ok"
      OBVIOUS
    <2>2. PICK q : q = [req[r] EXCEPT !.pc = "admitted", !.mode = mode, !.proof = proof]
      OBVIOUS
    <2>3. /\ req[r] \in RequestRecord
          /\ ClientId(req[r]) \in Clients \cup {NoClient}
          /\ ClientKind(req[r]) \in ClientKinds
      BY <1>1, IdType DEF Types, RequestRecord
    <2>4. mode \in Modes
      <3>1. req[r].doc \in Docs /\ p \in PolicyValues
        BY <1>1, <1>2, <2>3 DEF RequestRecord, Types, TypeOK, PolicyValues
      <3>2. QED
        BY <1>3, <2>3, <3>1, ModeType
    <2>5. /\ q \in RequestRecord /\ q.pc = "admitted" /\ q.mode = mode /\ q.proof = proof
          /\ q.client_id = req[r].client_id /\ q.assertion = req[r].assertion
          /\ q.doc = req[r].doc /\ q.preAuth = req[r].preAuth
      BY <2>2, <2>3, <2>4 DEF RequestRecord
    <2>6. req' = [req EXCEPT ![r] = q] /\ inForce' = inForce /\ outdated' = outdated
      <3>1. proof = (mode # "off" /\ h = "ok")
        BY <2>1
      <3>2. QED
        BY <1>2, <1>3, <1>4, <2>2, <3>1 DEF histVars
    <2>7. /\ req'[r] = q /\ inForce' = [inForce EXCEPT ![r] = inForce[r]]
          /\ outdated' = [outdated EXCEPT ![r] = outdated[r]]
          /\ inForce[r] \in SUBSET [doc : Docs, mode : Modes]
          /\ outdated[r] \in [docs : SUBSET Docs, policies : SUBSET PolicyValues]
      BY <1>1, <2>6 DEF Types
    <2>8. ClientId(q) = ClientId(req[r]) /\ ClientKind(q) = ClientKind(req[r])
      BY <2>5, SameId
    <2>9. SeenInv(r)'
      BY <2>5, <2>7 DEF SeenInv, Active
    <2>10. PathInv(r)'
      <3>1. Resolved(q, inForce[r], outdated[r])
        BY <1>1, <2>5, <2>8 DEF PathInv, Resolved, DocSeen
      <3>2. Cleared(q)
        BY <1>1, <2>5, <2>8 DEF PathInv, Cleared
      <3>3. metadata' = metadata
        BY <1>1 DEF storeVars
      <3>4. Cleared(q)'
        BY <3>2, <3>3, VerifiesStill DEF Cleared
      <3>5. QED
        BY <2>5, <2>6, <2>7, <3>1, <3>4 DEF PathInv
    <2>11. mode = "required" => proof
      BY <1>4, <2>1 DEF HeaderOk
    <2>12. ModeSeen(q, q.doc, mode, inForce[r], outdated[r])
      <3>1. Resolved(req[r], inForce[r], outdated[r])
        BY <1>1 DEF PathInv
      <3>2. Active(r)
        BY <1>1 DEF Active
      <3>3. PolicySeen(req[r], p, inForce[r], outdated[r])
        BY <1>1, <1>2, <3>2 DEF SeenInv
      <3>4. CASE Own(req[r].doc)
        <4>1. ClientId(req[r]) # NoClient
          BY <3>1, <3>4 DEF Resolved, Own
        <4>2. DocSeen(req[r], req[r].doc, inForce[r], outdated[r])
          BY <3>1, <4>1 DEF Resolved
        <4>3. mode = PolicyMode(req[r].doc, Absent, ClientKind(req[r]))
          BY <1>3, <3>4, ModeOf
        <4>4. QED
          BY <2>5, <2>8, <3>4, <4>2, <4>3 DEF DocSeen, ModeSeen
      <3>5. CASE ~Own(req[r].doc)
        <4>1. mode = PolicyMode(Absent, p, ClientKind(req[r]))
          BY <1>3, <3>5, ModeOf
        <4>2. CASE p \in outdated[r].policies
          BY <2>5, <2>8, <3>5, <4>1, <4>2 DEF ModeSeen
        <4>3. CASE p \notin outdated[r].policies
          <5>1. PICK f \in inForce[r] :
                   Own(f.doc) \/ f.mode = PolicyMode(Absent, p, ClientKind(req[r]))
            BY <3>3, <4>3 DEF PolicySeen
          <5>2. CASE ClientId(req[r]) = NoClient
            <6>1. ~Own(f.doc)
              BY <1>1, <3>2, <5>2 DEF SeenInv, Own
            <6>2. QED
              BY <4>1, <5>1, <6>1 DEF ModeSeen
          <5>3. CASE ClientId(req[r]) # NoClient
            <6>1. req[r].doc # Absent
              BY <3>1, <5>3 DEF Resolved
            <6>2. QED
              BY <2>5, <3>5, <4>1, <5>1, <6>1 DEF ModeSeen
          <5>4. QED
            BY <5>2, <5>3
        <4>4. QED
          BY <4>2, <4>3
      <3>6. QED
        BY <3>4, <3>5
    <2>13. ModeInv(r)'
      BY <2>5, <2>6, <2>7, <2>11, <2>12 DEF ModeInv
    <2>14. QED
      BY <1>1, <2>5, <2>6, <2>7, <2>9, <2>10, <2>13, StepOf DEF RequestInv
  <1>5. CASE ~HeaderOk(mode, h)
    <2>1. End(r, "refused")
      BY <1>2, <1>3, <1>5
    <2>2. QED
      BY <1>1, <2>1, EndKeeps
  <1>6. QED
    BY <1>4, <1>5

-----------------------------------------------------------------------------
(* The specification *)

\* Nothing is registered and no request has arrived.
LEMMA InitInv == Init => IInv
  <1> SUFFICES ASSUME Init PROVE IInv
    OBVIOUS
  <1>1. Idle \in RequestRecord /\ Idle.pc = "idle"
    BY DEF Idle, RequestRecord, Docs, Modes
  <1>2. \A r \in Requests : req[r] = Idle
    BY DEF Init
  <1>3. TypeOK
    BY <1>1, <1>2, ClientAuthenticationAssumption
       DEF Init, TypeOK, Idle, Modes
  <1>4. /\ req \in [Requests -> RequestRecord]
        /\ inForce \in [Requests -> SUBSET [doc : Docs, mode : Modes]]
        /\ outdated \in [Requests -> [docs : SUBSET Docs, policies : SUBSET PolicyValues]]
    BY <1>1 DEF Init, Nothing, Docs, PolicyValues
  <1>5. \A r \in Requests : RequestInv(r)
    BY <1>1, <1>2 DEF RequestInv, SeenInv, PathInv, ModeInv, Active, Admitted
  <1>6. QED
    BY <1>3, <1>4, <1>5 DEF IInv, Types

\* Every step keeps the invariant.
LEMMA StepKeeps ==
    ASSUME IInv, [Next]_vars
    PROVE  IInv'
  <1>1. ASSUME NEW r \in Requests, NEW a \in Assertions, ArriveUnnamed(r, a)
        PROVE  IInv'
    BY <1>1, EndKeeps DEF ArriveUnnamed
  <1>2. ASSUME NEW r \in Requests, Step(r)
        PROVE  IInv'
    BY <1>2, FetchClientKeeps, FetchMetadataAnonymousKeeps, FetchMetadataKeeps,
       SaveJtiKeeps, FetchPolicyKeeps, FailKeeps DEF Step
  <1>3. CASE Operator
    BY <1>3, SaveClientKeeps, SavePolicyKeeps, CatchUpKeeps DEF Operator
  <1>4. CASE UNCHANGED vars
    BY <1>4, CatchUpKeeps
  <1>5. QED
    BY <1>1, <1>2, <1>3, <1>4, ArriveKeeps DEF Next

\* The inductive invariant holds throughout.
THEOREM InvariantHolds == Spec => []IInv
  BY InitInv, StepKeeps, PTL DEF Spec

\* Type correctness: documents, merged ones too, requests, and the jtis, which are
\* those of assertions whose issuer is their subject.
THEOREM TypeCorrect == Spec => []TypeOK
  BY InvariantHolds, PTL DEF IInv, Types

\* A request that is let through came from an enabled client that proved who it
\* is, judged by one registration that was in force while it ran, or that DynamoDB
\* still showed when it came.
THEOREM AuthenticatedClientHolds == Spec => []AuthenticatedClient
  <1>1. IInv => AuthenticatedClient
    <2> SUFFICES ASSUME IInv, NEW r \in Requests, Admitted(r)
                 PROVE  LET x == ClientId(req[r])
                            a == req[r].assertion
                        IN  IF x = NoClient
                            THEN /\ a = NoAssertion
                                 /\ req[r].preAuth => metadata # Absent /\ metadata.anonymous
                            ELSE \E d \in {f.doc : f \in inForce[r]} \cup outdated[r].docs :
                                   /\ d # Absent /\ d.enabled # FALSE
                                   /\ \/ AuthMethod(d) = "none"
                                      \/ /\ AuthMethod(d) = "private_key_jwt"
                                         /\ Proves(x, d, a)
      BY DEF AuthenticatedClient
    <2>1. Resolved(req[r], inForce[r], outdated[r]) /\ Cleared(req[r])
      BY DEF IInv, RequestInv, PathInv, Admitted
    <2>2. CASE ClientId(req[r]) = NoClient
      BY <2>1, <2>2 DEF Resolved, Cleared
    <2>3. CASE ClientId(req[r]) # NoClient
      <3>1. req[r].doc \in {f.doc : f \in inForce[r]} \cup outdated[r].docs
        BY <2>1, <2>3 DEF Resolved, DocSeen
      <3>2. AssertionVerifies(ClientId(req[r]), req[r].doc, req[r].assertion) =>
               Proves(ClientId(req[r]), req[r].doc, req[r].assertion)
        BY DEF AssertionVerifies, Proves, SelectedKeys
      <3>3. QED
        BY <2>1, <2>3, <3>1, <3>2 DEF Resolved, Cleared
    <2>4. QED
      BY <2>2, <2>3
  <1>2. QED
    BY <1>1, InvariantHolds, PTL

\* The mode a request is held to was in force at some instant of it, or the client
\* got a constraint of its own meanwhile, or DynamoDB still showed the registration
\* or the policy it comes from.
THEOREM ModeInForceHolds == Spec => []ModeInForce
  <1>1. IInv => ModeInForce
    BY DEF IInv, RequestInv, ModeInv, ModeSeen, ModeInForce
  <1>2. QED
    BY <1>1, InvariantHolds, PTL

=============================================================================
