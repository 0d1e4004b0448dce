# TLA+ models of VCKnots

VCKnots is a toolkit for verifiable credentials: an issuer and verifier library
in TypeScript (`issuer+verifier/`), stores for it on AWS (`aws/`) and Google
Cloud (`google-cloud/`), HTTP servers built from them (`server/`), and a wallet
in Go (`wallet/`). These modules model the parts of it that keep state and are
used by several requests at once.

## Inventory

| Component | State | Operations | Talks to |
|---|---|---|---|
| Pre-authorized code store (DynamoDB, Firestore, in memory) | code → configurations, tx_code hash, attempts, expiry | `save`, `consume` | written by the offer, consumed by the token endpoint |
| Replay stores (DPoP proof jti, client assertion jti; three backends each) | jti → expiry | `saveIfAbsent` | token and credential endpoints |
| Nonce store (three backends) | nonce → expiry | `save`, `validate`, `revoke`, `consume` | one store for c_nonce, DPoP nonce and presentation nonce |
| Allowed-configuration store | hash of access token → configurations | `save`, `fetch`, `delete` | written by the token endpoint, read by the credential endpoint |
| Token endpoint (`authz.flows.ts`, `routes/authz.ts`) | none of its own | client authentication, DPoP, code redemption, token | all stores above, policy and client registry |
| Credential and nonce endpoints (`issuer.flows.ts`, `routes/issue.ts`) | none of its own | offer, nonce, access control, key proofs, credential | same |
| OAuth policy and client registry | server policy, client overrides | save, fetch, resolution to a DPoP mode | operator, token and credential endpoints |
| Verifier flow (`verifier.flows.ts`, `routes/verify.ts`) | transactions, nonces, request objects; `state` → transaction **in the process** | request, request object, callback, cancel | wallet |
| Metadata and key stores, provisioning | issuer, server and verifier metadata; keys per algorithm | register, fetch, sign | KMS, databases |
| Verifier certificate and encryption key stores | certificate chain; encryption key, **in the process** on AWS | `save`, `fetch` | registration of a verifier, request objects |
| Credential formats, presentation verification, DCQL | none | key proofs, `createCredential`, `verifyPresentations` | the keys the issuer publishes |
| Wallet (Go) | credentials, keys, identity profiles | receive, present, import, list | the two servers |

What is hard here:

* **Several round trips per request.** Every handler is a chain of awaits on
  shared stores, served by many processes; any two requests interleave between
  any two of them.
* **One-shot objects.** Codes, assertions, DPoP proofs, nonces, request objects
  and transactions must each count once. Some stores make that one conditional
  write, others a check and a later write.
* **Time.** Expiry is compared in milliseconds by the code, in seconds by JWTs
  and by DynamoDB's TTL, with clock tolerance in between; entries are deleted by
  the database whenever it gets round to it.
* **Failure.** A process dies, a response is lost, or an error is thrown between
  two writes, and nothing is rolled back.
* **Stale reads.** DynamoDB's `GetItem` without `ConsistentRead` may miss the
  latest writes.
* **Retries.** The AWS SDK and Firestore send a write again when its answer is lost,
  whether or not it may take effect twice.
* **State per process.** The binding of `state` to a transaction is not shared,
  nor are the AWS verifier's encryption keys.
* **Documents that belong together.** A client's registration and the policy, a
  certificate and its key, a kid and the key that signs are read or written a few
  round trips apart.
* **Two sides of one format.** Issuer and verifier agree on a credential only
  through its contents and the keys published when it is verified.

What makes each part correct is stated as the properties below; `PROJECT.json`
lists the hazards line by line with the property that covers each.

## Modules

| Module | Models |
|---|---|
| `CodeRedemption` | what a pre-authorized code promises: offered once, limited tries, at most one winner |
| `CodeStore` | what the code stores share: parameters, the state of a call, tx_codes, the refinement mapping |
| `PreAuthCodeStore` | `save()` and `consume()` on DynamoDB and on Firestore |
| `InMemoryCodeStore` | the in-memory store |
| `CredentialGrant` | what offer, token and credential endpoint promise together: one grant, one token, credentials of what was offered |
| `ReplayGuard` | acceptance of a DPoP proof or a client assertion once |
| `Issuance` | offer, `/token`, `/nonce`, `/credentials` over the shared stores |
| `PresentationExchange` | what a verifier promises: a request is answered under its state and nonce, and closed by its first answer |
| `Presentation` | `/request`, `/request-object`, `/request.jwt`, `/callback`, `/callback-kbjwt`, cancellation |
| `KeyProvisioning` | registration of an issuer, authorization server or verifier over the three key stores |
| `ClientAuthentication` | who a token request comes from and its DPoP mode, over documents an operator changes |
| `Credentials` | a credential of either format from the holder's proof to the verifier's conclusion |
| `VerifierIdentity` | registration of a verifier over its four stores, and what signs its request objects |
| `*Proofs` | the inductive invariant of the module it is named after, and the proofs (`CodeStoreProofs`: of both code stores) |
| `MC*` | symmetry and inputs for TLC |

Operators with the comment "Mutant:" are wrong versions of the
definition after them. They are not part of any specification; substituting one
for its definition makes TLC report the property it is paired with, which shows
that the property depends on that line of code.

### CodeRedemption, CodeStore, PreAuthCodeStore, InMemoryCodeStore

`PreAuthCodeStore` follows the three round trips of `consume()`: the gate
(`UpdateItem` with a condition, or a Firestore transaction) that counts the
attempt, the evaluation of the item it returned, and the delete, conditional for
the winner and unconditional for an expired or locked code. `GateAdmit` and
`GateReject` are the two outcomes of the first, `Evaluate*` the branches of the
second, `Delete*` the outcomes of the third; `Fail` is a process that dies or a call
that throws, `TtlSweep` the database's own deletion. `GateUnanswered` and
`DeleteUnanswered` are writes that take effect and whose answer is lost: the client
library sends them again. For the gate that matters, because neither
`ADD #attempts :one` nor a Firestore transaction that is run again is idempotent: one
call may be counted several times, see a higher number than its own, or be refused
after it was counted. `unanswered` is the history of such increments, and the
properties say "attempts used", by calls that got past the gate or by lost answers,
where they mean that. `entry` keeps an item after its deletion because
requests hold copies of it. A tx_code is a record of its JSON type and its text,
the HMAC an injective wrapper. `backend`, chosen initially, selects the comparisons of the
two providers, which differ (`now > expires_at` on DynamoDB, `expires_at <= now` on
Firestore).

`InMemoryCodeStore` runs `consume()` in one action: there is no await in it. Its
operators that have a counterpart in `PreAuthCodeStore` begin with `Memory`, because
`CodeStoreProofs` extends both modules. Both implement `CodeRedemption`
(`RefinesRedemption`, stated once in `CodeStore`) with `stored`, the items or the
keys of the map, as the live codes. Its `Waste` is an attempt that is counted and
that nobody learns of; only the databases do that. `MCCodeStores` chooses among the
stores, one per behaviour.

### ReplayGuard

A request is verified at one moment, reads the clock for the store at a second,
and its write takes effect at a third. `kind` is the JWT looked at, `backend` the
store; both are chosen initially. Time is in ticks, `Second` ticks to the second of `iat` and `exp`. The
model assumes `MaxRoundTrip < SweepLag`: a write is not under way longer than
DynamoDB takes to delete an expired item (which its documentation puts at days).

### Issuance

The state is the stores plus, per request, its program counter `pc` and a record
`req` of its arguments and local variables, emptied when it is refused. Each
label of `pc` is an await. A token is named by the request that made it;
what it is bound to is `cnf`. The code store is used through its abstract
behaviour (`RedeemCode`, `RefuseCode`, `WithdrawCode`), which the modules above
justify. The jti store may forget an entry at any time (`ForgetJti`), so the
properties do not lean on retention that `ReplayGuard` shows to be incomplete;
the assertion jti store does not forget, which is what `AssertionAcceptedOnce` of
`ReplayGuard` shows for every store that survives a restart. (The in-memory one
does not: after a restart an assertion that is still valid can be used again, for
a code offered since.)
A nonce is consumed by one conditional delete, but `validate()` reads: with
`StaleReads`, as on DynamoDB, a nonce that was deleted is in `lingering` and still
found by a read until the replicas catch up (`CatchUp`). `SpentCNonceStaysSpent`
therefore speaks of the c_nonces that were spent, and gone from every replica, when a
request began.
The operator may change the DPoP mode of either kind of client at any time. A
proof's signature, `htm` and `htu` are valid by construction of `DpopProofs`,
where a proof without `ath` is one for `/token`.

`CredentialGrant` is what the endpoints promise: a code that was offered is redeemed
by one request or withdrawn, that request is sent one token, and credentials are
issued with it of the configurations offered, to whoever shows its key. It knows
nothing of DPoP modes, nonces, jti stores, expiry or allowed-configuration entries:
those may only refuse. `RefinesCredentialGrant` says that `Issuance` implements it;
`Sent` and `Issued` are the mapping, a token or credential being what a request was
answered with.

### Presentation

A request names its transaction, nonce and request object, which are random
values. `byState` is the map in each process. A response carries a `state` and
the request whose nonce its presentations are made over; `NoTx` stands for
presentations whose nonce is not compared (a dc+sd-jwt at `/callback`).
A `workload`, chosen initially from `Workloads`, says which calls are made,
whether requests may be by reference, and whether the nonce and request object
stores may answer from an old replica (`staleReads`); the transaction store reads
strongly in the code, and here.

`PresentationExchange` has neither processes nor bindings nor stores: a request is
sent, open and closed, a response taken for an open request and accepted. It lets the
responses taken before the first acceptance be accepted too, because validating and
revoking a nonce are two round trips. In `RefinesPresentationExchange` the open
requests are those sent whose transaction is stored, and a response is taken from the
moment its checks pass (`Taken`) until it is accepted (`Accepted`) or fails.

### KeyProvisioning

A registration checks for a duplicate, saves a key per algorithm and then the
metadata. `reg` is the registration, `save` the `save()` calls it starts in one
turn (`Promise.all`), which go on when one of them throws. A key is named by the
`save()` that made it; `key` is what an algorithm resolves to: the entry of the
in-memory list, the target of the AWS alias, or the latest version of a Google
Cloud CryptoKey. `AliasUnanswered` and `CreateKeyUnanswered` are calls that take
effect and whose answer is lost, `Crash` a process that dies. The verifier's
certificate and encryption key are steps that may fail. On AWS the duplicate
check may miss a registration just made, because `GetItem` is eventually
consistent there.

`KeysBeforeMetadata` names three exceptions; dropping any one of them makes TLC
report a violation, so each is a behaviour of the code:

* in memory, all `save()` calls of a registration read the list before any of
  them writes it, so an issuer with two algorithms ends up with one key
  (`in-memory-issuer-signature-key-store.provider.ts:21`, `issuer.flows.ts:219`);
* on AWS, a key whose `CreateAlias` or `UpdateAlias` took effect without an
  answer is scheduled for deletion while the alias points to it
  (`kms-signature-key-store.factory.ts:167`, `:230` and `:234`);
* on Google Cloud, a CryptoKey left without a version by a failed import passes
  for a generated key (`kms-provider.helpers.ts:202`).

### ClientAuthentication

`resolveTokenRequestClientPolicy()` reads the client's registration, the server's
metadata and the OAuth policy one after the other; each read is an action, and the
operator's saves come in between. A document is a record whose optional fields may
be `Absent`, so that defaults and Firestore's `set` with `merge` are the code's.
`clientReads` and `policyReads` hold what a read may return: the current document,
and on DynamoDB any earlier one that some replica still shows, until it catches up
(`CatchUpClient`, `CatchUpPolicy`). The in-memory store is DynamoDB with replicas
that catch up at once.
An assertion says who it names, who signed it and with which algorithm and
audience; the choice of client id, method and key, and the checks in
`verifyPrivateKeyJwtClientAuthentication()`, that of the key's own `alg` (`KeyAlg`)
included, are operators over it. Its times and
its jti's lifetime belong to `ReplayGuard`.

`inForce` is a history: the pairs of a registration and a mode that were in force
together at some instant while a request ran, beginning with the one pair in force
when it arrived. `outdated` holds apart what had been replaced by then and was still
shown by a replica. `AuthenticatedClient` and `ModeInForce` compare what a request
concluded with the pairs, and name what is not among them:

* on DynamoDB, a registration or a policy that was replaced before the request came
  can still decide about it (`authz.flows.ts:1031` and `:1039` read it);
* a registration may get a constraint of its own after the request has read it: then
  the old registration is combined with a policy saved later, a pair that was never
  in force.

`DisabledTakesEffect` says that the first of them ends: once a client stays disabled,
its requests stop getting past the registry. On Firestore the document in force is
the merged one, which nobody may have saved as such.

### Credentials

The issuer has a current key per algorithm, which an operator, or a restart of the
in-memory store, may replace. `FetchKey` stands for the checks of a request, its
proofs (by kid, jwk or x5c chain) and `fetch()`, `SignCredential` for the round
trip after it. A signature is the key that made it. On the other side a response
is taken apart query by query: `VerifyPresentation` is one call of a provider with
everything that provider does, `Conclude` the check of `credential_sets`. Foreign
credentials are forgeries and those of another issuer.

A holder's key has an algorithm, `HolderAlg`, and a key binding JWT or VP is taken to
name the algorithm of the key that signs it. A verifier may list the algorithms it
wants, of either format (`algs`) and of key binding JWTs (`kbAlgs`); `Wanted` says
that a presentation keeps to them.

`AcceptedIsGenuine` has two exceptions, each a behaviour of the code: an SD-JWT
with an x5c header is verified with the key of that certificate, for which no
anchor is asked; and `/callback` asks for no key binding of an SD-JWT.
`HonestVerifies` is the opposite direction. `Unverifiable` names what is issued
and cannot be verified:

* a JWT VC is verified with the first published key, so one of the second
  algorithm is not (`verify-credential-jwt-vc-json.provider.ts:117`),
  and one whose proof had no kid is bound to nobody;
* an SD-JWT is verified for ES256 only, and bound to nobody if its configuration
  lists no binding method;
* the issuer binds a credential to a key of any algorithm that
  `credential-proof-jwt.provider.ts:223` accepts, and asks no metadata about it,
  while a verifier takes a key binding JWT in ES256 only
  (`verify-presentation-dc-sd-jwt.provider.ts:102`, as `docs/en/verifier.md:816`
  says) and no VP in EdDSA (`jwt-signature.provider.ts:25`): an EdDSA holder can show
  neither format, and a holder with another key than ES256 no SD-JWT with a key
  binding JWT;
* an SD-JWT with nothing to disclose is issued without the final `~`
  (`issue-credential-dc-sd-jwt.provider.ts:216`).

### VerifierIdentity

`createVerifierMetadata()` writes a signature key, an encryption key, a
certificate and the metadata to four stores; attempts overlap, fail between any two
writes and are made again. `SaveCertificate` and `PutCertificate` are the two calls
of a secret store, `VersionReady` and `EncryptionKeyReady` what Google Cloud does
later by itself, `Restart` loses what a process keeps: everything on `memory`, the
encryption key on `aws`. `FindRequestObject` builds the header and `Sign` signs a
round trip later. A registration's certificate and private key are taken to belong
together, which the code does not check. There is one verifier and one algorithm.

`HeaderNamesSigner` and `PublishedKeyHeld` name their exceptions; TLC reports a
violation when any one of them is dropped. They are overlapping registrations,
which nothing prevents; a certificate left by a failed attempt and used by a
registration that brings none; on Google Cloud a version left by an earlier
attempt, which signs until the new one is enabled (or, if its import fails, for
good); on AWS a restart, which loses the key whose public half is still published.

## Runs

| Run | Instance | Shows |
|---|---|---|
| `dynamodb_code_store` | 1 code, 3 calls, limit 2, 3 ticks | `RedeemedOnce`, `AttemptsBounded`, `NoCodeLostWithoutCause`, and the refinement |
| `other_code_stores` | Firestore and in memory; 1 code, 2 calls, limit 2, both input modes, string and number tx_codes | `RedeemedOnce`, `NoCodeLostWithoutCause`, `RedemptionLegitimate`, `LiveCodeHasAttemptsLeft` and the refinement |
| `replay` | 1 JWT of either kind, 3 presentations, 16 ticks, all stores | `AssertionAcceptedOnce`, `ReplayRefusedInWindow` |
| `token_endpoint` | 2 token requests, 2 codes, an assertion and a public client, 2 nonces | `OneTokenPerGrant`, `ProofHonouredOnce` |
| `credential_endpoint` | 1 anonymous token request and 2 credential requests, 2 keys, 2 configurations, 1 key proof each, a nonce store with stale reads | `CredentialAuthorized`, `SpentCNonceStaysSpent`, and the refinement of `CredentialGrant` |
| `presentation` | 2 requests, 2 states; 2 responses and a cancellation over stale reads, or 2 retrievals on consistent ones | `AcceptedForItsRequest`, `AnsweredIsClosed`, `OpenTransactionIsBound`, `RetrievedObjectIsClosed`, and the refinement of `PresentationExchange` |
| `key_provisioning` | 2 registrations, 2 algorithms, 3 key stores, generated and imported keys | `KeysBeforeMetadata`, `NoOrphanKeys`, `GeneratedKeyStays` |
| `client_authentication` | 1 request, 2 clients, 3 keys, 4 registrations, 4 assertions, 2 policies, 3 saves, DynamoDB and Firestore | `AuthenticatedClient`, `ModeInForce` and, under fairness, `DisabledTakesEffect` |
| `credentials` | 1 credential, 2 algorithms with 2 keys each, 3 holder keys (2 ES256, 1 EdDSA), 2 queries, 5 foreign credentials | `AcceptedIsGenuine`, `HonestVerifies` |
| `verifier_identity` | 3 attempts, 2 at a time, 1 request object, 1 restart, 3 backends | `HeaderNamesSigner`, `PublishedKeyHeld` |

A module's `TypeOK` is checked by one of its runs.

Two runs report a violation, each of a sentence the repository says about itself:

* `verifier_instances` shows that with two instances a response can be refused
  because the other one holds the binding of its state
  (`dynamodb-verifier-transaction-store.provider.ts:66` promises the opposite);
* `c_nonce_reuse` shows that a c_nonce cannot be reused within its validity period, as
  the library's README says (`issuer+verifier/README.md:155` and `:199`):
  `issueCredential()` revokes it at its first use (`issuer.flows.ts:437`). No nonce
  expires in that run and no operator revokes one.

Other sentences differ from the code without a run of their own:

* `authz.flows.ts:843` says a jti is retained while its proof could still pass; a
  proof signed by a clock that runs ahead by the tolerance outlives its entry by up
  to the tolerance, and by up to a second as ages are rounded down.
  `ReplayRefusedInWindow` states the window that holds, and where a nonce is required
  `ProofHonouredOnce` holds beyond it.
* `docs/en/verifier.md:847` lists a nonce that has already been used as a cause of
  `invalid_nonce`; two overlapping callbacks over one nonce are both accepted.
  `AnsweredIsClosed` is what holds of one that begins after the other was accepted.
* `docs/en/verifier.md:693` says a request object can be retrieved only once; two
  overlapping retrievals both succeed. `RetrievedObjectIsClosed` states what holds
  for one retrieval after another.
* `createAuthzOAuthPolicy()` "Persists or replaces" the policy (`authz.flows.ts:1006`);
  on Firestore a field the new document leaves out keeps its old value.
  `ClientAuthentication` models the merge.
* `kms-signature-key-store.factory.ts:165` says of a key it discards that it never got
  its alias; when the answer of `CreateAlias` is lost, it did. `KeysBeforeMetadata`
  names that.

`OpenTransactionIsBound` says nothing of requests that share a state: there the answer
to one may free the binding of the other (`verify.ts:198`), or a refused registration
leave a response to the wrong one (`verify.ts:139`). That a response is nevertheless
accepted only where it belongs is `AcceptedForItsRequest`.

Bounds. One code is enough because codes do not share state; three calls are one
more than the limit and than the two that race for the delete. The proofs remove
all these bounds for the properties they cover. The clocks run past every expiry by more than a second, so each
comparison is met on both sides. In `Issuance` two requests per endpoint give
every pair that can race, two nonces one to use and one to be challenged with. In
`Presentation` two requests may use one state or two, and two responses and a
cancellation meet both of them; the workload with responses has requests by value
only, because no request object is read there. The DPoP modes are `off` and `required` in
`token_endpoint`, `off` and `optional` in `credential_endpoint`, where `optional`
lets through all that `required` does. In `KeyProvisioning` two registrations are
a winner and a loser of every race, and two algorithms what one save can take
from another. In `ClientAuthentication` requests share only documents they do not
write, so one is enough, and three saves replace a registration and the policy
around it; the in-memory store needs no behaviours of its own there. In `Credentials` one credential suffices because a verifier keeps
nothing from one credential to the next, two versions are a key and its
replacement, an EdDSA holder key stands for those no verifier takes (one in ES384 is
left to the proof), and two presentations let a query be answered twice or two queries
once. In `VerifierIdentity` two attempts overlap after a third has failed or while
it is still to come. Runs with `CHECK_DEADLOCK FALSE` are those in
which every call has been answered and the clock has reached its bound.

Fairness is assumed only in `client_authentication`, for `DisabledTakesEffect`: weak
fairness of each request's steps, because a chain of promises on the stores settles or
fails, and of `CatchUpClient`, because DynamoDB's replicas converge. Nothing is assumed
of the operator or of arrivals. One request at a time with a sequence of arrivals is
enough for it, since requests do not read what others write but the jti.

## Proofs

Eight modules prove, for every value of the constants, what the runs check on
small instances: any set of requests, keys, documents or presentations, any limit
and any clock. Each has the same shape. `IInv` is the inductive invariant: the
type invariant together with what every request knows by how far it has come, and
what the stores remember of the requests that are gone. One lemma per action shows
that the action keeps it, `InvariantHolds` is `Spec => []IInv`, and a theorem named
`<Property>Holds` derives each property. TLC has checked every `IInv` on the
instances of the runs. The assumptions are the `ASSUME`s of the component modules:
inputs are of the shape their names say, null values are not among the values, and
numbers are natural. TLC evaluates them in the runs. What goes beyond that is
named below.

| Proofs | Theorems besides `TypeCorrect` |
|---|---|
| `CodeStoreProofs` | `RedeemedOnce`, `AttemptsBounded`, `RedemptionLegitimate`, `NoCodeLostWithoutCause` of the databases; `LiveCodeHasAttemptsLeft` of the in-memory store; the refinement of `CodeRedemption` by each |
| `ReplayGuardProofs` | `AssertionAcceptedOnce`, `ReplayRefusedInWindow` |
| `IssuanceProofs` | `ProofHonouredOnce`, `OneTokenPerGrant`, `CredentialAuthorized`, `SpentCNonceStaysSpent`, and the refinement of `CredentialGrant` |
| `PresentationProofs` | `AcceptedForItsRequest`, `AnsweredIsClosed`, `OpenTransactionIsBound`, `RetrievedObjectIsClosed`, and the refinement of `PresentationExchange` |
| `KeyProvisioningProofs` | `KeysBeforeMetadata`, `NoOrphanKeys`, `GeneratedKeyStays` (an action property) |
| `ClientAuthenticationProofs` | `AuthenticatedClient`, `ModeInForce` |
| `CredentialsProofs` | `AcceptedIsGenuine`, `HonestVerifies` |
| `VerifierIdentityProofs` | `HeaderNamesSigner`, `PublishedKeyHeld` |

**PreAuthCodeStore.** Assumed are a positive limit, TTL and second (the providers
clamp them) and a finite set of requests. `RedeemedOnce` and the others are not
inductive; `IInv` adds

* `GateInv`: a request past the gate is in the history of its code, and saw no
  more attempts than were counted;
* `CountInv`: `attempts` is the number of requests admitted and of increments whose
  answer was lost, which stays true when the item is deleted because a code is never
  saved twice;
* `BranchInv`: what a request knows when it is about to delete, which is still
  true whenever the delete takes effect: expiry is never undone, the verdict
  depends only on what was saved, and attempts never go down;
* `OwnerInv`: a stored code has no owner, a redeemed one exactly one;
* `TtlInv`: the TTL attribute, rounded up, is never before the expiry.

`CauseStep` is the heart of `NoCodeLostWithoutCause`: the unconditional delete of
a lockout happens only when the request saw the limit, so by `CountInv` all
attempts are used, by admitted calls or by lost answers, and its own was refused. The
refinement maps `GateAdmit` to the abstract try, `GateUnanswered` to the wasted one,
`DeleteWon` and the `DeleteUnanswered` of a winner to the redemption, every other
delete and the TTL to the withdrawal, and all else to stuttering.

**InMemoryCodeStore.** `consume()` is one step, so `MemoryIInv` needs only
`MemoryCodeInv` (a code that was not saved has no history) and `MemoryCallInv` (only
answered calls are in it). In the refinement a call that matches is an abstract try and a redemption at
once, and a restart withdraws every code.

**ReplayGuard.** `WriteInv` says that a write under way read its clock at most
`MaxRoundTrip` ago, when its JWT had lifetime left. `RetainedInv` says that of the
requests that were accepted with a JWT, the one that read the latest clock decides
about the entry: it is there, or was deleted `SweepLag` after it had expired. A later
write therefore meets the entry or finds a JWT that has run out. This is where
`MaxRoundTrip < SweepLag` is used.

**Issuance.** `NonceInv` and `CodeInv`: a nonce taken out, or a code redeemed, was
so by one request and is gone for good. `TokenInv` and `AssertedInv`: a token the
stores know was sent, with configurations of the offer its code came from, and of the
requests let in with one assertion there is only one. `TokenRequestInv`,
`CredentialRequestInv` and `KeyProofInv` say what a request holds at each await.
`CredentialAuthorized` then follows the chain backwards, from a reply through entry,
token and code to the offer; the policy does not occur in it, so the operator may
change it at any time. `SpentCNonceStaysSpent` rests on `KeyProofInv`, which compares
the nonces a request was let through with to those that had been spent, and were gone
from every replica, when it began: such a nonce is neither stored nor shown again. The
refinement of `CredentialGrant` needs `WinnerInv` besides, that a request which
redeemed a code is past that step. Redeeming, answering and creating are steps of the
grant by `CodeInv`, `AssertedInv` and `ProofBound`; every other step of a request is
`Quiet`, that is, it changes nothing of what the grant sees.

**Presentation.** `BindingInv` ties each binding to a transaction that was sent, to
the process that made its request and to its state. `CallbackInv` carries the checks
of a response across the awaits to the acceptance, `FetchInv` those of a retrieval.
`Alone`, for `OpenTransactionIsBound`, says that nobody else can have a request with
the same state. The refinement of `PresentationExchange` follows from the same
invariant: a response is taken only while its transaction is stored, which is read
strongly, so a request that was answered is not open; `Others` says which responses a
step leaves as the exchange sees them.

**KeyProvisioning.** `StepInv` says what a `save()` knows of its key at each round
trip; `MemoryInv`, `AwsInv` and `GcpInv` say, store by store, what the algorithm's key
is when it has returned, and each contains the exception that the store makes
necessary. `CryptoKeyInv` accounts for a CryptoKey without a version. That
`RegInv` keeps the `save()` calls of a registration apart from those of others is
what makes the argument independent of their number.

**ClientAuthentication.** `SeenInv` is the invariant behind both properties: whatever
a request could read now, the current documents and what a replica may still answer,
was in force at some instant since it arrived, or was outdated by then. `PathInv` keeps
that of the document it did read, with the checks made on it. `ModeInv` follows when
the policy is read.

**Credentials.** `IssueInv` and `IssuedInv`: a credential is bound to whoever proved
possession or to nobody. `VerInv` says of each presentation that has verified what
`AcceptedIsGenuine` says in the end. A key that is replaced does not disturb it,
because a key of the issuer remains one. For `HonestVerifies`, `KeyInv` says that the
issuer has keys for exactly the algorithms it lists, so that a key in force is also
published (`CurrentIsPublished`). Recursion over the published keys is avoided:
`PublishedKeys` keeps a gap where the code filters, and `IsFirst` looks past gaps.

**VerifierIdentity.** The four stores are written one after another and read
together by request objects, so the invariant has to say who wrote which of them.
`OverlapInv` records that attempts which meet are in `overlapped`; `StoreInv` where
what a store holds came from. `RegInv` is what an attempt that has the verifier to
itself knows of the stores it has written, and of those that an earlier, failed one
left behind; `MetadataInv` is the same for the registration in force, as long as it
met no other. `ReqInv` carries to the signature what was true when the header was
built: the certificate or kid is that of the enabled key, and on Google Cloud it is so
only if all versions of the key are the registration's own.

Only model-checked:

* `DisabledTakesEffect` of `ClientAuthentication`: liveness under fairness, and
  `ENABLED`, are outside what the proof system handles here;
* `ResponseFindsTransaction` and `CNonceReusable`, the sentences that the runs
  `verifier_instances` and `c_nonce_reuse` refute.

## Not modelled

* The wallet: it is written in Go and run by one user at a time, a sequence of
  calls to the two servers and to local files. Its messages are inputs of the
  server modules.
* `direct_post.jwt`: the code publishes an encryption key and has no decryption.
* `claim_sets` of DCQL and the authorization code grant, which the code does not
  implement; status lists, which it does not look at.
* The TTL arithmetic of the nonce, transaction, request object and
  allowed-configuration stores. Their keys are random values that are saved once, so
  an expiry is the entry's disappearance, which may happen at any time in the
  models.
* The text of documents: base64, JSON, hashes of disclosures, PEM, DID syntax.
  HTTP parsing and error wording.
* Infrastructure definitions, the release scripts and the documentation site.

## Plan

Done: every module in the table above, with a proof of every safety property the
passing runs check, and the refinement of the three abstract specifications. What
would come next:

1. `OpenTransactionIsBound` for requests that share a state: what their responses and
   refusals may do to each other, stated as a property rather than left out.
2. The composition of `ClientAuthentication` with `Issuance`, whose `mode` now changes
   freely: a mapping would show that each change is one that a save can make.
3. The TTL arithmetic of the remaining stores, if a property ever depends on when
   their entries disappear.
