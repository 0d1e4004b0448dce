-------------------------- MODULE VerifierIdentity --------------------------
(***************************************************************************)
(* What a verifier shows of itself: createVerifierMetadata(), which writes *)
(* a certificate, a signature key, an encryption key and the metadata to   *)
(* four stores, and findRequestObject(), which signs request objects with  *)
(* what it finds there.  One verifier and one algorithm.                   *)
(*                                                                         *)
(* Registrations are tried again after a failure, may overlap, and each    *)
(* brings its own certificate and key.  Backend "memory" keeps all four    *)
(* stores in one process; "aws" and "gcp" use the cloud's, but "aws" keeps *)
(* encryption keys in the process.  How a signature key gets into a KMS is *)
(* KeyProvisioning's; here it is one step.                                 *)
(***************************************************************************)
EXTENDS Integers, Sequences, FiniteSets

CONSTANTS Regs,      \* attempts to register
          Requests,  \* authorization requests of the verifier
          Backends,
          MaxActive,    \* bound on the registrations at a time
          MaxRestarts,
          None

ASSUME VerifierIdentityAssumption ==
    /\ None \notin Regs \cup [reg : Regs, enc : Regs]
    /\ Backends \subseteq {"memory", "aws", "gcp"}
    /\ {MaxActive, MaxRestarts} \subseteq Nat

\* The options of a registration: none, a key pair, a certificate and its key.
Kinds == {"generate", "pair", "cert"}
\* Client ids: x5c and kid headers.
Prefixes == {"x509_san_dns", "redirect_uri"}

VARIABLES
    backend,
    cert,       \* whose certificate is stored
    keys,       \* versions of the signature key, oldest first: [key, state]
    enc,        \* the encryption key held: [key, ready]
    metadata,   \* [reg, enc]: who registered, and the published encryption key
    lag,        \* an eventually consistent read may miss the metadata
    reg,        \* attempt -> [pc, kind, enc]
    req,        \* request -> [pc, prefix, header, signer]
    restarts,
    overlapped  \* history: attempts that did not have the verifier to themselves

storeVars == <<cert, keys, enc, metadata, lag>>
vars == <<backend, storeVars, reg, req, restarts, overlapped>>

NoEnc == [key |-> None, ready |-> FALSE]
NewReg == [pc |-> "new", kind |-> "generate", enc |-> None]
NewReq == [pc |-> "new", prefix |-> "redirect_uri", header |-> None, signer |-> None]
Active(r) == reg[r].pc \notin {"new", "done", "failed"}
Moved(r, pc) == [pc |-> pc, kind |-> reg[r].kind,
                 enc |-> IF pc \in {"done", "failed"} THEN None ELSE reg[r].enc]
Fetched(r, pc, key) == [pc |-> pc, kind |-> reg[r].kind, enc |-> key]
Object(q, pc, header, signer) ==
    [pc |-> pc, prefix |-> req[q].prefix, header |-> header, signer |-> signer]

Init ==
    /\ backend \in Backends
    /\ cert = None /\ keys = <<>> /\ enc = NoEnc /\ metadata = None /\ lag = FALSE
    /\ reg = [r \in Regs |-> NewReg]
    /\ req = [q \in Requests |-> NewReq]
    /\ restarts = 0
    /\ overlapped = {}

\* latestEnabledVersion(): the newest key that can sign.  A KMS alias and the
\* in-memory map have only the newest.
EnabledKey ==
    LET newest == {i \in DOMAIN keys :
                     /\ keys[i].state = "enabled"
                     /\ \A j \in i + 1 .. Len(keys) : keys[j].state # "enabled"}
    IN  IF newest = {} THEN None ELSE keys[CHOOSE i \in newest : TRUE].key

-----------------------------------------------------------------------------
(* createVerifierMetadata() *)

\* The duplicate check; a registration it refuses changes nothing.  Whoever passes
\* it although somebody else is registering or registered does not have the
\* verifier to itself.
Begin(r, kind) ==
    LET active == {s \in Regs : Active(s)}
        others == active \cup (IF metadata = None THEN {} ELSE {metadata.reg})
    IN  /\ reg[r].pc = "new" /\ Cardinality(active) < MaxActive
        /\ metadata = None \/ lag
        /\ reg' = [reg EXCEPT ![r] = [pc |-> IF kind = "generate" THEN "key" ELSE "enc",
                                      kind |-> kind, enc |-> None]]
        /\ overlapped' = IF others = {} THEN overlapped ELSE overlapped \cup others \cup {r}
        /\ UNCHANGED <<backend, storeVars, req, restarts>>

\* A store was written to.  When its answer is lost the registration fails.
Written(r, pc) ==
    /\ \E next \in {pc, "failed"} : reg' = [reg EXCEPT ![r] = Moved(r, next)]
    /\ UNCHANGED <<backend, req, restarts, overlapped>>

\* What follows the signature key: it is generated first and imported last.
AfterKey(r) == IF reg[r].kind = "generate" THEN "enc" ELSE "metadata"

\* keyStore.save(): a generated key leaves one that is there alone, except in
\* memory; an imported one replaces it.  Google Cloud needs time to enable it.
SaveKey(r) ==
    /\ reg[r].pc = "key"
    /\ keys' = IF reg[r].kind = "generate" /\ keys # <<>> /\ backend # "memory" THEN keys
               ELSE Append(keys, [key |-> r,
                                  state |-> IF backend = "gcp" THEN "pending" ELSE "enabled"])
    /\ Written(r, AfterKey(r))
    /\ UNCHANGED <<cert, enc, metadata, lag>>

\* encryptionKeyStore.save(): Google Cloud keeps the key that is there.
SaveEncryptionKey(r) ==
    /\ reg[r].pc = "enc"
    /\ enc' = IF backend = "gcp" /\ enc # NoEnc THEN enc
              ELSE [key |-> r, ready |-> backend # "gcp"]
    /\ Written(r, "fetchEnc")
    /\ UNCHANGED <<cert, keys, metadata, lag>>

\* Mutant: the certificate is stored whatever the options are.
AfterEncryptionCert(r) == "cert"

\* What follows the encryption key: certificate, then key pair, then metadata.
AfterEncryption(r) ==
    CASE reg[r].kind = "cert" -> "cert"
      [] reg[r].kind = "pair" -> "key"
      [] OTHER                -> "metadata"

\* Mutant: the key just generated is published, whether or not the store kept it.
FetchEncryptionKeyOwn(r) ==
    /\ reg[r].pc = "fetchEnc"
    /\ reg' = [reg EXCEPT ![r] = IF enc.ready THEN Fetched(r, AfterEncryption(r), r)
                                 ELSE Moved(r, "failed")]
    /\ UNCHANGED <<backend, storeVars, req, restarts, overlapped>>

\* encryptionKeyStore.fetch(): the key goes into the metadata.
FetchEncryptionKey(r) ==
    /\ reg[r].pc = "fetchEnc"
    /\ reg' = [reg EXCEPT ![r] = IF enc.ready THEN Fetched(r, AfterEncryption(r), enc.key)
                                 ELSE Moved(r, "failed")]
    /\ UNCHANGED <<backend, storeVars, req, restarts, overlapped>>

\* certificateStore.save(): in memory one step; AWS creates the secret with the
\* certificate unless it is there; Google Cloud creates it without.
SaveCertificate(r) ==
    /\ reg[r].pc = "cert"
    /\ LET written == backend = "memory" \/ (backend = "aws" /\ cert = None)
       IN  /\ cert' = IF written THEN r ELSE cert
           /\ Written(r, IF written THEN "key" ELSE "putCert")
    /\ UNCHANGED <<keys, enc, metadata, lag>>

\* Mutant: a secret that is there is taken for a saved certificate.
PutCertificateKeep(r) ==
    /\ reg[r].pc = "putCert"
    /\ cert' = IF cert = None THEN r ELSE cert
    /\ Written(r, "key")
    /\ UNCHANGED <<keys, enc, metadata, lag>>

\* A new version of the secret.
PutCertificate(r) ==
    /\ reg[r].pc = "putCert"
    /\ cert' = r
    /\ Written(r, "key")
    /\ UNCHANGED <<keys, enc, metadata, lag>>

\* verifierMetadata.save(): the last write.
SaveMetadata(r) ==
    /\ reg[r].pc = "metadata"
    /\ metadata' = [reg |-> r, enc |-> reg[r].enc]
    /\ lag' = (backend = "aws")
    /\ Written(r, "done")
    /\ UNCHANGED <<cert, keys, enc>>

\* A step throws before it has written: a certificate that does not validate, an
\* RSA key, which cannot be imported, a service that is not reachable.
RegistrationFails(r) ==
    /\ Active(r)
    /\ reg' = [reg EXCEPT ![r] = Moved(r, "failed")]
    /\ UNCHANGED <<backend, storeVars, req, restarts, overlapped>>

-----------------------------------------------------------------------------
(* The services *)

\* Google Cloud KMS has made or imported a key, or could not import it.
VersionReady(i) ==
    /\ i \in DOMAIN keys /\ keys[i].state = "pending"
    /\ \E s \in {"enabled"} \cup (IF reg[keys[i].key].kind = "generate" THEN {} ELSE {"failed"}) :
         keys' = [keys EXCEPT ![i].state = s]
    /\ UNCHANGED <<backend, cert, enc, metadata, lag, reg, req, restarts, overlapped>>

EncryptionKeyReady ==
    /\ enc # NoEnc /\ ~enc.ready
    /\ enc' = [enc EXCEPT !.ready = TRUE]
    /\ UNCHANGED <<backend, cert, keys, metadata, lag, reg, req, restarts, overlapped>>

CatchUp ==
    /\ lag /\ lag' = FALSE
    /\ UNCHANGED <<backend, cert, keys, enc, metadata, reg, req, restarts, overlapped>>

\* The process starts again: what it was doing and what it had in memory is lost.
Restart ==
    LET all == backend = "memory"
    IN  /\ restarts < MaxRestarts
        /\ restarts' = restarts + 1
        /\ cert' = IF all THEN None ELSE cert
        /\ keys' = IF all THEN <<>> ELSE keys
        /\ enc' = IF backend = "gcp" THEN enc ELSE NoEnc
        /\ metadata' = IF all THEN None ELSE metadata
        /\ reg' = [r \in Regs |-> IF Active(r) THEN Moved(r, "failed") ELSE reg[r]]
        /\ req' = [q \in Requests |->
                     IF all \/ req[q].pc \notin {"new", "stored"} THEN NewReq ELSE req[q]]
        /\ UNCHANGED <<backend, lag, overlapped>>

-----------------------------------------------------------------------------
(* createAuthzRequest() and findRequestObject() *)

\* A request object is stored; an x509 client id needs a certificate by then.
CreateAuthzRequest(q, prefix) ==
    /\ req[q].pc = "new"
    /\ prefix = "x509_san_dns" => cert # None
    /\ metadata # None
    /\ req' = [req EXCEPT ![q] = [pc |-> "stored", prefix |-> prefix,
                                   header |-> None, signer |-> None]]
    /\ UNCHANGED <<backend, storeVars, reg, restarts, overlapped>>

\* generate() of the two JAR providers: the certificate, or the key's thumbprint.
X5cHeader == cert
KidHeader == EnabledKey
Header(prefix) == IF prefix = "x509_san_dns" THEN X5cHeader ELSE KidHeader

FindRequestObject(q) ==
    /\ req[q].pc = "stored" /\ metadata # None
    /\ Header(req[q].prefix) # None
    /\ req' = [req EXCEPT ![q] = Object(q, "sign", Header(req[q].prefix), None)]
    /\ UNCHANGED <<backend, storeVars, reg, restarts, overlapped>>

\* keyStore.sign(), a round trip later.
Sign(q) ==
    /\ req[q].pc = "sign" /\ EnabledKey # None
    /\ req' = [req EXCEPT ![q] = Object(q, "signed", req[q].header, EnabledKey)]
    /\ UNCHANGED <<backend, storeVars, reg, restarts, overlapped>>

\* No certificate, no key, no metadata in a stale read, or an error: the object
\* stays and can be asked for again.
SignFails(q) ==
    /\ req[q].pc = "sign"
    /\ req' = [req EXCEPT ![q] = Object(q, "stored", None, None)]
    /\ UNCHANGED <<backend, storeVars, reg, restarts, overlapped>>

Register(r) ==
    \/ \E kind \in Kinds : Begin(r, kind)
    \/ SaveKey(r)
    \/ SaveEncryptionKey(r)
    \/ FetchEncryptionKey(r)
    \/ SaveCertificate(r)
    \/ PutCertificate(r)
    \/ SaveMetadata(r)
    \/ RegistrationFails(r)

Serve(q) ==
    \/ \E prefix \in Prefixes : CreateAuthzRequest(q, prefix)
    \/ FindRequestObject(q)
    \/ Sign(q)
    \/ SignFails(q)

Next ==
    \/ \E r \in Regs : Register(r)
    \/ \E q \in Requests : Serve(q)
    \/ \E i \in DOMAIN keys : VersionReady(i)
    \/ EncryptionKeyReady
    \/ CatchUp
    \/ Restart

Spec == Init /\ [][Next]_vars

-----------------------------------------------------------------------------
(* Properties *)

\* Every variable keeps its type, and the certificate stored came with a
\* registration that had one.
TypeOK ==
    /\ backend \in Backends
    /\ cert \in Regs \cup {None}
    /\ cert # None => reg[cert].kind = "cert"
    /\ keys \in Seq([key : Regs, state : {"pending", "enabled", "failed"}])
    /\ enc \in [key : Regs \cup {None}, ready : BOOLEAN]
    /\ metadata \in [reg : Regs, enc : Regs] \cup {None}
    /\ lag \in BOOLEAN
    /\ reg \in [Regs -> [pc : {"new", "key", "enc", "fetchEnc", "cert", "putCert", "metadata",
                               "done", "failed"},
                         kind : Kinds, enc : Regs \cup {None}]]
    /\ req \in [Requests -> [pc : {"new", "stored", "sign", "signed"}, prefix : Prefixes,
                             header : Regs \cup {None}, signer : Regs \cup {None}]]
    /\ restarts \in 0 .. MaxRestarts
    /\ overlapped \subseteq Regs

\* A wallet can verify a request object: the certificate or kid in its header
\* belongs to the key that signed it, although they come from two stores, or
\* from two reads, after any number of failed registrations.  Exceptions: the
\* registration in force overlapped another; it brought no certificate, so that
\* the one in use is a failed attempt's; on Google Cloud an earlier attempt left
\* a key version, which signs until the new one is enabled (verifier.flows.ts,
\* createVerifierMetadata and findRequestObject).
HeaderNamesSigner ==
    \A q \in Requests : req[q].pc = "signed" =>
        \/ req[q].header = req[q].signer
        \/ metadata.reg \in overlapped
        \/ req[q].prefix = "x509_san_dns" /\ reg[metadata.reg].kind # "cert"
        \/ backend = "gcp" /\ \E i \in DOMAIN keys : keys[i].key # metadata.reg

\* The encryption key in the metadata is the one the verifier holds, so that a
\* response encrypted to it can be read.  Exceptions: overlapping registrations;
\* on AWS a restart, for the key is in the process and the metadata is not
\* (verifier.flows.ts, createVerifierMetadata; create-verifier-app.ts of the AWS
\* server).
PublishedKeyHeld ==
    metadata # None =>
        \/ metadata.enc = enc.key
        \/ metadata.reg \in overlapped
        \/ backend = "aws" /\ restarts > 0

=============================================================================
