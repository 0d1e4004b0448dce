----------------------- MODULE VerifierIdentityProofs -----------------------
(***************************************************************************)
(* Proofs about VerifierIdentity, for any number of attempts to register,  *)
(* request objects and restarts on the three backends: the published       *)
(* encryption key is held, and the header of a request object names the    *)
(* key that signed it, but for the exceptions the model names.             *)
(***************************************************************************)
EXTENDS VerifierIdentity, TLAPS

RegRecord == [pc : {"new", "key", "enc", "fetchEnc", "cert", "putCert", "metadata",
                    "done", "failed"},
              kind : Kinds, enc : Regs \cup {None}]
ReqRecord == [pc : {"new", "stored", "sign", "signed"}, prefix : Prefixes,
              header : Regs \cup {None}, signer : Regs \cup {None}]
KeyRecord == [key : Regs, state : {"pending", "enabled", "failed"}]

\* Two attempts under way have met, and so have one under way and the one whose
\* metadata is stored.
OverlapInv ==
    /\ \A r, s \in Regs : Active(r) /\ Active(s) /\ r # s => r \in overlapped
    /\ \A r \in Regs : Active(r) /\ metadata # None =>
          r \in overlapped /\ metadata.reg \in overlapped

\* The stores hold what attempts that have begun have left.
StoreInv ==
    /\ cert # None => reg[cert].pc # "new"
    /\ enc.ready => enc.key \in Regs
    /\ backend # "gcp" => \A i \in 1 .. Len(keys) : keys[i].state = "enabled"

\* r left the newest version of the signature key.
LastKey(r) == keys # <<>> /\ keys[Len(keys)].key = r

\* What an attempt knows, by how far it has come: its encryption key, and, when
\* it has the verifier to itself, what the stores hold of it.
RegInv(r) ==
    /\ reg[r].pc \in {"cert", "putCert"} => reg[r].kind = "cert"
    /\ reg[r].pc \in {"enc", "fetchEnc"} => reg[r].enc = None
    /\ reg[r].pc = "key" /\ reg[r].kind = "generate" => reg[r].enc = None
    /\ reg[r].pc \in {"cert", "putCert", "metadata"} => reg[r].enc \in Regs
    /\ reg[r].pc = "key" /\ reg[r].kind # "generate" => reg[r].enc \in Regs
    /\ Active(r) /\ r \notin overlapped =>
          /\ reg[r].enc # None => reg[r].enc = enc.key
          /\ reg[r].kind = "cert" /\ reg[r].pc \in {"key", "metadata"} => cert = r
          /\ reg[r].kind # "generate" /\ reg[r].pc = "metadata" => LastKey(r)

\* The verifier is registered, by somebody who had it to himself.
Solo == metadata # None /\ metadata.reg \notin overlapped

\* So the stores still hold what he left.
MetadataInv ==
    /\ metadata # None => reg[metadata.reg].pc \in {"done", "failed"}
    /\ Solo =>
          /\ metadata.enc = enc.key \/ (backend = "aws" /\ restarts > 0)
          /\ reg[metadata.reg].kind = "cert" => cert = metadata.reg
          /\ reg[metadata.reg].kind # "generate" => LastKey(metadata.reg)

\* Nobody else has left a version of the signature key.
OwnKeys == \A i \in 1 .. Len(keys) : keys[i].key = metadata.reg

\* What a request object's header and signature were taken from.
ReqInv(q) ==
    /\ req[q].pc # "new" => metadata # None
    /\ Solo /\ req[q].pc \in {"sign", "signed"} =>
          /\ req[q].prefix = "x509_san_dns" => req[q].header = cert
          /\ req[q].prefix # "x509_san_dns" =>
                /\ backend # "gcp" => req[q].header = EnabledKey
                /\ backend = "gcp" /\ OwnKeys => req[q].header = metadata.reg
    /\ Solo /\ req[q].pc = "signed" =>
          /\ backend # "gcp" => req[q].signer = EnabledKey
          /\ backend = "gcp" /\ OwnKeys => req[q].signer = metadata.reg

\* The inductive invariant.
IInv ==
    /\ TypeOK
    /\ OverlapInv
    /\ StoreInv
    /\ \A r \in Regs : RegInv(r)
    /\ MetadataInv
    /\ \A q \in Requests : ReqInv(q)

-----------------------------------------------------------------------------
(* What steps have in common *)

\* The types of one attempt and one request.
LEMMA Types ==
    ASSUME TypeOK
    PROVE  /\ reg \in [Regs -> RegRecord] /\ req \in [Requests -> ReqRecord]
           /\ keys \in Seq(KeyRecord)
  BY DEF TypeOK, RegRecord, ReqRecord, KeyRecord

\* Where an attempt gets to.
LEMMA MovedType ==
    ASSUME TypeOK, NEW r \in Regs,
           NEW l \in {"key", "enc", "fetchEnc", "cert", "putCert", "metadata", "done", "failed"}
    PROVE  /\ Moved(r, l) \in RegRecord
           /\ Moved(r, l).pc = l /\ Moved(r, l).kind = reg[r].kind
           /\ Moved(r, l).enc = IF l \in {"done", "failed"} THEN None ELSE reg[r].enc
  <1>1. reg[r] \in RegRecord
    BY Types
  <1>2. reg[r].kind \in Kinds /\ reg[r].enc \in Regs \cup {None}
    BY <1>1 DEF RegRecord
  <1>3. QED
    BY <1>2 DEF Moved, RegRecord

\* While an attempt is under way no request object counts: there is no metadata,
\* or it is that of an attempt that overlapped.
LEMMA NotSolo ==
    ASSUME IInv, NEW r \in Regs, Active(r)
    PROVE  /\ ~Solo
           /\ metadata = None => \A q \in Requests : req[q].pc = "new"
           /\ \A s \in Regs : s # r /\ Active(s) => s \in overlapped /\ r \in overlapped
  BY DEF IInv, OverlapInv, Solo, ReqInv

\* An attempt takes a step that is not its last: what the others know is not
\* disturbed, and the metadata stays.
LEMMA ActiveStep ==
    ASSUME IInv, NEW r \in Regs, Active(r), NEW x \in RegRecord, x.pc # "new",
           reg' = [reg EXCEPT ![r] = x],
           UNCHANGED <<backend, metadata, lag, req, restarts, overlapped>>,
           cert' \in Regs \cup {None}, cert' # None => cert' = cert \/ cert' = r,
           keys' \in Seq(KeyRecord), enc' \in [key : Regs \cup {None}, ready : BOOLEAN],
           cert' # None => reg'[cert'].kind = "cert",
           enc'.ready => enc'.key \in Regs,
           backend # "gcp" => \A i \in 1 .. Len(keys') : keys'[i].state = "enabled",
           RegInv(r)'
    PROVE  IInv'
  <1>1. reg \in [Regs -> RegRecord] /\ TypeOK
    BY Types DEF IInv
  <1>2. reg' \in [Regs -> RegRecord] /\ reg'[r] = x
    BY <1>1
  <1>3. \A s \in Regs : s # r => reg'[s] = reg[s]
    BY <1>1
  <1>4. \A s \in Regs : Active(s)' => Active(s)
    BY <1>3 DEF Active
  <1>5. TypeOK'
    BY <1>1, <1>2 DEF TypeOK, RegRecord, KeyRecord
  <1>6. OverlapInv'
    BY <1>4 DEF IInv, OverlapInv
  <1>7. StoreInv'
    <2>1. cert' # None => reg'[cert'].pc # "new"
      BY <1>2, <1>3 DEF IInv, StoreInv
    <2>2. QED
      BY <2>1 DEF StoreInv
  <1>8. \A s \in Regs : RegInv(s)'
    <2> SUFFICES ASSUME NEW s \in Regs, s # r PROVE RegInv(s)'
      OBVIOUS
    <2>1. RegInv(s) /\ (Active(s) => s \in overlapped)
      BY NotSolo DEF IInv
    <2>2. QED
      BY <1>3, <1>4, <2>1 DEF RegInv
  <1>9. MetadataInv'
    <2>1. ~Solo'
      BY NotSolo DEF Solo
    <2>2. metadata # None => metadata.reg # r /\ metadata.reg \in Regs
      BY <1>1 DEF IInv, MetadataInv, Active, TypeOK
    <2>3. QED
      BY <1>3, <2>1, <2>2 DEF IInv, MetadataInv
  <1>10. \A q \in Requests : ReqInv(q)'
    <2>1. ~Solo'
      BY NotSolo DEF Solo
    <2>2. QED
      BY <2>1 DEF IInv, ReqInv
  <1>11. QED
    BY <1>5, <1>6, <1>7, <1>8, <1>9, <1>10 DEF IInv

\* An attempt that has failed, or a store that did not answer it.
LEMMA FailedStep ==
    ASSUME TypeOK, NEW r \in Regs, reg' = [reg EXCEPT ![r] = Moved(r, "failed")]
    PROVE  RegInv(r)'
  <1>1. reg'[r] = Moved(r, "failed")
    BY Types
  <1>2. reg'[r].pc = "failed"
    BY <1>1, MovedType
  <1>3. QED
    BY <1>2 DEF RegInv, Active

\* A request object's step leaves everything else alone.
LEMMA RequestStep ==
    ASSUME IInv, NEW q \in Requests, NEW x \in ReqRecord, req' = [req EXCEPT ![q] = x],
           UNCHANGED <<backend, storeVars, reg, restarts, overlapped>>,
           ReqInv(q)'
    PROVE  IInv'
  <1>1. TypeOK /\ req \in [Requests -> ReqRecord]
    BY Types DEF IInv
  <1>2. TypeOK'
    <2>1. req' \in [Requests -> ReqRecord]
      BY <1>1
    <2>2. QED
      BY <1>1, <2>1 DEF TypeOK, storeVars, ReqRecord
  <1>3. OverlapInv' /\ StoreInv' /\ \A r \in Regs : RegInv(r)'
    BY DEF IInv, OverlapInv, StoreInv, RegInv, Active, LastKey, storeVars
  <1>4. MetadataInv'
    BY DEF IInv, MetadataInv, Solo, LastKey, storeVars
  <1>5. \A p \in Requests : ReqInv(p)'
    <2> SUFFICES ASSUME NEW p \in Requests, p # q PROVE ReqInv(p)'
      OBVIOUS
    <2>1. req'[p] = req[p] /\ ReqInv(p)
      BY <1>1 DEF IInv
    <2>2. EnabledKey' = EnabledKey
      BY DEF EnabledKey, storeVars
    <2>3. QED
      BY <2>1, <2>2 DEF ReqInv, Solo, OwnKeys, storeVars
  <1>6. QED
    BY <1>2, <1>3, <1>4, <1>5 DEF IInv

-----------------------------------------------------------------------------
(* createVerifierMetadata() *)

\* Nothing but the key is new when the signature key has been written.
LEMMA SaveKeyKeeps ==
    ASSUME IInv, NEW r \in Regs, SaveKey(r)
    PROVE  IInv'
  <1>1. TypeOK /\ reg \in [Regs -> RegRecord] /\ keys \in Seq(KeyRecord) /\ RegInv(r)
    BY Types DEF IInv
  <1>2. reg[r].pc = "key" /\ Active(r)
    BY DEF SaveKey, Active
  <1>3. PICK next \in {AfterKey(r), "failed"} : reg' = [reg EXCEPT ![r] = Moved(r, next)]
    BY DEF SaveKey, Written
  <1>4. AfterKey(r) \in {"enc", "metadata"}
    BY DEF AfterKey
  <1>5. /\ Moved(r, next) \in RegRecord /\ Moved(r, next).pc = next
        /\ Moved(r, next).kind = reg[r].kind
        /\ Moved(r, next).enc = IF next \in {"done", "failed"} THEN None ELSE reg[r].enc
    BY <1>1, <1>4, MovedType
  <1>6. reg'[r] = Moved(r, next) /\ \A s \in Regs : reg'[s].kind = reg[s].kind
    BY <1>1, <1>3, <1>5
  <1>7. UNCHANGED <<backend, cert, enc, metadata, lag, req, restarts, overlapped>>
    BY DEF SaveKey, Written
  <1>8. PICK st \in {"pending", "enabled"} :
          /\ keys' = keys \/ keys' = Append(keys, [key |-> r, state |-> st])
          /\ backend # "gcp" => st = "enabled"
          /\ reg[r].kind # "generate" => keys' = Append(keys, [key |-> r, state |-> st])
    BY DEF SaveKey
  <1>9. [key |-> r, state |-> st] \in KeyRecord
    BY DEF KeyRecord
  <1>10. keys' \in Seq(KeyRecord)
    BY <1>1, <1>8, <1>9
  <1>11. backend # "gcp" => \A i \in 1 .. Len(keys') : keys'[i].state = "enabled"
    BY <1>1, <1>8, <1>9 DEF IInv, StoreInv
  <1>12. reg[r].kind # "generate" => LastKey(r)'
    BY <1>1, <1>8, <1>9 DEF LastKey
  <1>13. RegInv(r)'
    <2>1. CASE next = "failed"
      BY <1>1, <1>3, <2>1, FailedStep
    <2>2. CASE next = AfterKey(r)
      <3>1. CASE reg[r].kind = "generate"
        BY <1>1, <1>2, <1>5, <1>6, <2>2, <3>1 DEF AfterKey, RegInv, Active
      <3>2. CASE reg[r].kind # "generate"
        BY <1>1, <1>2, <1>5, <1>6, <1>7, <1>12, <2>2, <3>2 DEF AfterKey, RegInv, Active
      <3>3. QED
        BY <3>1, <3>2
    <2>3. QED
      BY <2>1, <2>2
  <1>14. /\ cert \in Regs \cup {None} /\ enc \in [key : Regs \cup {None}, ready : BOOLEAN]
         /\ cert # None => reg[cert].kind = "cert"
         /\ enc.ready => enc.key \in Regs
    BY DEF IInv, TypeOK, StoreInv
  <1>15. cert # None => reg'[cert].kind = "cert"
    BY <1>6, <1>14
  <1>16. Moved(r, next).pc # "new"
    BY <1>4, <1>5
  <1>17. QED
    BY <1>2, <1>3, <1>5, <1>7, <1>10, <1>11, <1>13, <1>14, <1>15, <1>16, ActiveStep

\* The encryption key is held by now, whoever it is of.
LEMMA SaveEncryptionKeyKeeps ==
    ASSUME IInv, NEW r \in Regs, SaveEncryptionKey(r)
    PROVE  IInv'
  <1>1. TypeOK /\ reg \in [Regs -> RegRecord] /\ keys \in Seq(KeyRecord) /\ RegInv(r)
    BY Types DEF IInv
  <1>2. reg[r].pc = "enc" /\ Active(r)
    BY DEF SaveEncryptionKey, Active
  <1>3. PICK next \in {"fetchEnc", "failed"} : reg' = [reg EXCEPT ![r] = Moved(r, next)]
    BY DEF SaveEncryptionKey, Written
  <1>5. /\ Moved(r, next) \in RegRecord /\ Moved(r, next).pc = next
        /\ Moved(r, next).kind = reg[r].kind
        /\ Moved(r, next).enc = IF next \in {"done", "failed"} THEN None ELSE reg[r].enc
    BY <1>1, MovedType
  <1>6. reg'[r] = Moved(r, next) /\ \A s \in Regs : reg'[s].kind = reg[s].kind
    BY <1>1, <1>3, <1>5
  <1>7. UNCHANGED <<backend, cert, keys, metadata, lag, req, restarts, overlapped>>
    BY DEF SaveEncryptionKey, Written
  <1>8. /\ cert \in Regs \cup {None} /\ enc \in [key : Regs \cup {None}, ready : BOOLEAN]
        /\ cert # None => reg[cert].kind = "cert"
        /\ enc.ready => enc.key \in Regs
        /\ backend # "gcp" => \A i \in 1 .. Len(keys) : keys[i].state = "enabled"
    BY DEF IInv, TypeOK, StoreInv
  <1>9. enc' = enc \/ enc' = [key |-> r, ready |-> backend # "gcp"]
    BY DEF SaveEncryptionKey
  <1>10. enc' \in [key : Regs \cup {None}, ready : BOOLEAN] /\ (enc'.ready => enc'.key \in Regs)
    <2>1. CASE enc' = enc
      BY <1>8, <2>1
    <2>2. CASE enc' = [key |-> r, ready |-> backend # "gcp"]
      BY <2>2
    <2>3. QED
      BY <1>9, <2>1, <2>2
  <1>11. RegInv(r)'
    <2>1. CASE next = "failed"
      BY <1>1, <1>3, <2>1, FailedStep
    <2>2. CASE next = "fetchEnc"
      BY <1>1, <1>2, <1>5, <1>6, <2>2 DEF RegInv, Active
    <2>3. QED
      BY <2>1, <2>2
  <1>12. cert # None => reg'[cert].kind = "cert"
    BY <1>6, <1>8
  <1>13. QED
    BY <1>1, <1>2, <1>3, <1>5, <1>7, <1>8, <1>10, <1>11, <1>12, ActiveStep

\* What is fetched is what is held: this is where PublishedKeyHeld begins.
LEMMA FetchEncryptionKeyKeeps ==
    ASSUME IInv, NEW r \in Regs, FetchEncryptionKey(r)
    PROVE  IInv'
  <1>1. TypeOK /\ reg \in [Regs -> RegRecord] /\ keys \in Seq(KeyRecord) /\ RegInv(r)
    BY Types DEF IInv
  <1>2. reg[r].pc = "fetchEnc" /\ Active(r)
    BY DEF FetchEncryptionKey, Active
  <1>3. UNCHANGED <<backend, storeVars, req, restarts, overlapped>>
    BY DEF FetchEncryptionKey
  <1>4. /\ cert \in Regs \cup {None} /\ enc \in [key : Regs \cup {None}, ready : BOOLEAN]
        /\ cert # None => reg[cert].kind = "cert"
        /\ enc.ready => enc.key \in Regs
        /\ backend # "gcp" => \A i \in 1 .. Len(keys) : keys[i].state = "enabled"
    BY DEF IInv, TypeOK, StoreInv
  <1>5. PICK x \in RegRecord :
          /\ reg' = [reg EXCEPT ![r] = x] /\ x.pc # "new" /\ x.kind = reg[r].kind
          /\ \/ x = Moved(r, "failed")
             \/ enc.ready /\ x.pc = AfterEncryption(r) /\ x.enc = enc.key
    <2>1. CASE enc.ready
      <3>1. reg[r].kind \in Kinds
        BY <1>1 DEF RegRecord
      <3>2. AfterEncryption(r) \in {"cert", "key", "metadata"}
        BY DEF AfterEncryption
      <3>3. Fetched(r, AfterEncryption(r), enc.key) \in RegRecord
        BY <1>4, <2>1, <3>1, <3>2 DEF Fetched, RegRecord
      <3>4. reg' = [reg EXCEPT ![r] = Fetched(r, AfterEncryption(r), enc.key)]
        BY <2>1 DEF FetchEncryptionKey
      <3>5. QED
        BY <2>1, <3>2, <3>3, <3>4 DEF Fetched
    <2>2. CASE ~enc.ready
      <3>1. reg' = [reg EXCEPT ![r] = Moved(r, "failed")]
        BY <2>2 DEF FetchEncryptionKey
      <3>2. QED
        BY <1>1, <3>1, MovedType
    <2>3. QED
      BY <2>1, <2>2
  <1>6. reg'[r] = x /\ \A s \in Regs : reg'[s].kind = reg[s].kind
    BY <1>1, <1>5
  <1>7. RegInv(r)'
    <2>1. CASE x = Moved(r, "failed")
      BY <1>1, <1>5, <2>1, FailedStep
    <2>2. CASE enc.ready /\ x.pc = AfterEncryption(r) /\ x.enc = enc.key
      <3>1. \/ x.pc = "cert" /\ x.kind = "cert"
            \/ x.pc = "key" /\ x.kind = "pair"
            \/ x.pc = "metadata" /\ x.kind = "generate"
        <4>1. reg[r].kind \in Kinds
          BY <1>1 DEF RegRecord
        <4>2. QED
          BY <1>5, <2>2, <4>1 DEF AfterEncryption, Kinds
      <3>2. x.enc \in Regs /\ enc' = enc
        BY <1>3, <1>4, <2>2 DEF storeVars
      <3>3. QED
        BY <1>6, <2>2, <3>1, <3>2 DEF RegInv, Active
    <2>3. QED
      BY <1>5, <2>1, <2>2
  <1>8. cert # None => reg'[cert].kind = "cert"
    BY <1>4, <1>6
  <1>9. QED
    BY <1>1, <1>2, <1>3, <1>4, <1>5, <1>7, <1>8, ActiveStep DEF storeVars

\* The certificate is r's, if it has been written at all.
LEMMA CertificateStep ==
    ASSUME IInv, NEW r \in Regs, reg[r].pc \in {"cert", "putCert"}, NEW next,
           next \in {"key", "putCert", "failed"},
           reg' = [reg EXCEPT ![r] = Moved(r, next)],
           cert' = r \/ (cert' = cert /\ next # "key"),
           UNCHANGED <<backend, keys, enc, metadata, lag, req, restarts, overlapped>>
    PROVE  IInv'
  <1>1. TypeOK /\ reg \in [Regs -> RegRecord] /\ keys \in Seq(KeyRecord) /\ RegInv(r)
    BY Types DEF IInv
  <1>2. Active(r)
    BY DEF Active
  <1>3. reg[r].kind = "cert" /\ reg[r].enc \in Regs
    BY <1>1 DEF RegInv
  <1>4. /\ Moved(r, next) \in RegRecord /\ Moved(r, next).pc = next
        /\ Moved(r, next).kind = reg[r].kind
        /\ Moved(r, next).enc = IF next \in {"done", "failed"} THEN None ELSE reg[r].enc
    BY <1>1, MovedType
  <1>5. reg'[r] = Moved(r, next) /\ \A s \in Regs : reg'[s].kind = reg[s].kind
    BY <1>1, <1>4
  <1>6. /\ cert \in Regs \cup {None} /\ enc \in [key : Regs \cup {None}, ready : BOOLEAN]
        /\ cert # None => reg[cert].kind = "cert"
        /\ enc.ready => enc.key \in Regs
        /\ backend # "gcp" => \A i \in 1 .. Len(keys) : keys[i].state = "enabled"
    BY DEF IInv, TypeOK, StoreInv
  <1>7. /\ cert' \in Regs \cup {None} /\ (cert' # None => cert' = cert \/ cert' = r)
        /\ cert' # None => reg'[cert'].kind = "cert"
    BY <1>3, <1>5, <1>6
  <1>8. RegInv(r)'
    <2>1. CASE next = "failed"
      BY <1>1, <2>1, FailedStep
    <2>2. CASE next # "failed"
      BY <1>1, <1>2, <1>3, <1>4, <1>5, <2>2 DEF RegInv, Active
    <2>3. QED
      BY <2>1, <2>2
  <1>9. QED
    BY <1>1, <1>2, <1>4, <1>6, <1>7, <1>8, ActiveStep

\* The two ways to a certificate.
LEMMA SaveCertificateKeeps ==
    ASSUME IInv, NEW r \in Regs, SaveCertificate(r)
    PROVE  IInv'
  <1>1. PICK next \in {"key", "putCert", "failed"} :
          /\ reg' = [reg EXCEPT ![r] = Moved(r, next)]
          /\ cert' = r \/ (cert' = cert /\ next # "key")
    BY DEF SaveCertificate, Written
  <1>2. UNCHANGED <<backend, keys, enc, metadata, lag, req, restarts, overlapped>>
    BY DEF SaveCertificate, Written
  <1>3. QED
    BY <1>1, <1>2, CertificateStep DEF SaveCertificate

\* A new version of the secret is r's.
LEMMA PutCertificateKeeps ==
    ASSUME IInv, NEW r \in Regs, PutCertificate(r)
    PROVE  IInv'
  <1>1. PICK next \in {"key", "putCert", "failed"} : reg' = [reg EXCEPT ![r] = Moved(r, next)]
    BY DEF PutCertificate, Written
  <1>2. reg[r].pc = "putCert" /\ cert' = r /\ UNCHANGED <<backend, keys, enc, metadata, lag, req, restarts, overlapped>>
    BY DEF PutCertificate, Written
  <1>3. QED
    BY <1>1, <1>2, CertificateStep DEF PutCertificate, Written

\* An attempt that gives up leaves the stores as they are.
LEMMA RegistrationFailsKeeps ==
    ASSUME IInv, NEW r \in Regs, RegistrationFails(r)
    PROVE  IInv'
  <1>1. TypeOK /\ reg \in [Regs -> RegRecord] /\ keys \in Seq(KeyRecord)
    BY Types DEF IInv
  <1>2. Active(r) /\ reg' = [reg EXCEPT ![r] = Moved(r, "failed")]
    BY DEF RegistrationFails
  <1>3. UNCHANGED <<backend, storeVars, req, restarts, overlapped>>
    BY DEF RegistrationFails
  <1>4. /\ Moved(r, "failed") \in RegRecord /\ Moved(r, "failed").pc = "failed"
        /\ Moved(r, "failed").kind = reg[r].kind
    BY <1>1, MovedType
  <1>5. \A s \in Regs : reg'[s].kind = reg[s].kind
    BY <1>1, <1>2, <1>4
  <1>6. /\ cert \in Regs \cup {None} /\ enc \in [key : Regs \cup {None}, ready : BOOLEAN]
        /\ cert # None => reg[cert].kind = "cert"
        /\ enc.ready => enc.key \in Regs
        /\ backend # "gcp" => \A i \in 1 .. Len(keys) : keys[i].state = "enabled"
    BY DEF IInv, TypeOK, StoreInv
  <1>7. RegInv(r)'
    BY <1>1, <1>2, FailedStep
  <1>8. cert # None => reg'[cert].kind = "cert"
    BY <1>5, <1>6
  <1>9. QED
    BY <1>1, <1>2, <1>3, <1>4, <1>6, <1>7, <1>8, ActiveStep DEF storeVars

\* The last write: what the attempt knows of the stores is now known of the
\* registration, if the attempt had the verifier to itself.
LEMMA SaveMetadataKeeps ==
    ASSUME IInv, NEW r \in Regs, SaveMetadata(r)
    PROVE  IInv'
  <1>1. TypeOK /\ reg \in [Regs -> RegRecord] /\ RegInv(r) /\ r # None
    BY Types, VerifierIdentityAssumption DEF IInv
  <1>2. reg[r].pc = "metadata" /\ Active(r) /\ reg[r].enc \in Regs
    BY <1>1 DEF SaveMetadata, Active, RegInv
  <1>3. PICK next \in {"done", "failed"} : reg' = [reg EXCEPT ![r] = Moved(r, next)]
    BY DEF SaveMetadata, Written
  <1>4. /\ Moved(r, next) \in RegRecord /\ Moved(r, next).pc = next
        /\ Moved(r, next).kind = reg[r].kind
    BY <1>1, MovedType
  <1>5. /\ reg' \in [Regs -> RegRecord] /\ reg'[r].pc \in {"done", "failed"}
        /\ \A s \in Regs : reg'[s].kind = reg[s].kind
        /\ \A s \in Regs : s # r => reg'[s] = reg[s]
    BY <1>1, <1>3, <1>4
  <1>6. /\ metadata' = [reg |-> r, enc |-> reg[r].enc]
        /\ lag' \in BOOLEAN
        /\ UNCHANGED <<backend, cert, keys, enc, req, restarts, overlapped>>
    BY DEF SaveMetadata, Written
  <1>7. PICK m \in [reg : Regs, enc : Regs] : metadata' = m /\ m.reg = r /\ m.enc = reg[r].enc
    BY <1>2, <1>6
  <1>8. m # None
    BY VerifierIdentityAssumption
  <1>9. \A s \in Regs : Active(s)' => Active(s) /\ s # r /\ s \in overlapped /\ r \in overlapped
    BY <1>2, <1>5, NotSolo DEF Active
  <1>10. TypeOK'
    <2>1. metadata' \in [reg : Regs, enc : Regs]
      BY <1>7
    <2>2. cert # None => reg'[cert].kind = "cert"
      BY <1>1, <1>5 DEF TypeOK
    <2>3. QED
      BY <1>1, <1>5, <1>6, <2>1, <2>2 DEF TypeOK, RegRecord
  <1>11. OverlapInv'
    BY <1>6, <1>7, <1>9 DEF IInv, OverlapInv
  <1>12. StoreInv'
    <2>1. cert # None => reg'[cert].pc # "new"
      BY <1>1, <1>5 DEF IInv, StoreInv, TypeOK
    <2>2. QED
      BY <1>6, <2>1 DEF IInv, StoreInv
  <1>13. \A s \in Regs : RegInv(s)'
    <2> SUFFICES ASSUME NEW s \in Regs PROVE RegInv(s)'
      OBVIOUS
    <2>1. CASE s = r
      BY <1>5, <2>1 DEF RegInv, Active
    <2>2. CASE s # r
      BY <1>5, <1>6, <2>2 DEF IInv, RegInv, Active, LastKey
    <2>3. QED
      BY <2>1, <2>2
  <1>14. MetadataInv'
    <2>1. Solo' => r \notin overlapped
      BY <1>6, <1>7 DEF Solo
    <2>2. r \notin overlapped =>
            /\ reg[r].enc = enc.key
            /\ reg[r].kind = "cert" => cert = r
            /\ reg[r].kind # "generate" => LastKey(r)
      BY <1>1, <1>2, VerifierIdentityAssumption DEF RegInv
    <2>3. LastKey(r)' <=> LastKey(r)
      BY <1>6 DEF LastKey
    <2>4. QED
      BY <1>5, <1>6, <1>7, <2>1, <2>2, <2>3 DEF MetadataInv, LastKey
  <1>15. \A q \in Requests : ReqInv(q)'
    <2> SUFFICES ASSUME NEW q \in Requests PROVE ReqInv(q)'
      OBVIOUS
    <2>1. metadata' # None
      BY <1>7, <1>8
    <2>2. CASE metadata = None
      <3>1. req'[q].pc = "new"
        BY <1>2, <1>6, <2>2, NotSolo
      <3>2. QED
        BY <3>1 DEF ReqInv
    <2>3. CASE metadata # None
      <3>1. r \in overlapped
        BY <1>2, <2>3 DEF IInv, OverlapInv
      <3>2. ~Solo'
        BY <1>6, <1>7, <3>1 DEF Solo
      <3>3. QED
        BY <2>1, <3>2 DEF ReqInv
    <2>4. QED
      BY <2>2, <2>3
  <1>16. QED
    BY <1>10, <1>11, <1>12, <1>13, <1>14, <1>15 DEF IInv

\* Who begins while somebody is registering or registered overlaps with him.
LEMMA BeginKeeps ==
    ASSUME IInv, NEW r \in Regs, NEW kind \in Kinds, Begin(r, kind)
    PROVE  IInv'
  <1> DEFINE active == {s \in Regs : Active(s)}
             others == active \cup (IF metadata = None THEN {} ELSE {metadata.reg})
             x == [pc |-> IF kind = "generate" THEN "key" ELSE "enc", kind |-> kind, enc |-> None]
  <1>1. TypeOK /\ reg \in [Regs -> RegRecord]
    BY Types DEF IInv
  <1>2. /\ reg[r].pc = "new"
        /\ reg' = [reg EXCEPT ![r] = x]
        /\ overlapped' = IF others = {} THEN overlapped ELSE overlapped \cup others \cup {r}
        /\ UNCHANGED <<backend, cert, keys, enc, metadata, lag, req, restarts>>
    BY DEF Begin, storeVars
  <1>3. /\ x \in RegRecord /\ x.kind = kind /\ x.enc = None
        /\ x.pc = IF kind = "generate" THEN "key" ELSE "enc"
    BY DEF RegRecord
  <1>4. /\ reg' \in [Regs -> RegRecord] /\ reg'[r] = x
        /\ \A s \in Regs : s # r => reg'[s] = reg[s]
    BY <1>1, <1>2, <1>3
  <1>5. metadata # None => metadata.reg \in Regs /\ metadata.reg # r
    BY <1>1, <1>2 DEF TypeOK, IInv, MetadataInv
  <1>6. cert # None => cert \in Regs /\ cert # r
    BY <1>1, <1>2 DEF TypeOK, IInv, StoreInv
  <1>7. overlapped \subseteq overlapped' /\ overlapped' \subseteq Regs
    BY <1>1, <1>2, <1>5 DEF TypeOK
  <1>8. \A s \in Regs : s # r /\ Active(s)' => s \in others
    BY <1>4 DEF Active
  <1>9. others # {} => others \subseteq overlapped' /\ r \in overlapped'
    BY <1>2
  <1> HIDE DEF x, active
  <1>10. TypeOK'
    BY <1>1, <1>2, <1>4, <1>6, <1>7 DEF TypeOK, RegRecord
  <1>11. OverlapInv'
    <2>1. \A s \in Regs : Active(s)' /\ metadata' # None =>
            s \in overlapped' /\ metadata'.reg \in overlapped'
      <3> SUFFICES ASSUME NEW s \in Regs, Active(s)', metadata' # None
                   PROVE  s \in overlapped' /\ metadata'.reg \in overlapped'
        OBVIOUS
      <3>1. metadata.reg \in others /\ metadata' = metadata
        BY <1>2
      <3>2. QED
        BY <1>8, <1>9, <3>1
    <2>2. \A s, t \in Regs : Active(s)' /\ Active(t)' /\ s # t => s \in overlapped'
      <3> SUFFICES ASSUME NEW s \in Regs, NEW t \in Regs, Active(s)', Active(t)', s # t
                   PROVE  s \in overlapped'
        OBVIOUS
      <3>1. CASE s = r
        BY <1>8, <1>9, <3>1
      <3>2. CASE s # r
        BY <1>8, <1>9, <3>2
      <3>3. QED
        BY <3>1, <3>2
    <2>3. QED
      BY <2>1, <2>2 DEF OverlapInv
  <1>12. StoreInv'
    BY <1>2, <1>4, <1>6 DEF IInv, StoreInv
  <1>13. \A s \in Regs : RegInv(s)'
    <2> SUFFICES ASSUME NEW s \in Regs PROVE RegInv(s)'
      OBVIOUS
    <2>1. CASE s = r
      <3>1. \/ reg'[r].pc = "key" /\ reg'[r].kind = "generate"
            \/ reg'[r].pc = "enc"
        BY <1>3, <1>4
      <3>2. reg'[r].enc = None
        BY <1>3, <1>4
      <3>3. QED
        BY <2>1, <3>1, <3>2 DEF RegInv
    <2>2. CASE s # r
      <3>1. reg'[s] = reg[s] /\ RegInv(s) /\ (s \notin overlapped' => s \notin overlapped)
        BY <1>4, <1>7, <2>2 DEF IInv
      <3>2. QED
        BY <1>2, <3>1 DEF RegInv, Active, LastKey
    <2>3. QED
      BY <2>1, <2>2
  <1>14. Solo' => Solo
    BY <1>2, <1>7 DEF Solo
  <1>15. MetadataInv'
    <2>1. metadata # None => reg'[metadata.reg] = reg[metadata.reg]
      BY <1>4, <1>5
    <2>2. QED
      BY <1>2, <1>14, <2>1 DEF IInv, MetadataInv, LastKey, Solo
  <1>16. \A q \in Requests : ReqInv(q)'
    <2>1. EnabledKey' = EnabledKey /\ (OwnKeys' <=> OwnKeys)
      BY <1>2 DEF EnabledKey, OwnKeys
    <2>2. QED
      BY <1>2, <1>14, <2>1 DEF IInv, ReqInv
  <1>17. QED
    BY <1>10, <1>11, <1>12, <1>13, <1>15, <1>16 DEF IInv

-----------------------------------------------------------------------------
(* The services *)

\* Only Google Cloud has pending versions, and no request object counts on which
\* of several is enabled there.
LEMMA VersionReadyKeeps ==
    ASSUME IInv, NEW i \in DOMAIN keys, VersionReady(i)
    PROVE  IInv'
  <1>1. TypeOK /\ keys \in Seq(KeyRecord) /\ i \in 1 .. Len(keys)
    BY Types DEF IInv
  <1>2. backend = "gcp"
    BY <1>1 DEF IInv, StoreInv, VersionReady
  <1>3. PICK st \in {"enabled", "failed"} : keys' = [keys EXCEPT ![i].state = st]
    BY DEF VersionReady
  <1>4. UNCHANGED <<backend, cert, enc, metadata, lag, reg, req, restarts, overlapped>>
    BY DEF VersionReady
  <1>5. keys[i] \in KeyRecord
    BY <1>1
  <1>6. PICK k : k = [keys[i] EXCEPT !.state = st]
    OBVIOUS
  <1>7. k \in KeyRecord /\ k.key = keys[i].key
    BY <1>5, <1>6 DEF KeyRecord
  <1>8. keys' = [keys EXCEPT ![i] = k]
    BY <1>3, <1>6
  <1>9. /\ keys' \in Seq(KeyRecord) /\ Len(keys') = Len(keys)
        /\ \A j \in 1 .. Len(keys) : keys'[j].key = keys[j].key
    BY <1>1, <1>7, <1>8
  <1>10. \A r \in Regs : LastKey(r)' <=> LastKey(r)
    BY <1>1, <1>9 DEF LastKey
  <1>11. OwnKeys' <=> OwnKeys
    BY <1>4, <1>9 DEF OwnKeys
  <1>12. TypeOK'
    BY <1>1, <1>4, <1>9 DEF TypeOK, KeyRecord
  <1>13. OverlapInv' /\ StoreInv'
    BY <1>2, <1>4 DEF IInv, OverlapInv, StoreInv, Active
  <1>14. \A r \in Regs : RegInv(r)'
    BY <1>4, <1>10 DEF IInv, RegInv, Active
  <1>15. MetadataInv'
    <2>1. metadata # None => metadata.reg \in Regs
      BY <1>1 DEF TypeOK
    <2>2. metadata # None => (LastKey(metadata.reg)' <=> LastKey(metadata.reg))
      BY <1>4, <1>10, <2>1 DEF LastKey
    <2>3. QED
      BY <1>4, <2>2 DEF IInv, MetadataInv, Solo
  <1>16. \A q \in Requests : ReqInv(q)'
    BY <1>2, <1>4, <1>11 DEF IInv, ReqInv, Solo
  <1>17. QED
    BY <1>12, <1>13, <1>14, <1>15, <1>16 DEF IInv

\* The encryption key that becomes usable is the one that was there.
LEMMA EncryptionKeyReadyKeeps ==
    ASSUME IInv, EncryptionKeyReady
    PROVE  IInv'
  <1>1. enc \in [key : Regs \cup {None}, ready : BOOLEAN] /\ TypeOK
    BY DEF IInv, TypeOK
  <1>2. enc.key # None
    BY <1>1 DEF EncryptionKeyReady, NoEnc
  <1>3. /\ enc' = [enc EXCEPT !.ready = TRUE]
        /\ UNCHANGED <<backend, cert, keys, metadata, lag, reg, req, restarts, overlapped>>
    BY DEF EncryptionKeyReady
  <1>4. enc'.key = enc.key /\ enc' \in [key : Regs \cup {None}, ready : BOOLEAN]
    BY <1>1, <1>3
  <1>5. TypeOK'
    BY <1>1, <1>3, <1>4 DEF TypeOK
  <1>6. OverlapInv' /\ StoreInv'
    BY <1>1, <1>2, <1>3, <1>4 DEF IInv, OverlapInv, StoreInv, Active
  <1>7. \A r \in Regs : RegInv(r)'
    BY <1>3, <1>4 DEF IInv, RegInv, Active, LastKey
  <1>8. MetadataInv'
    BY <1>3, <1>4 DEF IInv, MetadataInv, Solo, LastKey
  <1>9. \A q \in Requests : ReqInv(q)'
    <2>1. EnabledKey' = EnabledKey /\ (OwnKeys' <=> OwnKeys)
      BY <1>3 DEF EnabledKey, OwnKeys
    <2>2. QED
      BY <1>3, <2>1 DEF IInv, ReqInv, Solo
  <1>10. QED
    BY <1>5, <1>6, <1>7, <1>8, <1>9 DEF IInv

\* Nothing the invariant speaks of depends on how stale a read is.
LEMMA QuietStep ==
    ASSUME IInv, lag' \in BOOLEAN,
           UNCHANGED <<backend, cert, keys, enc, metadata, reg, req, restarts, overlapped>>
    PROVE  IInv'
  <1>1. TypeOK'
    BY DEF IInv, TypeOK
  <1>2. OverlapInv' /\ StoreInv' /\ \A r \in Regs : RegInv(r)'
    BY DEF IInv, OverlapInv, StoreInv, RegInv, Active, LastKey
  <1>3. MetadataInv'
    BY DEF IInv, MetadataInv, Solo, LastKey
  <1>4. EnabledKey' = EnabledKey /\ (OwnKeys' <=> OwnKeys)
    BY DEF EnabledKey, OwnKeys
  <1>5. \A q \in Requests : ReqInv(q)'
    BY <1>4 DEF IInv, ReqInv, Solo
  <1>6. QED
    BY <1>1, <1>2, <1>3, <1>5 DEF IInv

\* A stale read catches up.
LEMMA CatchUpKeeps ==
    ASSUME IInv, CatchUp
    PROVE  IInv'
  BY QuietStep DEF CatchUp

\* After a restart nobody is under way and no header awaits its signature.
LEMMA RestartKeeps ==
    ASSUME IInv, Restart
    PROVE  IInv'
  <1>1. TypeOK /\ reg \in [Regs -> RegRecord] /\ req \in [Requests -> ReqRecord]
    BY Types DEF IInv
  <1>2. restarts \in 0 .. MaxRestarts /\ MaxRestarts \in Nat
    BY <1>1, VerifierIdentityAssumption DEF TypeOK
  <1>3. /\ restarts' = restarts + 1 /\ restarts < MaxRestarts
        /\ cert' = IF backend = "memory" THEN None ELSE cert
        /\ keys' = IF backend = "memory" THEN <<>> ELSE keys
        /\ enc' = IF backend = "gcp" THEN enc ELSE NoEnc
        /\ metadata' = IF backend = "memory" THEN None ELSE metadata
        /\ reg' = [r \in Regs |-> IF Active(r) THEN Moved(r, "failed") ELSE reg[r]]
        /\ req' = [q \in Requests |->
                     IF backend = "memory" \/ req[q].pc \notin {"new", "stored"}
                     THEN NewReq ELSE req[q]]
        /\ UNCHANGED <<backend, lag, overlapped>>
    BY DEF Restart
  <1>4. \A r \in Regs : /\ Moved(r, "failed") \in RegRecord /\ Moved(r, "failed").pc = "failed"
                        /\ Moved(r, "failed").kind = reg[r].kind
    BY <1>1, MovedType
  <1>5. reg' \in [Regs -> RegRecord]
    BY <1>1, <1>3, <1>4
  <1>6. \A r \in Regs :
          /\ reg'[r].kind = reg[r].kind
          /\ reg'[r].pc = IF Active(r) THEN "failed" ELSE reg[r].pc
    BY <1>3, <1>4
  <1>7. \A r \in Regs : reg'[r].pc \in {"new", "done", "failed"}
    BY <1>6 DEF Active
  <1>8. NewReq \in ReqRecord /\ NewReq.pc = "new"
    BY DEF NewReq, ReqRecord, Prefixes
  <1>9. req' \in [Requests -> ReqRecord]
    BY <1>1, <1>3, <1>8
  <1>10. TypeOK'
    <2>1. restarts' \in 0 .. MaxRestarts
      BY <1>2, <1>3
    <2>2. keys' \in Seq(KeyRecord)
      BY <1>1, <1>3 DEF TypeOK, KeyRecord
    <2>3. /\ enc' \in [key : Regs \cup {None}, ready : BOOLEAN]
          /\ metadata' \in [reg : Regs, enc : Regs] \cup {None}
          /\ cert' \in Regs \cup {None}
      BY <1>1, <1>3 DEF TypeOK, NoEnc
    <2>4. cert' # None => reg'[cert'].kind = "cert"
      BY <1>1, <1>3, <1>6 DEF TypeOK
    <2>5. QED
      BY <1>1, <1>3, <1>5, <1>9, <2>1, <2>2, <2>3, <2>4 DEF TypeOK, RegRecord, ReqRecord, KeyRecord
  <1>11. OverlapInv'
    BY <1>7 DEF OverlapInv, Active
  <1>12. StoreInv'
    <2>1. cert' # None => reg'[cert'].pc # "new"
      BY <1>1, <1>3, <1>6 DEF IInv, StoreInv, TypeOK, Active
    <2>2. enc'.ready => enc'.key \in Regs
      BY <1>3 DEF IInv, StoreInv, NoEnc
    <2>3. backend # "gcp" => \A i \in 1 .. Len(keys') : keys'[i].state = "enabled"
      BY <1>3 DEF IInv, StoreInv
    <2>4. QED
      BY <1>3, <2>1, <2>2, <2>3 DEF StoreInv
  <1>13. \A r \in Regs : RegInv(r)'
    BY <1>7 DEF RegInv, Active
  <1>14. MetadataInv'
    <2>1. CASE backend = "memory"
      BY <1>3, <2>1 DEF MetadataInv, Solo
    <2>2. CASE backend # "memory"
      <3>1. metadata # None => metadata.reg \in Regs
        BY <1>1 DEF TypeOK
      <3>2. metadata # None => reg'[metadata.reg].pc \in {"done", "failed"}
        BY <1>6, <3>1 DEF IInv, MetadataInv, Active
      <3>3. metadata # None => reg'[metadata.reg].kind = reg[metadata.reg].kind
        BY <1>6, <3>1
      <3>4. backend = "aws" => restarts' > 0
        BY <1>2, <1>3
      <3>5. backend \in {"memory", "aws", "gcp"}
        BY <1>1, VerifierIdentityAssumption DEF TypeOK
      <3>6. /\ metadata' = metadata /\ cert' = cert /\ keys' = keys
            /\ backend = "gcp" => enc' = enc
        BY <1>3, <2>2
      <3>7. QED
        BY <1>3, <2>2, <3>2, <3>3, <3>4, <3>5, <3>6 DEF IInv, MetadataInv, Solo, LastKey
    <2>3. QED
      BY <2>1, <2>2
  <1>15. \A q \in Requests : ReqInv(q)'
    <2> SUFFICES ASSUME NEW q \in Requests PROVE ReqInv(q)'
      OBVIOUS
    <2>1. \/ req'[q].pc = "new"
          \/ backend # "memory" /\ req'[q] = req[q] /\ req[q].pc \in {"new", "stored"}
      BY <1>3, <1>8
    <2>2. CASE req'[q].pc = "new"
      BY <2>2 DEF ReqInv
    <2>3. CASE backend # "memory" /\ req'[q] = req[q] /\ req[q].pc \in {"new", "stored"}
      BY <1>3, <2>3 DEF IInv, ReqInv
    <2>4. QED
      BY <2>1, <2>2, <2>3
  <1>16. QED
    BY <1>10, <1>11, <1>12, <1>13, <1>14, <1>15 DEF IInv

-----------------------------------------------------------------------------
(* createAuthzRequest() and findRequestObject() *)

\* The key that signs is one of the versions.
LEMMA EnabledKeyIsThere ==
    ASSUME TypeOK, EnabledKey # None
    PROVE  /\ EnabledKey \in Regs
           /\ \E i \in 1 .. Len(keys) : EnabledKey = keys[i].key
  <1> DEFINE newest == {i \in DOMAIN keys :
                          /\ keys[i].state = "enabled"
                          /\ \A j \in i + 1 .. Len(keys) : keys[j].state # "enabled"}
  <1>1. keys \in Seq(KeyRecord)
    BY Types
  <1>2. newest # {} /\ EnabledKey = keys[CHOOSE i \in newest : TRUE].key
    BY DEF EnabledKey
  <1>3. PICK i \in newest : i = CHOOSE n \in newest : TRUE
    BY <1>2
  <1>4. EnabledKey = keys[i].key
    BY <1>2, <1>3
  <1>5. i \in 1 .. Len(keys) /\ keys[i] \in KeyRecord
    BY <1>1, <1>3
  <1>6. QED
    BY <1>4, <1>5 DEF KeyRecord

\* Where every version is enabled it is the newest.
LEMMA EnabledKeyIsLast ==
    ASSUME TypeOK, NEW r \in Regs, LastKey(r),
           \A i \in 1 .. Len(keys) : keys[i].state = "enabled"
    PROVE  EnabledKey = r
  <1> DEFINE newest == {i \in DOMAIN keys :
                          /\ keys[i].state = "enabled"
                          /\ \A j \in i + 1 .. Len(keys) : keys[j].state # "enabled"}
  <1>1. keys \in Seq(KeyRecord) /\ keys # <<>> /\ keys[Len(keys)].key = r
    BY Types DEF LastKey
  <1>2. Len(keys) \in newest
    BY <1>1
  <1>3. \A i \in newest : i = Len(keys)
    BY <1>1
  <1>4. EnabledKey = keys[CHOOSE i \in newest : TRUE].key
    BY <1>2 DEF EnabledKey
  <1>5. (CHOOSE i \in newest : TRUE) = Len(keys)
    BY <1>2, <1>3
  <1>6. QED
    BY <1>1, <1>4, <1>5

\* Without another's version it is that of the registration in force.
LEMMA EnabledKeyIsOwn ==
    ASSUME TypeOK, EnabledKey # None, OwnKeys
    PROVE  EnabledKey = metadata.reg
  BY EnabledKeyIsThere DEF OwnKeys

\* What a request object's step leaves.
LEMMA ObjectType ==
    ASSUME NEW q \in Requests, req[q].prefix \in Prefixes,
           NEW pc \in {"new", "stored", "sign", "signed"},
           NEW header \in Regs \cup {None}, NEW signer \in Regs \cup {None}
    PROVE  /\ Object(q, pc, header, signer) \in ReqRecord
           /\ Object(q, pc, header, signer).pc = pc
           /\ Object(q, pc, header, signer).prefix = req[q].prefix
           /\ Object(q, pc, header, signer).header = header
           /\ Object(q, pc, header, signer).signer = signer
  BY DEF Object, ReqRecord

\* A request object that is stored has neither header nor signature.
LEMMA CreateAuthzRequestKeeps ==
    ASSUME IInv, NEW q \in Requests, NEW prefix \in Prefixes, CreateAuthzRequest(q, prefix)
    PROVE  IInv'
  <1>1. req \in [Requests -> ReqRecord]
    BY Types DEF IInv
  <1>2. PICK x \in ReqRecord : req' = [req EXCEPT ![q] = x] /\ x.pc = "stored"
    <2>1. PICK x : x = [pc |-> "stored", prefix |-> prefix, header |-> None, signer |-> None]
      OBVIOUS
    <2>2. x \in ReqRecord /\ x.pc = "stored"
      BY <2>1 DEF ReqRecord
    <2>3. req' = [req EXCEPT ![q] = x]
      BY <2>1 DEF CreateAuthzRequest
    <2>4. QED
      BY <2>2, <2>3
  <1>3. metadata # None /\ UNCHANGED <<backend, storeVars, reg, restarts, overlapped>>
    BY DEF CreateAuthzRequest
  <1>4. req'[q].pc = "stored" /\ metadata' # None
    BY <1>1, <1>2, <1>3 DEF storeVars
  <1>5. ReqInv(q)'
    BY <1>4 DEF ReqInv
  <1>6. QED
    BY <1>2, <1>3, <1>5, RequestStep

\* The header is taken from the certificate store or the key that signs then.
LEMMA FindRequestObjectKeeps ==
    ASSUME IInv, NEW q \in Requests, FindRequestObject(q)
    PROVE  IInv'
  <1>1. req \in [Requests -> ReqRecord] /\ TypeOK
    BY Types DEF IInv
  <1>2. /\ metadata # None /\ Header(req[q].prefix) # None
        /\ UNCHANGED <<backend, storeVars, reg, restarts, overlapped>>
    BY DEF FindRequestObject
  <1>3. Header(req[q].prefix) \in Regs
    BY <1>1, <1>2, EnabledKeyIsThere DEF Header, X5cHeader, KidHeader, TypeOK
  <1>4. req[q].prefix \in Prefixes
    BY <1>1 DEF ReqRecord
  <1>5. PICK x \in ReqRecord :
          /\ req' = [req EXCEPT ![q] = x] /\ x.pc = "sign" /\ x.prefix = req[q].prefix
          /\ x.header = Header(req[q].prefix)
    <2> DEFINE o == Object(q, "sign", Header(req[q].prefix), None)
    <2>1. req' = [req EXCEPT ![q] = o]
      BY DEF FindRequestObject
    <2>2. /\ o \in ReqRecord /\ o.pc = "sign" /\ o.prefix = req[q].prefix
          /\ o.header = Header(req[q].prefix) /\ o.signer = None
      BY <1>3, <1>4, ObjectType
    <2> HIDE DEF o
    <2>3. QED
      BY <2>1, <2>2
  <1>6. req'[q] = x /\ UNCHANGED <<backend, cert, keys, enc, metadata, overlapped>>
    BY <1>1, <1>2, <1>5 DEF storeVars
  <1>7. /\ EnabledKey' = EnabledKey /\ (OwnKeys' <=> OwnKeys) /\ (Solo' <=> Solo)
    BY <1>6 DEF EnabledKey, OwnKeys, Solo
  <1>8. ReqInv(q)'
    <2>1. CASE x.prefix = "x509_san_dns"
      <3>1. x.header = cert
        BY <1>5, <2>1 DEF Header, X5cHeader
      <3>2. QED
        BY <1>2, <1>5, <1>6, <2>1, <3>1 DEF ReqInv
    <2>2. CASE x.prefix # "x509_san_dns"
      <3>1. x.header = EnabledKey /\ EnabledKey # None
        BY <1>2, <1>5, <2>2 DEF Header, KidHeader
      <3>2. OwnKeys => x.header = metadata.reg
        BY <1>1, <3>1, EnabledKeyIsOwn
      <3>3. QED
        BY <1>2, <1>5, <1>6, <1>7, <2>2, <3>1, <3>2 DEF ReqInv
    <2>3. QED
      BY <2>1, <2>2
  <1>9. QED
    BY <1>2, <1>5, <1>8, RequestStep

\* The signature is by the key that signs then.
LEMMA SignKeeps ==
    ASSUME IInv, NEW q \in Requests, Sign(q)
    PROVE  IInv'
  <1>1. req \in [Requests -> ReqRecord] /\ TypeOK /\ ReqInv(q)
    BY Types DEF IInv
  <1>2. /\ req[q].pc = "sign" /\ EnabledKey # None
        /\ UNCHANGED <<backend, storeVars, reg, restarts, overlapped>>
    BY DEF Sign
  <1>3. EnabledKey \in Regs
    BY <1>1, <1>2, EnabledKeyIsThere
  <1>4. req[q].prefix \in Prefixes /\ req[q].header \in Regs \cup {None}
    BY <1>1 DEF ReqRecord
  <1>5. PICK x \in ReqRecord :
          /\ req' = [req EXCEPT ![q] = x] /\ x.pc = "signed" /\ x.prefix = req[q].prefix
          /\ x.header = req[q].header /\ x.signer = EnabledKey
    <2> DEFINE o == Object(q, "signed", req[q].header, EnabledKey)
    <2>1. req' = [req EXCEPT ![q] = o]
      BY DEF Sign
    <2>2. /\ o \in ReqRecord /\ o.pc = "signed" /\ o.prefix = req[q].prefix
          /\ o.header = req[q].header /\ o.signer = EnabledKey
      BY <1>3, <1>4, ObjectType
    <2> HIDE DEF o
    <2>3. QED
      BY <2>1, <2>2
  <1>6. req'[q] = x /\ UNCHANGED <<backend, cert, keys, enc, metadata, overlapped>>
    BY <1>1, <1>2, <1>5 DEF storeVars
  <1>7. /\ EnabledKey' = EnabledKey /\ (OwnKeys' <=> OwnKeys) /\ (Solo' <=> Solo)
    BY <1>6 DEF EnabledKey, OwnKeys, Solo
  <1>8. OwnKeys => EnabledKey = metadata.reg
    BY <1>1, <1>2, EnabledKeyIsOwn
  <1>9. ReqInv(q)'
    BY <1>1, <1>2, <1>5, <1>6, <1>7, <1>8 DEF ReqInv
  <1>10. QED
    BY <1>2, <1>5, <1>9, RequestStep

\* Without a signature the header is dropped.
LEMMA SignFailsKeeps ==
    ASSUME IInv, NEW q \in Requests, SignFails(q)
    PROVE  IInv'
  <1>1. req \in [Requests -> ReqRecord] /\ ReqInv(q)
    BY Types DEF IInv
  <1>2. req[q].pc = "sign" /\ UNCHANGED <<backend, storeVars, reg, restarts, overlapped>>
    BY DEF SignFails
  <1>3. req[q].prefix \in Prefixes
    BY <1>1 DEF ReqRecord
  <1>4. PICK x \in ReqRecord : req' = [req EXCEPT ![q] = x] /\ x.pc = "stored"
    <2> DEFINE o == Object(q, "stored", None, None)
    <2>1. req' = [req EXCEPT ![q] = o]
      BY DEF SignFails
    <2>2. /\ o \in ReqRecord /\ o.pc = "stored" /\ o.prefix = req[q].prefix
          /\ o.header = None /\ o.signer = None
      BY <1>3, ObjectType
    <2> HIDE DEF o
    <2>3. QED
      BY <2>1, <2>2
  <1>5. req'[q].pc = "stored" /\ metadata' # None
    BY <1>1, <1>2, <1>4 DEF storeVars, ReqInv
  <1>6. ReqInv(q)'
    BY <1>5 DEF ReqInv
  <1>7. QED
    BY <1>2, <1>4, <1>6, RequestStep

-----------------------------------------------------------------------------
(* The theorems *)

\* Nothing is stored, registered or asked for at first.
LEMMA InitHolds == Init => IInv
  <1> SUFFICES ASSUME Init PROVE IInv
    OBVIOUS
  <1>1. NewReg \in RegRecord /\ NewReg.pc = "new"
    BY DEF NewReg, RegRecord, Kinds
  <1>2. NewReq \in ReqRecord /\ NewReq.pc = "new"
    BY DEF NewReq, ReqRecord, Prefixes
  <1>3. TypeOK
    <2>1. reg \in [Regs -> RegRecord] /\ req \in [Requests -> ReqRecord]
      BY <1>1, <1>2 DEF Init
    <2>2. restarts \in 0 .. MaxRestarts
      BY VerifierIdentityAssumption DEF Init
    <2>3. enc \in [key : Regs \cup {None}, ready : BOOLEAN]
      BY DEF Init, NoEnc
    <2>4. keys \in Seq(KeyRecord)
      BY DEF Init
    <2>5. QED
      BY <2>1, <2>2, <2>3, <2>4 DEF Init, TypeOK, RegRecord, ReqRecord, KeyRecord
  <1>4. OverlapInv /\ StoreInv /\ \A r \in Regs : RegInv(r)
    BY <1>1 DEF Init, OverlapInv, StoreInv, RegInv, Active, NoEnc
  <1>5. MetadataInv /\ \A q \in Requests : ReqInv(q)
    BY <1>2 DEF Init, MetadataInv, ReqInv, Solo
  <1>6. QED
    BY <1>3, <1>4, <1>5 DEF IInv

\* Every step keeps the invariant.
LEMMA NextHolds == IInv /\ [Next]_vars => IInv'
  <1> SUFFICES ASSUME IInv, [Next]_vars PROVE IInv'
    OBVIOUS
  <1>1. ASSUME NEW r \in Regs, Register(r) PROVE IInv'
    BY <1>1, BeginKeeps, SaveKeyKeeps, SaveEncryptionKeyKeeps, FetchEncryptionKeyKeeps,
       SaveCertificateKeeps, PutCertificateKeeps, SaveMetadataKeeps, RegistrationFailsKeeps
    DEF Register
  <1>2. ASSUME NEW q \in Requests, Serve(q) PROVE IInv'
    BY <1>2, CreateAuthzRequestKeeps, FindRequestObjectKeeps, SignKeeps, SignFailsKeeps
    DEF Serve
  <1>3. CASE UNCHANGED vars
    <2>1. lag \in BOOLEAN
      BY DEF IInv, TypeOK
    <2>2. QED
      BY <1>3, <2>1, QuietStep DEF vars, storeVars
  <1>4. QED
    BY <1>1, <1>2, <1>3, VersionReadyKeeps, EncryptionKeyReadyKeeps, CatchUpKeeps, RestartKeeps
    DEF Next

\* The invariant holds in every state.
THEOREM InvariantHolds == Spec => []IInv
  BY InitHolds, NextHolds, PTL DEF Spec

\* Types, and the certificate stored belongs to a registration that brought one
\* (createVerifierMetadata() saves a certificate only with its options).
THEOREM TypeCorrect == Spec => []TypeOK
  <1>1. IInv => TypeOK
    BY DEF IInv
  <1>2. QED
    BY <1>1, InvariantHolds, PTL

\* The encryption key in the metadata is the one the verifier holds
\* (createVerifierMetadata() publishes what it fetches after saving), for any
\* number of failed attempts to register.
THEOREM PublishedKeyHeldHolds == Spec => []PublishedKeyHeld
  <1>1. IInv => PublishedKeyHeld
    BY DEF IInv, MetadataInv, Solo, PublishedKeyHeld
  <1>2. QED
    BY <1>1, InvariantHolds, PTL

\* The certificate or kid in a request object's header belongs to the key that
\* signed it (findRequestObject() reads them apart), for any number of failed
\* attempts to register.
THEOREM HeaderNamesSignerHolds == Spec => []HeaderNamesSigner
  <1>1. ASSUME IInv, NEW q \in Requests, req[q].pc = "signed", Solo,
               req[q].prefix = "x509_san_dns" => reg[metadata.reg].kind = "cert",
               backend = "gcp" => OwnKeys
        PROVE  req[q].header = req[q].signer
    <2>1. TypeOK /\ ReqInv(q) /\ MetadataInv /\ metadata.reg \in Regs
      BY <1>1 DEF IInv, Solo, TypeOK
    <2>2. CASE req[q].prefix = "x509_san_dns"
      <3>1. req[q].header = metadata.reg /\ LastKey(metadata.reg)
        BY <1>1, <2>1, <2>2 DEF ReqInv, MetadataInv
      <3>2. CASE backend = "gcp"
        BY <1>1, <2>1, <3>1, <3>2 DEF ReqInv
      <3>3. CASE backend # "gcp"
        <4>1. EnabledKey = metadata.reg
          BY <1>1, <2>1, <3>1, <3>3, EnabledKeyIsLast DEF IInv, StoreInv
        <4>2. QED
          BY <1>1, <2>1, <3>1, <3>3, <4>1 DEF ReqInv
      <3>4. QED
        BY <3>2, <3>3
    <2>3. CASE req[q].prefix # "x509_san_dns"
      BY <1>1, <2>1, <2>3 DEF ReqInv
    <2>4. QED
      BY <2>2, <2>3
  <1>2. IInv => HeaderNamesSigner
    <2> SUFFICES ASSUME IInv, NEW q \in Requests, req[q].pc = "signed",
                        metadata.reg \notin overlapped,
                        req[q].prefix = "x509_san_dns" => reg[metadata.reg].kind = "cert",
                        backend = "gcp" => \A i \in DOMAIN keys : keys[i].key = metadata.reg
                 PROVE  req[q].header = req[q].signer
      BY DEF HeaderNamesSigner
    <2>1. Solo
      BY DEF IInv, ReqInv, Solo
    <2>2. backend = "gcp" => OwnKeys
      BY Types DEF IInv, OwnKeys
    <2>3. QED
      BY <1>1, <2>1, <2>2
  <1>3. QED
    BY <1>2, InvariantHolds, PTL

=============================================================================
