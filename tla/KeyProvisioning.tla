--------------------------- MODULE KeyProvisioning ---------------------------
(***************************************************************************)
(* Registering an issuer, authorization server or verifier: the duplicate  *)
(* check, the signature keys for its algorithms and the metadata, written  *)
(* one after the other to different stores by registrations that may       *)
(* overlap.  One subject is looked at; subjects share nothing.             *)
(*                                                                         *)
(* The key store is the in-memory one, AWS KMS, where a key is reached     *)
(* through an alias, or Google Cloud KMS, where it is a version of a       *)
(* CryptoKey.  A key is named by the save() that made it.                  *)
(***************************************************************************)
EXTENDS FiniteSets

CONSTANTS Calls,     \* registrations of the subject
          Algs,      \* signature algorithms
          Backends,  \* key stores looked at: "memory", "aws", "gcp"
          Roles,     \* subjects looked at: "issuer", "verifier"
          NoKey, NoCall

Saves == Calls \X Algs   \* save(subject, alg) as called by a registration
Alg(s) == s[2]

ASSUME KeyProvisioningAssumption ==
    /\ Backends \subseteq {"memory", "aws", "gcp"}
    /\ Roles \subseteq {"issuer", "verifier"}
    /\ NoKey \notin Saves /\ NoCall \notin Calls

VARIABLES
    backend,   \* the configured key store
    role,      \* what the subject is
    key,       \* alg -> the list's entry, the alias's target or the latest version
    cryptoKey, \* algs whose CryptoKey exists (Google Cloud)
    keyState,  \* key -> its state
    metadata,  \* the registration whose metadata is stored, or NoCall
    reg,       \* registration -> [pc, algs, pair]
    save,      \* save() -> [pc, seen]: seen is the in-memory list it has read
    reply,     \* registration -> how it ended
    lost,      \* history: keys whose alias was set by a call that saw no answer
    bound,     \* history: keys that were some algorithm's key
    left       \* history: saves that died, never learned their key's id, or could
               \* not discard it

storeVars == <<backend, role, key, cryptoKey, keyState, metadata>>
histVars  == <<lost, bound, left>>
vars      == <<storeVars, reg, save, reply, histVars>>

NoKeys == [a \in Algs |-> NoKey]

\* What a registration asks for: an issuer has a key generated for every
\* algorithm its configurations name, a verifier (and an authorization server,
\* without a pair) has one generated, or brings a key pair to import.
Plans == IF role = "issuer"
         THEN {[algs |-> as, pair |-> FALSE] : as \in (SUBSET Algs) \ {{}}}
         ELSE {[algs |-> {a}, pair |-> p] : a \in Algs, p \in BOOLEAN}

Pair(s) == reg[s[1]].pair

Init ==
    /\ backend \in Backends
    /\ role \in Roles
    /\ key = NoKeys
    /\ cryptoKey = {}
    /\ keyState = [s \in Saves |-> "none"]
    /\ metadata = NoCall
    /\ reg = [c \in Calls |-> [pc |-> "idle", algs |-> {}, pair |-> FALSE]]
    /\ save = [s \in Saves |-> [pc |-> "none", seen |-> NoKeys]]
    /\ reply = [c \in Calls |-> "none"]
    /\ lost = {} /\ bound = {} /\ left = {}

-----------------------------------------------------------------------------
(* createIssuerMetadata(), createAuthzServerMetadata(), createVerifierMetadata() *)

\* The duplicate check finds nothing; DynamoDB's fetch() is eventually
\* consistent and may miss a registration that has just been made.
Register(c, p) ==
    /\ reg[c].pc = "idle"
    /\ metadata = NoCall \/ backend = "aws"
    /\ reg' = [reg EXCEPT ![c] = [pc |-> "begin", algs |-> p.algs, pair |-> p.pair]]
    /\ UNCHANGED <<storeVars, save, reply, histVars>>

Duplicate(c) ==
    /\ reg[c].pc = "idle"
    /\ metadata # NoCall
    /\ reg' = [reg EXCEPT ![c].pc = "done"]
    /\ reply' = [reply EXCEPT ![c] = "duplicate"]
    /\ UNCHANGED <<storeVars, save, histVars>>

\* Where save() begins: the in-memory store has read its list and generates the
\* key, the others ask the KMS.
FirstStep(pair) == CASE backend = "memory" -> "write"
                     [] backend = "aws"    -> IF pair THEN "create" ELSE "describe"
                     [] backend = "gcp"    -> "ring"

\* All save() calls of a registration start in the same turn (Promise.all).
Begin(c) ==
    /\ reg[c].pc = "begin"
    /\ reg' = [reg EXCEPT ![c].pc = "saving"]
    /\ save' = [s \in Saves |->
                  IF s[1] = c /\ Alg(s) \in reg[c].algs
                  THEN [pc   |-> FirstStep(reg[c].pair),
                        seen |-> IF backend = "memory" THEN key ELSE NoKeys]
                  ELSE save[s]]
    /\ UNCHANGED <<storeVars, reply, histVars>>

\* Mutant: Promise.allSettled(), so that a save() that threw goes unnoticed.
KeysSettled(c) ==
    /\ reg[c].pc = "saving"
    /\ \A a \in reg[c].algs : save[<<c, a>>].pc \in {"ok", "err"}
    /\ reg' = [reg EXCEPT ![c].pc = "metadata"]
    /\ UNCHANGED <<storeVars, save, reply, histVars>>

\* Every save() returned.
KeysSaved(c) ==
    /\ reg[c].pc = "saving"
    /\ \A a \in reg[c].algs : save[<<c, a>>].pc = "ok"
    /\ reg' = [reg EXCEPT ![c].pc = "metadata"]
    /\ UNCHANGED <<storeVars, save, reply, histVars>>

\* The metadata store's save(), which replaces what is there.
SaveMetadata(c) ==
    /\ reg[c].pc = "metadata"
    /\ metadata' = c
    /\ reg' = [reg EXCEPT ![c].pc = "done"]
    /\ reply' = [reply EXCEPT ![c] = "ok"]
    /\ UNCHANGED <<backend, role, key, cryptoKey, keyState, save, histVars>>

\* A save() threw, or another round trip did: the registration fails, and the
\* save() calls still under way go on.
RegistrationFails(c) ==
    /\ \/ reg[c].pc \in {"begin", "metadata"}
       \/ reg[c].pc = "saving" /\ \E a \in reg[c].algs : save[<<c, a>>].pc = "err"
    /\ reg' = [reg EXCEPT ![c].pc = "done"]
    /\ reply' = [reply EXCEPT ![c] = "failure"]
    /\ UNCHANGED <<storeVars, save, histVars>>

Running(s) == save[s].pc \notin {"none", "ok", "err"}

\* The process serving c dies.
Crash(c) ==
    LET dead == {s \in Saves : s[1] = c /\ Running(s)}
    IN  /\ reg[c].pc # "idle"
        /\ reg[c].pc # "done" \/ dead # {}
        /\ reg' = [reg EXCEPT ![c].pc = "done"]
        /\ save' = [s \in Saves |->
                      IF s \in dead THEN [save[s] EXCEPT !.pc = "err"] ELSE save[s]]
        /\ left' = left \cup dead
        /\ UNCHANGED <<storeVars, reply, lost, bound>>

-----------------------------------------------------------------------------
(* Steps of save() *)

Goto(s, l) == save' = [save EXCEPT ![s] = [pc |-> l, seen |-> NoKeys]]

\* k is now the key of its algorithm.
Bind(k) ==
    /\ key' = [key EXCEPT ![Alg(k)] = k]
    /\ bound' = bound \cup {k}

\* A round trip throws without effect; nothing has been made yet that needs
\* cleaning up.
SaveFails(s) ==
    /\ save[s].pc \in {"write", "describe", "create", "ring", "job", "get",
                       "createKey", "version"}
    /\ Goto(s, "err")
    /\ UNCHANGED <<storeVars, reg, reply, histVars>>

\* Mutant: the pair is stored under any algorithm of the registration.
WriteAny(s) ==
    /\ save[s].pc = "write"
    /\ \E a \in reg[s[1]].algs : key' = [save[s].seen EXCEPT ![a] = s]
    /\ bound' = bound \cup {s}
    /\ keyState' = [keyState EXCEPT ![s] = "enabled"]
    /\ Goto(s, "ok")
    /\ UNCHANGED <<backend, role, cryptoKey, metadata, reg, reply, lost, left>>

\* In memory: the new pair goes into the list read before the key was
\* generated; a given pair needs no await, so that list is the current one.
Write(s) ==
    LET current == IF Pair(s) THEN key ELSE save[s].seen
    IN  /\ save[s].pc = "write"
        /\ key' = [current EXCEPT ![Alg(s)] = s]
        /\ bound' = bound \cup {s}
        /\ keyState' = [keyState EXCEPT ![s] = "enabled"]
        /\ Goto(s, "ok")
        /\ UNCHANGED <<backend, role, cryptoKey, metadata, reg, reply, lost, left>>

\* AWS, no pair: describeKey() of the alias.  A usable key is kept, one that
\* cannot be used is an error.
Describe(s) ==
    LET k == key[Alg(s)]
    IN  /\ save[s].pc = "describe"
        /\ Goto(s, IF k = NoKey THEN "create"
                   ELSE IF keyState[k] = "enabled" THEN "ok" ELSE "err")
        /\ UNCHANGED <<storeVars, reg, reply, histVars>>

\* CreateKey; a key to import into has no material yet.
CreateKey(s) ==
    /\ save[s].pc = "create"
    /\ keyState' = [keyState EXCEPT ![s] = IF Pair(s) THEN "pending_import" ELSE "enabled"]
    /\ Goto(s, IF Pair(s) THEN "import" ELSE "alias")
    /\ UNCHANGED <<backend, role, key, cryptoKey, metadata, reg, reply, histVars>>

\* The key is made, but the answer with its id does not arrive: nobody can
\* discard it.
CreateKeyUnanswered(s) ==
    /\ save[s].pc = "create"
    /\ keyState' = [keyState EXCEPT ![s] = IF Pair(s) THEN "pending_import" ELSE "enabled"]
    /\ left' = left \cup {s}
    /\ Goto(s, "err")
    /\ UNCHANGED <<backend, role, key, cryptoKey, metadata, reg, reply, lost, bound>>

\* GetParametersForImport and ImportKeyMaterial.
ImportMaterial(s) ==
    /\ save[s].pc = "import"
    /\ keyState' = [keyState EXCEPT ![s] = "enabled"]
    /\ Goto(s, "alias")
    /\ UNCHANGED <<backend, role, key, cryptoKey, metadata, reg, reply, histVars>>

CreateAlias(s) ==
    /\ save[s].pc = "alias"
    /\ key[Alg(s)] = NoKey
    /\ Bind(s)
    /\ Goto(s, "ok")
    /\ UNCHANGED <<backend, role, cryptoKey, keyState, metadata, reg, reply, lost, left>>

\* Mutant: the key that lost the race for the alias is left behind.
AliasExistsKeep(s) ==
    /\ save[s].pc = "alias"
    /\ key[Alg(s)] # NoKey
    /\ Goto(s, IF Pair(s) THEN "update" ELSE "ok")
    /\ UNCHANGED <<storeVars, reg, reply, histVars>>

\* Mutant: the alias is repointed for a generated key, too.
AliasExistsRepoint(s) ==
    /\ save[s].pc = "alias"
    /\ key[Alg(s)] # NoKey
    /\ Goto(s, "update")
    /\ UNCHANGED <<storeVars, reg, reply, histVars>>

\* AlreadyExistsException: an imported key takes the alias over, a generated one
\* is discarded in favour of the other writer's.
AliasExists(s) ==
    /\ save[s].pc = "alias"
    /\ key[Alg(s)] # NoKey
    /\ Goto(s, IF Pair(s) THEN "update" ELSE "discard_ok")
    /\ UNCHANGED <<storeVars, reg, reply, histVars>>

UpdateAlias(s) ==
    /\ save[s].pc = "update"
    /\ Bind(s)
    /\ Goto(s, "ok")
    /\ UNCHANGED <<backend, role, cryptoKey, keyState, metadata, reg, reply, lost, left>>

\* The alias is set, but the answer does not arrive: the call throws, or the SDK
\* repeats a CreateAlias and AliasExists follows.
AliasUnanswered(s) ==
    /\ \/ save[s].pc = "alias" /\ key[Alg(s)] = NoKey
       \/ save[s].pc = "update"
    /\ Bind(s)
    /\ lost' = lost \cup {s}
    /\ \/ Goto(s, "discard_err")
       \/ save[s].pc = "alias" /\ UNCHANGED save
    /\ UNCHANGED <<backend, role, cryptoKey, keyState, metadata, reg, reply, left>>

\* The import or the alias call throws without effect.
KeyUnreachable(s) ==
    /\ save[s].pc \in {"import", "alias", "update"}
    /\ Goto(s, "discard_err")
    /\ UNCHANGED <<storeVars, reg, reply, histVars>>

\* discardOrphanKey(), then on with the outcome of the save.
Discard(s) ==
    /\ save[s].pc \in {"discard_ok", "discard_err"}
    /\ keyState' = [keyState EXCEPT ![s] = "pending_deletion"]
    /\ Goto(s, IF save[s].pc = "discard_ok" THEN "ok" ELSE "err")
    /\ UNCHANGED <<backend, role, key, cryptoKey, metadata, reg, reply, histVars>>

\* The failure of a clean-up is logged.
DiscardFails(s) ==
    /\ save[s].pc \in {"discard_ok", "discard_err"}
    /\ left' = left \cup {s}
    /\ Goto(s, IF save[s].pc = "discard_ok" THEN "ok" ELSE "err")
    /\ UNCHANGED <<storeVars, reg, reply, lost, bound>>

\* Google Cloud: ensureKeyRing().
EnsureKeyRing(s) ==
    /\ save[s].pc = "ring"
    /\ Goto(s, IF Pair(s) THEN "job" ELSE "get")
    /\ UNCHANGED <<storeVars, reg, reply, histVars>>

\* ensureImportJob() comes up with an active job.
EnsureImportJob(s) ==
    /\ save[s].pc = "job"
    /\ Goto(s, "get")
    /\ UNCHANGED <<storeVars, reg, reply, histVars>>

AfterCryptoKey(s) == IF Pair(s) THEN "version" ELSE "ok"

\* ensureCryptoKey(): getCryptoKey.
GetCryptoKey(s) ==
    /\ save[s].pc = "get"
    /\ Goto(s, IF Alg(s) \in cryptoKey THEN AfterCryptoKey(s) ELSE "createKey")
    /\ UNCHANGED <<storeVars, reg, reply, histVars>>

\* ensureCryptoKey(): createCryptoKey, with a first version unless it is for
\* imports only; ALREADY_EXISTS is as good.  The answer may get lost.
CreateCryptoKey(s) ==
    /\ save[s].pc = "createKey"
    /\ cryptoKey' = cryptoKey \cup {Alg(s)}
    /\ IF Alg(s) \in cryptoKey \/ Pair(s)
       THEN UNCHANGED <<key, bound, keyState>>
       ELSE Bind(s) /\ keyState' = [keyState EXCEPT ![s] = "enabled"]
    /\ Goto(s, AfterCryptoKey(s)) \/ Goto(s, "err")
    /\ UNCHANGED <<backend, role, metadata, reg, reply, lost, left>>

\* importCryptoKeyVersion: the imported version is the latest one.
ImportVersion(s) ==
    /\ save[s].pc = "version"
    /\ Bind(s)
    /\ keyState' = [keyState EXCEPT ![s] = "enabled"]
    /\ Goto(s, "ok") \/ Goto(s, "err")
    /\ UNCHANGED <<backend, role, cryptoKey, metadata, reg, reply, lost, left>>

-----------------------------------------------------------------------------
RegistrationStep(c) ==
    \/ \E p \in Plans : Register(c, p)
    \/ Duplicate(c) \/ Begin(c) \/ KeysSaved(c) \/ SaveMetadata(c)
    \/ RegistrationFails(c) \/ Crash(c)

SaveStep(s) ==
    \/ SaveFails(s)
    \/ Write(s)
    \/ Describe(s) \/ CreateKey(s) \/ CreateKeyUnanswered(s) \/ ImportMaterial(s)
    \/ CreateAlias(s) \/ AliasExists(s) \/ UpdateAlias(s)
    \/ AliasUnanswered(s) \/ KeyUnreachable(s)
    \/ Discard(s) \/ DiscardFails(s)
    \/ EnsureKeyRing(s) \/ EnsureImportJob(s) \/ GetCryptoKey(s)
    \/ CreateCryptoKey(s) \/ ImportVersion(s)

Next ==
    \/ \E c \in Calls : RegistrationStep(c)
    \/ \E s \in Saves : SaveStep(s)

Spec == Init /\ [][Next]_vars

-----------------------------------------------------------------------------
(* Properties *)

Labels == {"none", "write", "describe", "create", "import", "alias", "update",
           "discard_ok", "discard_err", "ring", "job", "get", "createKey",
           "version", "ok", "err"}

TypeOK ==
    /\ backend \in Backends /\ role \in Roles
    /\ key \in [Algs -> Saves \cup {NoKey}]
    /\ \A a \in Algs : key[a] # NoKey => Alg(key[a]) = a
    /\ cryptoKey \subseteq Algs
    /\ keyState \in [Saves -> {"none", "pending_import", "enabled", "pending_deletion"}]
    /\ metadata \in Calls \cup {NoCall}
    /\ reg \in [Calls -> [pc : {"idle", "begin", "saving", "metadata", "done"},
                          algs : SUBSET Algs, pair : BOOLEAN]]
    /\ save \in [Saves -> [pc : Labels, seen : [Algs -> Saves \cup {NoKey}]]]
    /\ reply \in [Calls -> {"none", "ok", "duplicate", "failure"}]
    /\ {lost, bound, left} \subseteq SUBSET Saves

Usable(a) == key[a] # NoKey /\ keyState[key[a]] = "enabled"

\* "Persist key material before metadata so token issuance can resolve keys":
\* after a registration that succeeded, each of its algorithms has a usable key,
\* whatever other registrations overlapped with it or died.  The exceptions are
\* exactly these.  In memory, save() calls that overlap overwrite each other's
\* keys.  On AWS, a key whose alias call went unanswered is discarded although
\* the alias points to it.  On Google Cloud, a CryptoKey made for an import that
\* did not finish has no version, and generation is content with it.
KeysBeforeMetadata ==
    \A c \in Calls : reply[c] = "ok" =>
        \A a \in reg[c].algs :
            \/ Usable(a)
            \/ backend = "memory" /\ \E s \in Saves \ {<<c, a>>} : save[s].pc # "none"
            \/ backend = "aws" /\ key[a] \in lost
            \/ /\ backend = "gcp" /\ key[a] = NoKey
               /\ \E d \in Calls : reg[d].pair /\ save[<<d, a>>].pc # "ok"

\* "A key that never got its alias ... has to be discarded": a key in AWS KMS
\* that never was an algorithm's key is on its way to the alias or to deletion,
\* unless the process making it died, its id never arrived, or the clean-up
\* itself failed.
NoOrphanKeys ==
    \A s \in Saves :
        backend = "aws" /\ keyState[s] \in {"pending_import", "enabled"} =>
            s \in bound \cup left \/ Running(s)

\* "Without a key pair, the key is created once": in a KMS, only an imported
\* pair ever replaces the key of an algorithm, so what was signed with a
\* generated key stays verifiable however many registrations race.
GeneratedKeyStays ==
    [][\A a \in Algs :
          backend # "memory" /\ key[a] # NoKey /\ key'[a] # key[a] =>
              key'[a] # NoKey /\ Pair(key'[a])]_vars

=============================================================================
