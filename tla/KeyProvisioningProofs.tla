------------------------ MODULE KeyProvisioningProofs ------------------------
(***************************************************************************)
(* Proofs about KeyProvisioning, for any number of registrations and       *)
(* algorithms, on each of the key stores: a registration that succeeded    *)
(* has its keys, with the known exceptions; AWS keys do not get lost; a    *)
(* generated key is never replaced by another generated one.               *)
(***************************************************************************)
EXTENDS KeyProvisioning, TLAPS

\* The round trips of each key store.
AwsLabels == {"describe", "create", "import", "alias", "update", "discard_ok",
              "discard_err"}
GcpLabels == {"ring", "job", "get", "createKey", "version"}

\* Before these steps save() has made no key.
EarlyLabels == {"none", "write", "describe", "create"} \cup GcpLabels

\* A registration has its algorithms from the start and its keys when it comes to
\* write the metadata.
RegInv(c) ==
    /\ reg[c].pc = "idle" => ~reg[c].pair
    /\ reg[c].pc \in {"idle", "begin"} => \A a \in Algs : save[<<c, a>>].pc = "none"
    /\ reg[c].pc = "metadata" \/ reply[c] = "ok" =>
          \A a \in reg[c].algs : save[<<c, a>>].pc = "ok"
    /\ reply[c] = "ok" => reg[c].pc = "done"

\* What a save() knows about itself and its key, by how far it has come.
StepInv(s) ==
    LET l == save[s].pc
    IN  /\ \A a \in Algs : save[s].seen[a] # NoKey => Alg(save[s].seen[a]) = a
        /\ l = "write" => backend = "memory"
        /\ l \in AwsLabels => backend = "aws"
        /\ l \in GcpLabels => backend = "gcp"
        /\ l \in EarlyLabels => keyState[s] = "none"
        /\ l \in {"update", "version"} => Pair(s)
        /\ l \in {"alias", "update"} => keyState[s] = "enabled"

\* In memory, a key that was saved is the algorithm's unless another save() began.
MemoryInv(s) ==
    backend = "memory" /\ save[s].pc = "ok" =>
        /\ keyState[s] = "enabled"
        /\ key[Alg(s)] = s \/ \E x \in Saves \ {s} : save[x].pc # "none"

\* On AWS, a key is accounted for, the algorithm's key can be used unless its
\* alias call went unanswered, and a save() that returns leaves the algorithm with
\* a key.
AwsInv(s) ==
    backend = "aws" =>
        /\ keyState[s] \in {"pending_import", "enabled"} =>
              s \in bound \cup left \/ Running(s)
        /\ key[Alg(s)] = s => keyState[s] = "enabled" \/ s \in lost
        /\ key[Alg(s)] = s /\ Running(s) => s \in lost
        /\ save[s].pc \in {"ok", "discard_ok"} => key[Alg(s)] # NoKey

\* On Google Cloud, the latest version can be used and belongs to a CryptoKey.
GcpInv(s) ==
    backend = "gcp" =>
        /\ key[Alg(s)] = s => keyState[s] = "enabled" /\ Alg(s) \in cryptoKey
        /\ save[s].pc \in {"version", "ok"} => Alg(s) \in cryptoKey

SaveInv(s) == StepInv(s) /\ MemoryInv(s) /\ AwsInv(s) /\ GcpInv(s)

\* A CryptoKey without a version was made for an import that has not finished.
CryptoKeyInv ==
    backend = "gcp" => \A a \in cryptoKey : key[a] = NoKey =>
        \E d \in Calls : reg[d].pair /\ save[<<d, a>>].pc # "ok"

IInv ==
    /\ TypeOK
    /\ \A c \in Calls : RegInv(c)
    /\ \A s \in Saves : SaveInv(s)
    /\ CryptoKeyInv

-----------------------------------------------------------------------------
(* Frames *)

\* A save() is that of a registration for an algorithm.
LEMMA SaveParts ==
    /\ \A s \in Saves : s[1] \in Calls /\ Alg(s) \in Algs /\ s = <<s[1], Alg(s)>>
    /\ \A c \in Calls, a \in Algs :
          <<c, a>> \in Saves /\ <<c, a>>[1] = c /\ Alg(<<c, a>>) = a
    /\ NoKey \notin Saves
    /\ NoKeys \in [Algs -> Saves \cup {NoKey}] /\ \A a \in Algs : NoKeys[a] = NoKey
  BY KeyProvisioningAssumption DEF Saves, Alg, NoKeys

SaveRecord == [pc : Labels, seen : [Algs -> Saves \cup {NoKey}]]
RegRecord == [pc : {"idle", "begin", "saving", "metadata", "done"},
              algs : SUBSET Algs, pair : BOOLEAN]

\* The types of what the steps of save() change.
StoreTypes ==
    /\ key \in [Algs -> Saves \cup {NoKey}]
    /\ \A a \in Algs : key[a] # NoKey => Alg(key[a]) = a
    /\ cryptoKey \subseteq Algs
    /\ keyState \in [Saves -> {"none", "pending_import", "enabled", "pending_deletion"}]
    /\ save \in [Saves -> SaveRecord]
    /\ lost \subseteq Saves /\ bound \subseteq Saves /\ left \subseteq Saves

\* The types of what the steps of a registration change.
RegTypes ==
    /\ backend \in Backends /\ role \in Roles
    /\ metadata \in Calls \cup {NoCall}
    /\ reg \in [Calls -> RegRecord]
    /\ reply \in [Calls -> {"none", "ok", "duplicate", "failure"}]

\* Together they are the type invariant.
LEMMA Types == TypeOK <=> StoreTypes /\ RegTypes
  BY DEF TypeOK, StoreTypes, RegTypes, SaveRecord, RegRecord

\* After a step, too.
LEMMA NextTypes == StoreTypes' /\ RegTypes' => TypeOK'
  BY DEF TypeOK, StoreTypes, RegTypes, SaveRecord, RegRecord

\* What a step of the save() s may do: it moves s on, and leaves the other saves
\* and their keys alone; in a KMS, it makes no key an algorithm's but its own.
SaveFrame(s) ==
    /\ UNCHANGED <<backend, role, metadata, reg, reply>>
    /\ save[s].pc \notin {"none", "ok"} /\ save'[s].pc # "none"
    /\ \A x \in Saves \ {s} : save'[x] = save[x] /\ keyState'[x] = keyState[x]
    /\ cryptoKey \subseteq cryptoKey'
    /\ lost \subseteq lost' /\ bound \subseteq bound' /\ left \subseteq left'
    /\ backend = "memory" \/ \A a \in Algs : key'[a] \in {key[a], s}

\* The other saves rely on what they relied on.
LEMMA OtherSaves ==
    ASSUME IInv, NEW s \in Saves, SaveFrame(s), NEW x \in Saves \ {s}
    PROVE  SaveInv(x)'
  <1>1. SaveInv(x) /\ TypeOK
    BY DEF IInv
  <1>2. /\ save'[x] = save[x] /\ keyState'[x] = keyState[x]
        /\ backend' = backend /\ reg' = reg
        /\ save'[s].pc # "none"
    BY DEF SaveFrame
  <1>3. Alg(x) \in Algs /\ x # NoKey /\ s # NoKey
    BY SaveParts
  <1>4. StepInv(x)'
    BY <1>1, <1>2 DEF SaveInv, StepInv, Pair
  <1>5. MemoryInv(x)'
    BY <1>1, <1>2 DEF SaveInv, MemoryInv
  <1>6. backend # "memory" => key'[Alg(x)] \in {key[Alg(x)], s}
    BY <1>3 DEF SaveFrame
  <1>7. AwsInv(x)'
    BY <1>1, <1>2, <1>3, <1>6 DEF SaveInv, AwsInv, SaveFrame, Running
  <1>8. GcpInv(x)'
    BY <1>1, <1>2, <1>3, <1>6 DEF SaveInv, GcpInv, SaveFrame
  <1>9. QED
    BY <1>4, <1>5, <1>7, <1>8 DEF SaveInv

\* So do the registrations: s was not one that had returned.
LEMMA RegsKept ==
    ASSUME IInv, NEW s \in Saves, SaveFrame(s), NEW c \in Calls
    PROVE  RegInv(c)'
  <1>1. RegInv(c) /\ reg[c].algs \subseteq Algs
    BY DEF IInv, TypeOK
  <1>2. reg' = reg /\ reply' = reply /\ save[s].pc \notin {"none", "ok"}
    BY DEF SaveFrame
  <1>3. \A a \in Algs : <<c, a>> \in Saves /\ (<<c, a>> # s => save'[<<c, a>>] = save[<<c, a>>])
    BY SaveParts DEF SaveFrame
  <1>4. QED
    BY <1>1, <1>2, <1>3 DEF RegInv

\* The invariant after a step of the save() s.
LEMMA SaveStepOf ==
    ASSUME IInv, NEW s \in Saves, SaveFrame(s), StoreTypes', SaveInv(s)', CryptoKeyInv'
    PROVE  IInv'
  <1>1. RegTypes'
    BY Types DEF IInv, RegTypes, SaveFrame
  <1>2. QED
    BY <1>1, NextTypes, OtherSaves, RegsKept DEF IInv

\* CryptoKeys without a version stay accounted for when s does not return with its
\* pair imported and no key there.
LEMMA CryptoKeysKept ==
    ASSUME IInv, NEW s \in Saves, SaveFrame(s), cryptoKey' = cryptoKey,
           backend = "gcp" /\ Pair(s) /\ save'[s].pc = "ok" => key'[Alg(s)] # NoKey
    PROVE  CryptoKeyInv'
  <1> SUFFICES ASSUME backend = "gcp", NEW a \in cryptoKey, key'[a] = NoKey
               PROVE  \E d \in Calls : reg[d].pair /\ save'[<<d, a>>].pc # "ok"
    BY DEF CryptoKeyInv, SaveFrame
  <1>1. a \in Algs
    BY DEF IInv, TypeOK
  <1>2. key[a] = NoKey
    BY <1>1, SaveParts DEF SaveFrame
  <1>3. PICK d \in Calls : reg[d].pair /\ save[<<d, a>>].pc # "ok"
    BY <1>2 DEF IInv, CryptoKeyInv
  <1>4. CASE <<d, a>> = s
    BY <1>1, <1>3, <1>4, SaveParts DEF Pair
  <1>5. CASE <<d, a>> # s
    BY <1>1, <1>3, <1>5, SaveParts DEF SaveFrame
  <1>6. QED
    BY <1>4, <1>5

-----------------------------------------------------------------------------
(* Steps of save() *)

\* Going on to l changes the save() only.
LEMMA Gone ==
    ASSUME TypeOK, NEW s \in Saves, NEW l \in Labels, Goto(s, l)
    PROVE  /\ save' \in [Saves -> SaveRecord]
           /\ save'[s].pc = l /\ save'[s].seen = NoKeys
           /\ \A x \in Saves \ {s} : save'[x] = save[x]
  <1>1. [pc |-> l, seen |-> NoKeys] \in SaveRecord
    BY SaveParts DEF SaveRecord
  <1>2. save \in [Saves -> SaveRecord]
    BY Types DEF StoreTypes
  <1>3. QED
    BY <1>1, <1>2 DEF Goto

\* A key changes state alone.
LEMMA Stated ==
    ASSUME TypeOK, NEW s \in Saves,
           NEW v \in {"none", "pending_import", "enabled", "pending_deletion"},
           keyState' = [keyState EXCEPT ![s] = v]
    PROVE  /\ keyState' \in [Saves -> {"none", "pending_import", "enabled",
                                       "pending_deletion"}]
           /\ keyState'[s] = v
           /\ \A x \in Saves \ {s} : keyState'[x] = keyState[x]
  BY DEF TypeOK

\* Binding s makes it the key of its algorithm.
LEMMA Bound ==
    ASSUME TypeOK, NEW s \in Saves, Bind(s)
    PROVE  /\ key' \in [Algs -> Saves \cup {NoKey}]
           /\ \A a \in Algs : key'[a] # NoKey => Alg(key'[a]) = a
           /\ \A a \in Algs : key'[a] \in {key[a], s}
           /\ key'[Alg(s)] = s
           /\ bound' = bound \cup {s}
  BY SaveParts DEF TypeOK, Bind

\* What a save() that has gone on to l knows about itself.
LEMMA GoneStep ==
    ASSUME IInv, NEW s \in Saves, SaveFrame(s), NEW l \in Labels, Goto(s, l),
           l = "write" => backend = "memory",
           l \in AwsLabels => backend = "aws",
           l \in GcpLabels => backend = "gcp",
           l \in EarlyLabels => keyState'[s] = "none",
           l \in {"update", "version"} => Pair(s),
           l \in {"alias", "update"} => keyState'[s] = "enabled"
    PROVE  StepInv(s)'
  <1>1. save'[s].pc = l /\ save'[s].seen = NoKeys
    BY Gone DEF IInv
  <1>2. backend' = backend /\ (Pair(s) <=> Pair(s)')
    BY DEF SaveFrame, Pair
  <1>3. \A a \in Algs : NoKeys[a] = NoKey
    BY SaveParts
  <1>4. QED
    BY <1>1, <1>2, <1>3 DEF StepInv

\* A step after which the keys, their states and the CryptoKeys are what they were.
Quiet == UNCHANGED <<backend, role, key, cryptoKey, keyState, metadata, reg, reply,
                     lost, bound>>

\* The invariant after such a step.
LEMMA QuietStep ==
    ASSUME IInv, NEW s \in Saves, NEW l \in Labels \ {"none"}, Goto(s, l), Quiet,
           save[s].pc \notin {"none", "ok"},
           left' \in {left, left \cup {s}},
           l = "write" => backend = "memory",
           l \in AwsLabels => backend = "aws",
           l \in GcpLabels => backend = "gcp",
           l \in EarlyLabels => keyState[s] = "none",
           l \in {"update", "version"} => Pair(s),
           l \in {"alias", "update"} => keyState[s] = "enabled",
           l = "ok" => backend # "memory",
           \* A key that can be used is not given up without a trace.
           backend = "aws" =>
               \/ Running(s) /\ l \notin {"ok", "err"}
               \/ s \in left' \/ keyState[s] \notin {"pending_import", "enabled"},
           backend = "aws" => save[s].pc \in AwsLabels,
           backend = "aws" /\ l \in {"ok", "discard_ok"} => key[Alg(s)] # NoKey,
           backend = "gcp" /\ l \in {"version", "ok"} => Alg(s) \in cryptoKey,
           backend = "gcp" /\ l = "ok" => ~Pair(s)
    PROVE  IInv'
  <1>1. TypeOK /\ SaveInv(s)
    BY DEF IInv
  <1>2. save' \in [Saves -> SaveRecord] /\ save'[s].pc = l
        /\ \A x \in Saves \ {s} : save'[x] = save[x]
    BY <1>1, Gone
  <1>3. SaveFrame(s)
    BY <1>2 DEF SaveFrame, Quiet
  <1>4. StoreTypes'
    BY <1>1, <1>2, Types DEF StoreTypes, Quiet
  <1>5. StepInv(s)'
    BY <1>3, GoneStep DEF Quiet
  <1>6. MemoryInv(s)'
    BY <1>2 DEF MemoryInv, Quiet
  <1>7. AwsInv(s)'
    <2>1. backend = "aws" => Running(s)
      BY DEF Running, AwsLabels
    <2>2. QED
      BY <1>1, <1>2, <2>1 DEF SaveInv, AwsInv, Running, Quiet
  <1>8. GcpInv(s)'
    BY <1>1, <1>2 DEF SaveInv, GcpInv, Quiet
  <1>9. CryptoKeyInv'
    BY <1>2, <1>3, CryptoKeysKept DEF Quiet
  <1>10. QED
    BY <1>3, <1>4, <1>5, <1>6, <1>7, <1>8, <1>9, SaveStepOf DEF SaveInv
\* A round trip throws before anything was made.
LEMMA SaveFailsKeeps ==
    ASSUME IInv, NEW s \in Saves, SaveFails(s)
    PROVE  IInv'
  <1>1. StepInv(s)
    BY DEF IInv, SaveInv
  <1>2. Goto(s, "err") /\ Quiet /\ left' = left
    BY DEF SaveFails, Quiet, storeVars, histVars
  <1>3. keyState[s] = "none"
    BY <1>1 DEF SaveFails, StepInv, EarlyLabels, GcpLabels
  <1>4. backend = "aws" => save[s].pc \in AwsLabels
    BY <1>1 DEF SaveFails, StepInv, AwsLabels, GcpLabels
  <1>5. QED
    BY <1>2, <1>3, <1>4, QuietStep
       DEF SaveFails, Labels, AwsLabels, GcpLabels, EarlyLabels

\* The alias is looked up.
LEMMA DescribeKeeps ==
    ASSUME IInv, NEW s \in Saves, Describe(s)
    PROVE  IInv'
  <1>1. StepInv(s)
    BY DEF IInv, SaveInv
  <1>2. PICK l \in {"create", "ok", "err"} :
           Goto(s, l) /\ (l = "ok" => key[Alg(s)] # NoKey)
    BY DEF Describe
  <1>3. Quiet /\ left' = left
    BY DEF Describe, Quiet, storeVars, histVars
  <1>4. save[s].pc = "describe" /\ keyState[s] = "none" /\ backend = "aws"
    BY <1>1 DEF Describe, StepInv, EarlyLabels, AwsLabels
  <1>5. QED
    BY <1>2, <1>3, <1>4, QuietStep DEF Labels, AwsLabels, GcpLabels, EarlyLabels

\* The alias turns out to exist.
LEMMA AliasExistsKeeps ==
    ASSUME IInv, NEW s \in Saves, AliasExists(s)
    PROVE  IInv'
  <1>1. StepInv(s)
    BY DEF IInv, SaveInv
  <1>2. PICK l \in {"update", "discard_ok"} : Goto(s, l) /\ (l = "update" => Pair(s))
    BY DEF AliasExists
  <1>3. Quiet /\ left' = left
    BY DEF AliasExists, Quiet, storeVars, histVars
  <1>4. /\ save[s].pc = "alias" /\ keyState[s] = "enabled" /\ backend = "aws"
        /\ key[Alg(s)] # NoKey
    BY <1>1 DEF AliasExists, StepInv, AwsLabels
  <1>5. Running(s)
    BY <1>4 DEF Running
  <1>6. QED
    BY <1>2, <1>3, <1>4, <1>5, QuietStep DEF Labels, AwsLabels, GcpLabels, EarlyLabels

\* The import or the alias call throws.
LEMMA KeyUnreachableKeeps ==
    ASSUME IInv, NEW s \in Saves, KeyUnreachable(s)
    PROVE  IInv'
  <1>1. StepInv(s)
    BY DEF IInv, SaveInv
  <1>2. Goto(s, "discard_err") /\ Quiet /\ left' = left
    BY DEF KeyUnreachable, Quiet, storeVars, histVars
  <1>3. save[s].pc \in {"import", "alias", "update"} /\ backend = "aws"
    BY <1>1 DEF KeyUnreachable, StepInv, AwsLabels
  <1>4. Running(s)
    BY <1>3 DEF Running
  <1>5. QED
    BY <1>2, <1>3, <1>4, QuietStep DEF Labels, AwsLabels, GcpLabels, EarlyLabels

\* The clean-up fails.
LEMMA DiscardFailsKeeps ==
    ASSUME IInv, NEW s \in Saves, DiscardFails(s)
    PROVE  IInv'
  <1>1. StepInv(s) /\ AwsInv(s) /\ TypeOK
    BY DEF IInv, SaveInv
  <1>2. PICK l \in {"ok", "err"} :
           Goto(s, l) /\ (l = "ok" => save[s].pc = "discard_ok")
    BY DEF DiscardFails
  <1>3. Quiet /\ left' = left \cup {s}
    BY DEF DiscardFails, Quiet, storeVars
  <1>4. save[s].pc \in {"discard_ok", "discard_err"} /\ backend = "aws"
    BY <1>1 DEF DiscardFails, StepInv, AwsLabels
  <1>5. l = "ok" => key[Alg(s)] # NoKey
    BY <1>1, <1>2, <1>4 DEF AwsInv
  <1>6. QED
    BY <1>2, <1>3, <1>4, <1>5, QuietStep DEF Labels, AwsLabels, GcpLabels, EarlyLabels

\* The key ring, the import job and the CryptoKey are looked up.
LEMMA LookupKeeps ==
    ASSUME IInv, NEW s \in Saves,
           EnsureKeyRing(s) \/ EnsureImportJob(s) \/ GetCryptoKey(s)
    PROVE  IInv'
  <1>1. StepInv(s)
    BY DEF IInv, SaveInv
  <1>2. PICK l \in {"job", "get", "createKey", "version", "ok"} :
           /\ Goto(s, l)
           /\ l = "version" => Pair(s)
           /\ l = "ok" => ~Pair(s)
           /\ l \in {"version", "ok"} => Alg(s) \in cryptoKey
    BY DEF EnsureKeyRing, EnsureImportJob, GetCryptoKey, AfterCryptoKey
  <1>3. Quiet /\ left' = left
    BY DEF EnsureKeyRing, EnsureImportJob, GetCryptoKey, Quiet, storeVars, histVars
  <1>4. save[s].pc \in {"ring", "job", "get"}
    BY DEF EnsureKeyRing, EnsureImportJob, GetCryptoKey
  <1>5. backend = "gcp" /\ keyState[s] = "none"
    BY <1>1, <1>4 DEF StepInv, GcpLabels, EarlyLabels
  <1>6. QED
    BY <1>2, <1>3, <1>4, <1>5, QuietStep DEF Labels, AwsLabels, GcpLabels, EarlyLabels

\* The in-memory store writes the list.
LEMMA WriteKeeps ==
    ASSUME IInv, NEW s \in Saves, Write(s)
    PROVE  IInv'
  <1> DEFINE current == IF Pair(s) THEN key ELSE save[s].seen
  <1>1. TypeOK /\ StepInv(s) /\ save[s].pc = "write" /\ backend = "memory"
    BY DEF IInv, SaveInv, StepInv, Write
  <1>2. /\ current \in [Algs -> Saves \cup {NoKey}]
        /\ \A a \in Algs : current[a] # NoKey => Alg(current[a]) = a
    BY <1>1 DEF TypeOK, StepInv
  <1>3. /\ key' = [current EXCEPT ![Alg(s)] = s]
        /\ keyState' = [keyState EXCEPT ![s] = "enabled"]
        /\ Goto(s, "ok") /\ bound' = bound \cup {s}
        /\ UNCHANGED <<backend, role, cryptoKey, metadata, reg, reply, lost, left>>
    BY DEF Write
  <1>4. /\ key' \in [Algs -> Saves \cup {NoKey}]
        /\ \A a \in Algs : key'[a] # NoKey => Alg(key'[a]) = a
        /\ key'[Alg(s)] = s
    BY <1>2, <1>3, SaveParts
  <1>5. /\ save' \in [Saves -> SaveRecord] /\ save'[s].pc = "ok"
        /\ \A x \in Saves \ {s} : save'[x] = save[x]
    BY <1>1, <1>3, Gone DEF Labels
  <1>6. /\ keyState' \in [Saves -> {"none", "pending_import", "enabled",
                                    "pending_deletion"}]
        /\ keyState'[s] = "enabled"
        /\ \A x \in Saves \ {s} : keyState'[x] = keyState[x]
    BY <1>1, <1>3, Stated
  <1>7. SaveFrame(s)
    BY <1>1, <1>3, <1>5, <1>6 DEF SaveFrame
  <1>8. StoreTypes'
    BY <1>1, <1>3, <1>4, <1>5, <1>6 DEF TypeOK, StoreTypes
  <1>9. StepInv(s)'
    BY <1>1, <1>3, <1>7, GoneStep DEF Labels, AwsLabels, GcpLabels, EarlyLabels
  <1>10. MemoryInv(s)' /\ AwsInv(s)' /\ GcpInv(s)' /\ CryptoKeyInv'
    BY <1>1, <1>3, <1>4, <1>6 DEF MemoryInv, AwsInv, GcpInv, CryptoKeyInv
  <1>11. QED
    BY <1>7, <1>8, <1>9, <1>10, SaveStepOf DEF SaveInv

\* The invariant after a step that changes the state of the key of s in AWS KMS,
\* and not the alias.
LEMMA KeyStateStep ==
    ASSUME IInv, NEW s \in Saves, save[s].pc \in AwsLabels,
           NEW l \in AwsLabels \cup {"ok", "err"}, Goto(s, l), l \notin {"describe", "create"},
           NEW v \in {"pending_import", "enabled", "pending_deletion"},
           keyState' = [keyState EXCEPT ![s] = v],
           UNCHANGED <<backend, role, key, cryptoKey, metadata, reg, reply, lost, bound>>,
           left' \in {left, left \cup {s}},
           l = "update" => Pair(s),
           l \in {"alias", "update"} => v = "enabled",
           l \in {"ok", "discard_ok"} => key[Alg(s)] # NoKey,
           l \in {"ok", "err"} => s \in left' \/ v = "pending_deletion"
    PROVE  IInv'
  <1>1. TypeOK /\ StepInv(s) /\ AwsInv(s) /\ backend = "aws"
    BY DEF IInv, SaveInv, StepInv
  <1>2. l \in Labels
    BY DEF Labels, AwsLabels
  <1>3. /\ save' \in [Saves -> SaveRecord] /\ save'[s].pc = l
        /\ \A x \in Saves \ {s} : save'[x] = save[x]
    BY <1>1, <1>2, Gone
  <1>4. /\ keyState' \in [Saves -> {"none", "pending_import", "enabled",
                                    "pending_deletion"}]
        /\ keyState'[s] = v
        /\ \A x \in Saves \ {s} : keyState'[x] = keyState[x]
    BY <1>1, Stated
  <1>5. SaveFrame(s)
    BY <1>3, <1>4 DEF SaveFrame, AwsLabels
  <1>6. StoreTypes'
    BY <1>1, <1>3, <1>4 DEF TypeOK, StoreTypes
  <1>7. StepInv(s)'
    BY <1>1, <1>2, <1>4, <1>5, GoneStep DEF AwsLabels, GcpLabels, EarlyLabels
  <1>8. AwsInv(s)'
    <2>1. Running(s)
      BY DEF Running, AwsLabels
    <2>2. s \in left' \/ Running(s)' \/ v = "pending_deletion"
      BY <1>3 DEF Running, AwsLabels
    <2>3. QED
      BY <1>1, <1>3, <1>4, <2>1, <2>2 DEF AwsInv
  <1>9. MemoryInv(s)' /\ GcpInv(s)' /\ CryptoKeyInv'
    BY <1>1 DEF MemoryInv, GcpInv, CryptoKeyInv
  <1>10. QED
    BY <1>5, <1>6, <1>7, <1>8, <1>9, SaveStepOf DEF SaveInv

\* A key is made, whether or not the answer arrives.
LEMMA CreateKeyKeeps ==
    ASSUME IInv, NEW s \in Saves, CreateKey(s) \/ CreateKeyUnanswered(s)
    PROVE  IInv'
  <1>1. save[s].pc = "create"
    BY DEF CreateKey, CreateKeyUnanswered
  <1>2. PICK v \in {"pending_import", "enabled"}, l \in {"import", "alias", "err"} :
           /\ keyState' = [keyState EXCEPT ![s] = v]
           /\ Goto(s, l)
           /\ l = "alias" => v = "enabled"
           /\ left' = IF l = "err" THEN left \cup {s} ELSE left
    BY DEF CreateKey, CreateKeyUnanswered, histVars
  <1>3. UNCHANGED <<backend, role, key, cryptoKey, metadata, reg, reply, lost, bound>>
    BY DEF CreateKey, CreateKeyUnanswered, histVars
  <1>4. QED
    BY <1>1, <1>2, <1>3, KeyStateStep DEF AwsLabels

\* The material is imported.
LEMMA ImportMaterialKeeps ==
    ASSUME IInv, NEW s \in Saves, ImportMaterial(s)
    PROVE  IInv'
  <1>1. PICK l \in {"alias"}, v \in {"enabled"} :
           /\ save[s].pc = "import" /\ Goto(s, l) /\ left' = left
           /\ keyState' = [keyState EXCEPT ![s] = v]
           /\ UNCHANGED <<backend, role, key, cryptoKey, metadata, reg, reply, lost,
                          bound>>
    BY DEF ImportMaterial, histVars
  <1>2. QED
    BY <1>1, KeyStateStep DEF AwsLabels

\* An orphan key is discarded.
LEMMA DiscardKeeps ==
    ASSUME IInv, NEW s \in Saves, Discard(s)
    PROVE  IInv'
  <1>1. save[s].pc \in {"discard_ok", "discard_err"}
    BY DEF Discard
  <1>2. StepInv(s) /\ AwsInv(s) /\ backend = "aws"
    BY <1>1 DEF IInv, SaveInv, StepInv, AwsLabels
  <1>3. PICK l \in {"ok", "err"} :
           Goto(s, l) /\ (l = "ok" => save[s].pc = "discard_ok")
    BY DEF Discard
  <1>4. /\ keyState' = [keyState EXCEPT ![s] = "pending_deletion"] /\ left' = left
        /\ UNCHANGED <<backend, role, key, cryptoKey, metadata, reg, reply, lost, bound>>
    BY DEF Discard, histVars
  <1>5. l = "ok" => key[Alg(s)] # NoKey
    BY <1>2, <1>3 DEF AwsInv
  <1>6. QED
    BY <1>1, <1>3, <1>4, <1>5, KeyStateStep DEF AwsLabels

\* The invariant after a step that makes s the key of its algorithm in AWS KMS.
LEMMA AliasStep ==
    ASSUME IInv, NEW s \in Saves, save[s].pc \in {"alias", "update"}, Bind(s),
           UNCHANGED <<backend, role, cryptoKey, keyState, metadata, reg, reply, left>>,
           NEW l \in {"ok", "discard_err", "alias"},
           save' \in [Saves -> SaveRecord], save'[s].pc = l,
           \A x \in Saves \ {s} : save'[x] = save[x],
           StepInv(s)',
           lost' \in {lost, lost \cup {s}},
           l = "ok" \/ s \in lost'
    PROVE  IInv'
  <1>1. TypeOK /\ StepInv(s) /\ keyState[s] = "enabled" /\ backend = "aws"
    BY DEF IInv, SaveInv, StepInv, AwsLabels
  <1>2. /\ key' \in [Algs -> Saves \cup {NoKey}]
        /\ \A a \in Algs : key'[a] # NoKey => Alg(key'[a]) = a
        /\ \A a \in Algs : key'[a] \in {key[a], s}
        /\ key'[Alg(s)] = s
        /\ bound' = bound \cup {s}
    BY <1>1, Bound
  <1>3. SaveFrame(s)
    BY <1>2 DEF SaveFrame
  <1>4. StoreTypes'
    BY <1>1, <1>2 DEF TypeOK, StoreTypes
  <1>5. AwsInv(s)'
    BY <1>1, <1>2, SaveParts DEF AwsInv, Running
  <1>6. MemoryInv(s)' /\ GcpInv(s)' /\ CryptoKeyInv'
    BY <1>1 DEF MemoryInv, GcpInv, CryptoKeyInv
  <1>7. QED
    BY <1>3, <1>4, <1>5, <1>6, SaveStepOf DEF SaveInv

\* The alias is set and the call says so.
LEMMA AliasSetKeeps ==
    ASSUME IInv, NEW s \in Saves, CreateAlias(s) \/ UpdateAlias(s)
    PROVE  IInv'
  <1>1. /\ save[s].pc \in {"alias", "update"} /\ Bind(s) /\ Goto(s, "ok")
        /\ UNCHANGED <<backend, role, cryptoKey, keyState, metadata, reg, reply,
                       lost, left>>
    BY DEF CreateAlias, UpdateAlias
  <1>2. /\ save' \in [Saves -> SaveRecord]
        /\ save'[s].pc = "ok" /\ save'[s].seen = NoKeys
        /\ \A x \in Saves \ {s} : save'[x] = save[x]
    BY <1>1, Gone DEF IInv, Labels
  <1>3. StepInv(s)'
    BY <1>2, SaveParts DEF StepInv, AwsLabels, GcpLabels, EarlyLabels
  <1>4. QED
    BY <1>1, <1>2, <1>3, AliasStep

\* The alias is set and the answer does not arrive.
LEMMA AliasUnansweredKeeps ==
    ASSUME IInv, NEW s \in Saves, AliasUnanswered(s)
    PROVE  IInv'
  <1>1. /\ save[s].pc \in {"alias", "update"} /\ Bind(s) /\ lost' = lost \cup {s}
        /\ UNCHANGED <<backend, role, cryptoKey, keyState, metadata, reg, reply, left>>
    BY DEF AliasUnanswered
  <1>2. TypeOK /\ StepInv(s) /\ backend = "aws"
    BY <1>1 DEF IInv, SaveInv, StepInv, AwsLabels
  <1>3. CASE Goto(s, "discard_err")
    <2>1. /\ save' \in [Saves -> SaveRecord]
          /\ save'[s].pc = "discard_err" /\ save'[s].seen = NoKeys
          /\ \A x \in Saves \ {s} : save'[x] = save[x]
      BY <1>2, <1>3, Gone DEF Labels
    <2>2. StepInv(s)'
      BY <1>1, <1>2, <2>1, SaveParts DEF StepInv, AwsLabels, GcpLabels, EarlyLabels
    <2>3. QED
      BY <1>1, <2>1, <2>2, AliasStep
  <1>4. CASE save[s].pc = "alias" /\ UNCHANGED save
    <2>1. save' \in [Saves -> SaveRecord] /\ save'[s].pc = "alias"
      BY <1>2, <1>4 DEF TypeOK, SaveRecord
    <2>2. StepInv(s)'
      BY <1>1, <1>2, <1>4 DEF StepInv, Pair
    <2>3. QED
      BY <1>1, <1>4, <2>1, <2>2, AliasStep
  <1>5. QED
    BY <1>3, <1>4 DEF AliasUnanswered

\* The invariant after a step that makes s the latest version of its CryptoKey.
LEMMA VersionStep ==
    ASSUME IInv, NEW s \in Saves, save[s].pc \in {"createKey", "version"}, Bind(s),
           keyState' = [keyState EXCEPT ![s] = "enabled"],
           UNCHANGED <<backend, role, metadata, reg, reply, lost, left>>,
           cryptoKey' = cryptoKey \cup {Alg(s)},
           NEW l \in {"ok", "err"}, Goto(s, l)
    PROVE  IInv'
  <1>1. TypeOK /\ StepInv(s) /\ backend = "gcp"
    BY DEF IInv, SaveInv, StepInv, GcpLabels
  <1>2. /\ key' \in [Algs -> Saves \cup {NoKey}]
        /\ \A a \in Algs : key'[a] # NoKey => Alg(key'[a]) = a
        /\ \A a \in Algs : key'[a] \in {key[a], s}
        /\ key'[Alg(s)] = s
        /\ bound' = bound \cup {s}
    BY <1>1, Bound
  <1>3. /\ save' \in [Saves -> SaveRecord] /\ save'[s].pc = l
        /\ \A x \in Saves \ {s} : save'[x] = save[x]
    BY <1>1, Gone DEF Labels
  <1>4. /\ keyState' \in [Saves -> {"none", "pending_import", "enabled",
                                    "pending_deletion"}]
        /\ keyState'[s] = "enabled"
        /\ \A x \in Saves \ {s} : keyState'[x] = keyState[x]
    BY <1>1, Stated
  <1>5. SaveFrame(s)
    BY <1>2, <1>3, <1>4 DEF SaveFrame
  <1>6. StoreTypes'
    BY <1>1, <1>2, <1>3, <1>4, SaveParts DEF TypeOK, StoreTypes
  <1>7. StepInv(s)'
    BY <1>5, GoneStep DEF Labels, AwsLabels, GcpLabels, EarlyLabels
  <1>8. MemoryInv(s)' /\ AwsInv(s)' /\ GcpInv(s)'
    BY <1>1, <1>2, <1>4 DEF MemoryInv, AwsInv, GcpInv
  <1>9. CryptoKeyInv'
    <2> SUFFICES ASSUME NEW a \in cryptoKey', key'[a] = NoKey
                 PROVE  \E d \in Calls : reg[d].pair /\ save'[<<d, a>>].pc # "ok"
      BY DEF CryptoKeyInv
    <2>1. a \in Algs /\ a # Alg(s)
      BY <1>2, <1>6, SaveParts DEF StoreTypes
    <2>2. a \in cryptoKey /\ key[a] = NoKey
      BY <1>2, <2>1, SaveParts
    <2>3. PICK d \in Calls : reg[d].pair /\ save[<<d, a>>].pc # "ok"
      BY <1>1, <2>2 DEF IInv, CryptoKeyInv
    <2>4. <<d, a>> \in Saves \ {s}
      BY <2>1, SaveParts
    <2>5. QED
      BY <1>3, <2>3, <2>4
  <1>10. QED
    BY <1>5, <1>6, <1>7, <1>8, <1>9, SaveStepOf DEF SaveInv

\* A version is imported.
LEMMA ImportVersionKeeps ==
    ASSUME IInv, NEW s \in Saves, ImportVersion(s)
    PROVE  IInv'
  <1>1. GcpInv(s) /\ StepInv(s)
    BY DEF IInv, SaveInv
  <1>2. save[s].pc = "version" /\ cryptoKey' = cryptoKey
    BY DEF ImportVersion
  <1>3. Alg(s) \in cryptoKey
    BY <1>1, <1>2 DEF GcpInv, StepInv, GcpLabels
  <1>4. PICK l \in {"ok", "err"} : Goto(s, l)
    BY DEF ImportVersion
  <1>5. cryptoKey' = cryptoKey \cup {Alg(s)}
    BY <1>2, <1>3
  <1>6. /\ Bind(s) /\ keyState' = [keyState EXCEPT ![s] = "enabled"]
        /\ UNCHANGED <<backend, role, metadata, reg, reply, lost, left>>
    BY DEF ImportVersion
  <1>7. QED
    BY <1>2, <1>4, <1>5, <1>6, VersionStep

\* A CryptoKey is made, or turns out to exist.
LEMMA CreateCryptoKeyKeeps ==
    ASSUME IInv, NEW s \in Saves, CreateCryptoKey(s)
    PROVE  IInv'
  <1>1. TypeOK /\ StepInv(s) /\ GcpInv(s) /\ CryptoKeyInv
    BY DEF IInv, SaveInv
  <1>2. /\ save[s].pc = "createKey" /\ cryptoKey' = cryptoKey \cup {Alg(s)}
        /\ UNCHANGED <<backend, role, metadata, reg, reply, lost, left>>
    BY DEF CreateCryptoKey
  <1>3. backend = "gcp" /\ keyState[s] = "none"
    BY <1>1, <1>2 DEF StepInv, GcpLabels, EarlyLabels
  <1>4. PICK l \in {"version", "ok", "err"} :
           /\ Goto(s, l)
           /\ l = "version" => Pair(s)
           /\ l = "ok" => ~Pair(s)
    BY DEF CreateCryptoKey, AfterCryptoKey
  <1>5. CASE Alg(s) \in cryptoKey \/ Pair(s)
    <2>1. UNCHANGED <<key, bound, keyState>>
      BY <1>5 DEF CreateCryptoKey
    <2>2. /\ save' \in [Saves -> SaveRecord] /\ save'[s].pc = l
          /\ \A x \in Saves \ {s} : save'[x] = save[x]
      BY <1>1, <1>4, Gone DEF Labels
    <2>3. SaveFrame(s)
      BY <1>2, <2>1, <2>2 DEF SaveFrame
    <2>4. StoreTypes'
      BY <1>1, <1>2, <2>1, <2>2, SaveParts DEF TypeOK, StoreTypes
    <2>5. StepInv(s)'
      BY <1>3, <1>4, <2>1, <2>3, GoneStep DEF Labels, AwsLabels, GcpLabels, EarlyLabels
    <2>6. MemoryInv(s)' /\ AwsInv(s)' /\ GcpInv(s)'
      BY <1>1, <1>2, <1>3, <2>1 DEF MemoryInv, AwsInv, GcpInv
    <2>7. CryptoKeyInv'
      <3> SUFFICES ASSUME NEW a \in cryptoKey', key[a] = NoKey
                   PROVE  \E d \in Calls : reg[d].pair /\ save'[<<d, a>>].pc # "ok"
        BY <1>2, <2>1 DEF CryptoKeyInv
      <3>1. a \in Algs /\ Alg(s) \in Algs /\ s[1] \in Calls /\ s = <<s[1], Alg(s)>>
        BY <2>4, SaveParts DEF StoreTypes
      <3>2. CASE a = Alg(s) /\ Pair(s)
        BY <1>4, <2>2, <3>1, <3>2 DEF Pair
      <3>3. CASE a \in cryptoKey /\ ~(a = Alg(s) /\ Pair(s))
        <4>1. PICK d \in Calls : reg[d].pair /\ save[<<d, a>>].pc # "ok"
          BY <1>1, <1>3, <3>3 DEF CryptoKeyInv
        <4>2. <<d, a>> \in Saves \ {s}
          BY <3>1, <3>3, <4>1, SaveParts DEF Pair
        <4>3. QED
          BY <2>2, <4>1, <4>2
      <3>4. QED
        BY <1>2, <1>5, <3>2, <3>3
    <2>8. QED
      BY <2>3, <2>4, <2>5, <2>6, <2>7, SaveStepOf DEF SaveInv
  <1>6. CASE ~(Alg(s) \in cryptoKey \/ Pair(s))
    <2>1. Bind(s) /\ keyState' = [keyState EXCEPT ![s] = "enabled"]
      BY <1>6 DEF CreateCryptoKey
    <2>2. l \in {"ok", "err"}
      BY <1>4, <1>6
    <2>3. QED
      BY <1>2, <1>4, <2>1, <2>2, VersionStep
  <1>7. QED
    BY <1>5, <1>6

\* Every step of a save() keeps the invariant.
LEMMA SaveStepKeeps ==
    ASSUME IInv, NEW s \in Saves, SaveStep(s)
    PROVE  IInv'
  BY SaveFailsKeeps, WriteKeeps, DescribeKeeps, CreateKeyKeeps, ImportMaterialKeeps,
     AliasSetKeeps, AliasExistsKeeps, AliasUnansweredKeeps, KeyUnreachableKeeps,
     DiscardKeeps, DiscardFailsKeeps, LookupKeeps, CreateCryptoKeyKeeps,
     ImportVersionKeeps DEF SaveStep

-----------------------------------------------------------------------------
(* Steps of a registration *)

\* The invariant after a step of the registration c that touches no key and no
\* save().
LEMMA RegStepOf ==
    ASSUME IInv, NEW c \in Calls,
           UNCHANGED <<backend, role, key, cryptoKey, keyState, save, lost, bound, left>>,
           metadata' \in {metadata, c},
           reg' \in [Calls -> RegRecord],
           \A d \in Calls \ {c} : reg'[d] = reg[d] /\ reply'[d] = reply[d],
           reply' \in [Calls -> {"none", "ok", "duplicate", "failure"}],
           reg'[c].pair = reg[c].pair \/ reg[c].pc = "idle",
           RegInv(c)'
    PROVE  IInv'
  <1>1. TypeOK
    BY DEF IInv
  <1>2. TypeOK'
    <2>1. StoreTypes'
      BY <1>1, Types DEF StoreTypes
    <2>2. RegTypes'
      BY <1>1 DEF TypeOK, RegTypes
    <2>3. QED
      BY <2>1, <2>2, NextTypes
  <1>3. ASSUME NEW d \in Calls \ {c} PROVE RegInv(d)'
    BY <1>3 DEF IInv, RegInv
  <1>4. \A x \in Saves : (Pair(x)' <=> Pair(x)) \/ save[x].pc = "none"
    <2> SUFFICES ASSUME NEW x \in Saves, x[1] = c, reg[c].pc = "idle"
                 PROVE  save[x].pc = "none"
      BY SaveParts DEF Pair
    <2>1. RegInv(c) /\ Alg(x) \in Algs /\ x = <<c, Alg(x)>>
      BY SaveParts DEF IInv
    <2>2. QED
      BY <2>1 DEF RegInv
  <1>5. ASSUME NEW x \in Saves PROVE SaveInv(x)'
    <2>1. SaveInv(x)
      BY DEF IInv
    <2>2. StepInv(x)'
      BY <1>4, <2>1 DEF SaveInv, StepInv
    <2>3. MemoryInv(x)' /\ AwsInv(x)' /\ GcpInv(x)'
      BY <2>1 DEF SaveInv, MemoryInv, AwsInv, GcpInv, Running
    <2>4. QED
      BY <2>2, <2>3 DEF SaveInv
  <1>6. CryptoKeyInv'
    <2>1. \A d \in Calls : reg[d].pair => reg'[d].pair
      BY DEF IInv, RegInv
    <2>2. CryptoKeyInv
      BY DEF IInv
    <2>3. QED
      BY <2>1, <2>2 DEF CryptoKeyInv
  <1>7. QED
    BY <1>2, <1>3, <1>5, <1>6 DEF IInv

\* A plan names algorithms.
LEMMA PlanType ==
    ASSUME NEW p \in Plans
    PROVE  p.algs \subseteq Algs /\ p.pair \in BOOLEAN
  <1>1. CASE role = "issuer"
    <2>1. PICK as \in (SUBSET Algs) \ {{}} : p = [algs |-> as, pair |-> FALSE]
      BY <1>1 DEF Plans
    <2>2. as \subseteq Algs
      BY <2>1
    <2>3. QED
      BY <2>1, <2>2
  <1>2. CASE role # "issuer"
    <2>1. PICK a \in Algs, b \in BOOLEAN : p = [algs |-> {a}, pair |-> b]
      BY <1>2 DEF Plans
    <2>2. {a} \subseteq Algs
      BY <2>1
    <2>3. QED
      BY <2>1, <2>2
  <1>3. QED
    BY <1>1, <1>2

\* A registration begins.
LEMMA RegisterKeeps ==
    ASSUME IInv, NEW c \in Calls, NEW p \in Plans, Register(c, p)
    PROVE  IInv'
  <1> DEFINE r == [pc |-> "begin", algs |-> p.algs, pair |-> p.pair]
  <1>1. TypeOK /\ RegInv(c) /\ reg[c].pc = "idle"
    BY DEF IInv, Register
  <1>2. r \in RegRecord
    BY PlanType DEF RegRecord
  <1>3. reg' = [reg EXCEPT ![c] = r] /\ reg \in [Calls -> RegRecord]
    BY <1>1, Types DEF Register, RegTypes
  <1>4. /\ reg' \in [Calls -> RegRecord] /\ reg'[c] = r
        /\ \A d \in Calls \ {c} : reg'[d] = reg[d]
    BY <1>2, <1>3
  <1>5. UNCHANGED <<backend, role, key, cryptoKey, keyState, metadata, save, reply,
                    lost, bound, left>>
    BY DEF Register, storeVars, histVars
  <1>6. RegInv(c)'
    BY <1>1, <1>4, <1>5 DEF RegInv
  <1>7. reply' \in [Calls -> {"none", "ok", "duplicate", "failure"}]
    BY <1>1, <1>5 DEF TypeOK
  <1>8. QED
    BY <1>1, <1>4, <1>5, <1>6, <1>7, RegStepOf

\* A registration moves on: its plan stays.
LEMMA Moved ==
    ASSUME TypeOK, NEW c \in Calls,
           NEW l \in {"idle", "begin", "saving", "metadata", "done"},
           reg' = [reg EXCEPT ![c].pc = l]
    PROVE  /\ reg' \in [Calls -> RegRecord]
           /\ reg'[c].pc = l
           /\ reg'[c].algs = reg[c].algs /\ reg'[c].pair = reg[c].pair
           /\ \A d \in Calls \ {c} : reg'[d] = reg[d]
  <1> DEFINE r == [reg[c] EXCEPT !.pc = l]
  <1>1. reg \in [Calls -> RegRecord] /\ reg[c] \in RegRecord
    BY Types DEF RegTypes
  <1>2. r \in RegRecord /\ r.pc = l /\ r.algs = reg[c].algs /\ r.pair = reg[c].pair
    BY <1>1 DEF RegRecord
  <1>3. reg' = [reg EXCEPT ![c] = r]
    OBVIOUS
  <1>4. QED
    BY <1>1, <1>2, <1>3

\* A registration is answered.
LEMMA Replied ==
    ASSUME TypeOK, NEW c \in Calls, NEW a \in {"ok", "duplicate", "failure"},
           reply' = [reply EXCEPT ![c] = a]
    PROVE  /\ reply' \in [Calls -> {"none", "ok", "duplicate", "failure"}]
           /\ reply'[c] = a
           /\ \A d \in Calls \ {c} : reply'[d] = reply[d]
  BY DEF TypeOK

\* A registration is refused, or fails.
LEMMA EndKeeps ==
    ASSUME IInv, NEW c \in Calls, Duplicate(c) \/ RegistrationFails(c)
    PROVE  IInv'
  <1>1. TypeOK /\ RegInv(c)
    BY DEF IInv
  <1>2. PICK l \in {"done"}, a \in {"duplicate", "failure"} :
           reg' = [reg EXCEPT ![c].pc = l] /\ reply' = [reply EXCEPT ![c] = a]
    BY DEF Duplicate, RegistrationFails
  <1>3. UNCHANGED <<backend, role, key, cryptoKey, keyState, metadata, save,
                    lost, bound, left>>
    BY DEF Duplicate, RegistrationFails, storeVars, histVars
  <1>4. /\ reg' \in [Calls -> RegRecord]
        /\ reg'[c].pc = l
        /\ reg'[c].algs = reg[c].algs /\ reg'[c].pair = reg[c].pair
        /\ \A d \in Calls \ {c} : reg'[d] = reg[d]
    BY <1>1, <1>2, Moved
  <1>5. /\ reply' \in [Calls -> {"none", "ok", "duplicate", "failure"}]
        /\ reply'[c] = a
        /\ \A d \in Calls \ {c} : reply'[d] = reply[d]
    BY <1>1, <1>2, Replied
  <1>6. RegInv(c)'
    BY <1>2, <1>4, <1>5 DEF RegInv
  <1>7. QED
    BY <1>3, <1>4, <1>5, <1>6, RegStepOf

\* Every save() returned: the keys are there before the metadata is written.
LEMMA KeysSavedKeeps ==
    ASSUME IInv, NEW c \in Calls, KeysSaved(c)
    PROVE  IInv'
  <1>1. TypeOK /\ RegInv(c)
    BY DEF IInv
  <1>2. PICK l \in {"metadata"} : reg' = [reg EXCEPT ![c].pc = l]
    BY DEF KeysSaved
  <1>3. UNCHANGED <<backend, role, key, cryptoKey, keyState, metadata, save, reply,
                    lost, bound, left>>
    BY DEF KeysSaved, storeVars, histVars
  <1>4. /\ reg' \in [Calls -> RegRecord]
        /\ reg'[c].pc = l
        /\ reg'[c].algs = reg[c].algs /\ reg'[c].pair = reg[c].pair
        /\ \A d \in Calls \ {c} : reg'[d] = reg[d]
    BY <1>1, <1>2, Moved
  <1>5. reg[c].pc = "saving" /\ \A a \in reg[c].algs : save[<<c, a>>].pc = "ok"
    BY DEF KeysSaved
  <1>6. RegInv(c)'
    BY <1>1, <1>2, <1>3, <1>4, <1>5 DEF RegInv
  <1>7. reply' \in [Calls -> {"none", "ok", "duplicate", "failure"}]
    BY <1>1, <1>3 DEF TypeOK
  <1>8. QED
    BY <1>3, <1>4, <1>6, <1>7, RegStepOf

\* The metadata is written.
LEMMA SaveMetadataKeeps ==
    ASSUME IInv, NEW c \in Calls, SaveMetadata(c)
    PROVE  IInv'
  <1>1. TypeOK /\ RegInv(c)
    BY DEF IInv
  <1>2. PICK l \in {"done"}, a \in {"ok"} :
           reg' = [reg EXCEPT ![c].pc = l] /\ reply' = [reply EXCEPT ![c] = a]
    BY DEF SaveMetadata
  <1>3. /\ UNCHANGED <<backend, role, key, cryptoKey, keyState, save, lost, bound, left>>
        /\ metadata' = c /\ reg[c].pc = "metadata"
    BY DEF SaveMetadata, histVars
  <1>4. /\ reg' \in [Calls -> RegRecord]
        /\ reg'[c].pc = l
        /\ reg'[c].algs = reg[c].algs /\ reg'[c].pair = reg[c].pair
        /\ \A d \in Calls \ {c} : reg'[d] = reg[d]
    BY <1>1, <1>2, Moved
  <1>5. /\ reply' \in [Calls -> {"none", "ok", "duplicate", "failure"}]
        /\ reply'[c] = a
        /\ \A d \in Calls \ {c} : reply'[d] = reply[d]
    BY <1>1, <1>2, Replied
  <1>6. RegInv(c)'
    BY <1>1, <1>2, <1>3, <1>4, <1>5 DEF RegInv
  <1>7. QED
    BY <1>3, <1>4, <1>5, <1>6, RegStepOf

\* The save() calls of a registration start.
LEMMA BeginKeeps ==
    ASSUME IInv, NEW c \in Calls, Begin(c)
    PROVE  IInv'
  <1> DEFINE mine == {s \in Saves : s[1] = c /\ Alg(s) \in reg[c].algs}
             first == [pc   |-> FirstStep(reg[c].pair),
                       seen |-> IF backend = "memory" THEN key ELSE NoKeys]
  <1>1. TypeOK /\ RegInv(c) /\ reg[c].pc = "begin"
    BY DEF IInv, Begin
  <1>2. PICK l \in {"saving"} : reg' = [reg EXCEPT ![c].pc = l]
    BY DEF Begin
  <1>3. UNCHANGED <<backend, role, key, cryptoKey, keyState, metadata, reply,
                    lost, bound, left>>
    BY DEF Begin, storeVars, histVars
  <1>4. /\ reg' \in [Calls -> RegRecord]
        /\ reg'[c].pc = l
        /\ reg'[c].algs = reg[c].algs /\ reg'[c].pair = reg[c].pair
        /\ \A d \in Calls \ {c} : reg'[d] = reg[d]
    BY <1>1, <1>2, Moved
  <1>5. /\ first.pc \in {"write", "create", "describe", "ring"}
        /\ first.pc = "write" => backend = "memory"
        /\ first.pc \in AwsLabels => backend = "aws"
        /\ first.pc \in GcpLabels => backend = "gcp"
    BY <1>1, KeyProvisioningAssumption DEF TypeOK, FirstStep, AwsLabels, GcpLabels
  <1>6. /\ first.seen \in [Algs -> Saves \cup {NoKey}]
        /\ \A a \in Algs : first.seen[a] # NoKey => Alg(first.seen[a]) = a
    BY <1>1, SaveParts DEF TypeOK
  <1>7. first \in SaveRecord
    BY <1>5, <1>6 DEF SaveRecord, Labels
  <1>8. save' = [s \in Saves |-> IF s \in mine THEN first ELSE save[s]]
    BY DEF Begin
  <1>9. /\ save' \in [Saves -> SaveRecord]
        /\ \A s \in mine : save'[s] = first
        /\ \A s \in Saves \ mine : save'[s] = save[s]
    <2>1. save \in [Saves -> SaveRecord]
      BY <1>1, Types DEF StoreTypes
    <2>2. QED
      BY <1>7, <1>8, <2>1
  <1>10. \A s \in mine : save[s].pc = "none"
    BY <1>1, SaveParts DEF RegInv
  <1>11. TypeOK'
    <2>1. StoreTypes' /\ RegTypes'
      BY <1>1, <1>3, <1>4, <1>9 DEF TypeOK, StoreTypes, RegTypes
    <2>2. QED
      BY <2>1, NextTypes
  <1>12. RegInv(c)'
    BY <1>1, <1>2, <1>3, <1>4 DEF RegInv
  <1>13. ASSUME NEW d \in Calls \ {c} PROVE RegInv(d)'
    <2>1. RegInv(d) /\ reg[d].algs \subseteq Algs
      BY <1>1 DEF IInv, TypeOK
    <2>2. \A a \in Algs : save'[<<d, a>>] = save[<<d, a>>]
      BY <1>9, <1>13, SaveParts
    <2>3. QED
      BY <1>3, <1>4, <2>1, <2>2 DEF RegInv
  <1>14. \A x \in Saves : Pair(x)' <=> Pair(x)
    BY <1>4, SaveParts DEF Pair
  <1>15. ASSUME NEW s \in mine PROVE SaveInv(s)'
    <2>1. SaveInv(s) /\ keyState[s] = "none"
      BY <1>10 DEF IInv, SaveInv, StepInv, EarlyLabels
    <2>2. save'[s] = first
      BY <1>9
    <2>3. StepInv(s)'
      BY <1>3, <1>5, <1>6, <2>1, <2>2 DEF StepInv
    <2>4. MemoryInv(s)' /\ GcpInv(s)'
      BY <1>3, <1>5, <2>1, <2>2 DEF SaveInv, MemoryInv, GcpInv
    <2>5. AwsInv(s)'
      BY <1>3, <1>5, <2>1, <2>2 DEF SaveInv, AwsInv
    <2>6. QED
      BY <2>3, <2>4, <2>5 DEF SaveInv
  <1>16. ASSUME NEW x \in Saves \ mine PROVE SaveInv(x)'
    <2>1. SaveInv(x) /\ save'[x] = save[x]
      BY <1>9 DEF IInv
    <2>2. StepInv(x)'
      BY <1>3, <1>14, <2>1 DEF SaveInv, StepInv
    <2>3. MemoryInv(x)'
      <3>1. \A y \in Saves : save[y].pc # "none" => save'[y].pc # "none"
        BY <1>9, <1>10
      <3>2. QED
        BY <1>3, <2>1, <3>1 DEF SaveInv, MemoryInv
    <2>4. AwsInv(x)' /\ GcpInv(x)'
      BY <1>3, <2>1 DEF SaveInv, AwsInv, GcpInv, Running
    <2>5. QED
      BY <2>2, <2>3, <2>4 DEF SaveInv
  <1>17. CryptoKeyInv'
    <2>1. \A d \in Calls, a \in Algs :
             save[<<d, a>>].pc # "ok" => save'[<<d, a>>].pc # "ok"
      BY <1>5, <1>9, SaveParts
    <2>2. \A d \in Calls : reg[d].pair => reg'[d].pair
      BY <1>4
    <2>3. CryptoKeyInv /\ cryptoKey \subseteq Algs
      BY <1>1 DEF IInv, TypeOK
    <2>4. QED
      BY <1>3, <2>1, <2>2, <2>3 DEF CryptoKeyInv
  <1>18. QED
    BY <1>11, <1>12, <1>13, <1>15, <1>16, <1>17 DEF IInv

\* The process serving a registration dies, and its save() calls with it.
LEMMA CrashKeeps ==
    ASSUME IInv, NEW c \in Calls, Crash(c)
    PROVE  IInv'
  <1> DEFINE dead == {s \in Saves : s[1] = c /\ Running(s)}
  <1>1. TypeOK
    BY DEF IInv
  <1>2. PICK l \in {"done"} : reg' = [reg EXCEPT ![c].pc = l]
    BY DEF Crash
  <1>3. /\ UNCHANGED <<backend, role, key, cryptoKey, keyState, metadata, reply,
                       lost, bound>>
        /\ left' = left \cup dead
    BY DEF Crash, storeVars
  <1>4. /\ reg' \in [Calls -> RegRecord]
        /\ reg'[c].pc = l
        /\ reg'[c].algs = reg[c].algs /\ reg'[c].pair = reg[c].pair
        /\ \A d \in Calls \ {c} : reg'[d] = reg[d]
    BY <1>1, <1>2, Moved
  <1>5. save' = [s \in Saves |->
                   IF s \in dead THEN [save[s] EXCEPT !.pc = "err"] ELSE save[s]]
    BY DEF Crash
  <1>6. /\ save' \in [Saves -> SaveRecord]
        /\ \A s \in dead : save'[s].pc = "err" /\ save'[s].seen = save[s].seen
        /\ \A s \in Saves \ dead : save'[s] = save[s]
    <2>1. save \in [Saves -> SaveRecord]
      BY <1>1, Types DEF StoreTypes
    <2>2. \A s \in Saves : [save[s] EXCEPT !.pc = "err"] \in SaveRecord
      BY <2>1 DEF SaveRecord, Labels
    <2>3. QED
      BY <1>5, <2>1, <2>2 DEF SaveRecord
  <1>7. \A s \in dead : save[s].pc \notin {"none", "ok", "err"}
    BY DEF Running
  <1>8. TypeOK'
    <2>1. StoreTypes' /\ RegTypes'
      BY <1>1, <1>3, <1>4, <1>6 DEF TypeOK, StoreTypes, RegTypes
    <2>2. QED
      BY <2>1, NextTypes
  <1>9. ASSUME NEW d \in Calls PROVE RegInv(d)'
    <2>1. RegInv(d) /\ reg[d].algs \subseteq Algs
      BY <1>1 DEF IInv, TypeOK
    <2>2. \A a \in Algs : save[<<d, a>>].pc \in {"none", "ok"} =>
             save'[<<d, a>>] = save[<<d, a>>]
      BY <1>6, <1>7, SaveParts
    <2>3. CASE d = c
      <3>1. /\ reg'[d].pc = "done" /\ reg'[d].algs = reg[d].algs
            /\ reply' = reply
        BY <1>2, <1>3, <1>4, <2>3
      <3>2. QED
        BY <2>1, <2>2, <3>1 DEF RegInv
    <2>4. CASE d # c
      BY <1>3, <1>4, <2>1, <2>2, <2>4 DEF RegInv
    <2>5. QED
      BY <2>3, <2>4
  <1>10. \A x \in Saves : Pair(x)' <=> Pair(x)
    BY <1>4, SaveParts DEF Pair
  <1>11. \A y \in Saves : save[y].pc # "none" => save'[y].pc # "none"
    BY <1>6
  <1>12. ASSUME NEW s \in dead PROVE SaveInv(s)'
    <2>1. SaveInv(s) /\ Running(s) /\ save'[s].pc = "err" /\ save'[s].seen = save[s].seen
          /\ s \in left'
      BY <1>3, <1>6 DEF IInv
    <2>2. StepInv(s)'
      BY <1>3, <2>1 DEF SaveInv, StepInv, AwsLabels, GcpLabels, EarlyLabels
    <2>3. MemoryInv(s)' /\ GcpInv(s)' /\ AwsInv(s)'
      BY <1>3, <2>1 DEF SaveInv, MemoryInv, GcpInv, AwsInv, Running
    <2>4. QED
      BY <2>2, <2>3 DEF SaveInv
  <1>13. ASSUME NEW x \in Saves \ dead PROVE SaveInv(x)'
    <2>1. SaveInv(x) /\ save'[x] = save[x]
      BY <1>6 DEF IInv
    <2>2. StepInv(x)'
      BY <1>3, <1>10, <2>1 DEF SaveInv, StepInv
    <2>3. MemoryInv(x)'
      BY <1>3, <1>11, <2>1 DEF SaveInv, MemoryInv
    <2>4. AwsInv(x)' /\ GcpInv(x)'
      BY <1>3, <2>1 DEF SaveInv, AwsInv, GcpInv, Running
    <2>5. QED
      BY <2>2, <2>3, <2>4 DEF SaveInv
  <1>14. CryptoKeyInv'
    <2>1. \A d \in Calls, a \in Algs :
             save[<<d, a>>].pc # "ok" => save'[<<d, a>>].pc # "ok"
      BY <1>6, SaveParts
    <2>2. \A d \in Calls : reg[d].pair => reg'[d].pair
      BY <1>4
    <2>3. CryptoKeyInv /\ cryptoKey \subseteq Algs
      BY <1>1 DEF IInv, TypeOK
    <2>4. QED
      BY <1>3, <2>1, <2>2, <2>3 DEF CryptoKeyInv
  <1>15. QED
    BY <1>8, <1>9, <1>12, <1>13, <1>14 DEF IInv

-----------------------------------------------------------------------------
(* The specification *)

\* Nothing has begun.
LEMMA InitInv == Init => IInv
  <1> SUFFICES ASSUME Init PROVE IInv
    OBVIOUS
  <1>1. StoreTypes
    <2>1. [pc |-> "none", seen |-> NoKeys] \in SaveRecord
      BY SaveParts DEF SaveRecord, Labels
    <2>2. QED
      BY <2>1, SaveParts DEF Init, StoreTypes
  <1>2. RegTypes
    BY DEF Init, RegTypes, RegRecord
  <1>3. \A c \in Calls : RegInv(c)
    BY SaveParts DEF Init, RegInv
  <1>4. ASSUME NEW s \in Saves PROVE SaveInv(s)
    <2>1. /\ save[s].pc = "none" /\ save[s].seen = NoKeys /\ keyState[s] = "none"
          /\ key[Alg(s)] = NoKey
      BY SaveParts DEF Init
    <2>2. QED
      BY <2>1, SaveParts
         DEF SaveInv, StepInv, MemoryInv, AwsInv, GcpInv, AwsLabels, GcpLabels
  <1>5. CryptoKeyInv
    BY DEF Init, CryptoKeyInv
  <1>6. QED
    BY <1>1, <1>2, <1>3, <1>4, <1>5, Types DEF IInv

\* Every step keeps the invariant.
LEMMA StepKeeps ==
    ASSUME IInv, [Next]_vars
    PROVE  IInv'
  <1>1. CASE \E c \in Calls : RegistrationStep(c)
    BY <1>1, RegisterKeeps, EndKeeps, BeginKeeps, KeysSavedKeeps, SaveMetadataKeeps,
       CrashKeeps DEF RegistrationStep
  <1>2. CASE \E s \in Saves : SaveStep(s)
    BY <1>2, SaveStepKeeps
  <1>3. CASE UNCHANGED vars
    <2>1. UNCHANGED <<backend, role, key, cryptoKey, keyState, metadata, reg, save,
                      reply, lost, bound, left>>
      BY <1>3 DEF vars, storeVars, histVars
    <2>2. TypeOK'
      BY <2>1 DEF IInv, TypeOK
    <2>3. \A c \in Calls : RegInv(c)'
      BY <2>1 DEF IInv, RegInv
    <2>4. \A s \in Saves : SaveInv(s)'
      BY <2>1 DEF IInv, SaveInv, StepInv, MemoryInv, AwsInv, GcpInv, Running, Pair
    <2>5. CryptoKeyInv'
      BY <2>1 DEF IInv, CryptoKeyInv
    <2>6. QED
      BY <2>2, <2>3, <2>4, <2>5 DEF IInv
  <1>4. QED
    BY <1>1, <1>2, <1>3 DEF Next

\* The inductive invariant holds throughout.
THEOREM InvariantHolds == Spec => []IInv
  BY InitInv, StepKeeps, PTL DEF Spec

\* Type correctness: registrations, saves, keys and their states.
THEOREM TypeCorrect == Spec => []TypeOK
  BY InvariantHolds, PTL DEF IInv

\* "Persist key material before metadata": a registration that succeeded has a
\* usable key for each of its algorithms, with the three exceptions that
\* KeysBeforeMetadata names, however many registrations overlap or die.
THEOREM KeysBeforeMetadataHolds == Spec => []KeysBeforeMetadata
  <1>1. IInv => KeysBeforeMetadata
    <2> SUFFICES ASSUME IInv, NEW c \in Calls, reply[c] = "ok", NEW a \in reg[c].algs
                 PROVE  \/ Usable(a)
                        \/ /\ backend = "memory"
                           /\ \E s \in Saves \ {<<c, a>>} : save[s].pc # "none"
                        \/ backend = "aws" /\ key[a] \in lost
                        \/ /\ backend = "gcp" /\ key[a] = NoKey
                           /\ \E d \in Calls : reg[d].pair /\ save[<<d, a>>].pc # "ok"
      BY DEF KeysBeforeMetadata
    <2> DEFINE s == <<c, a>>
               k == key[a]
    <2>1. a \in Algs /\ backend \in {"memory", "aws", "gcp"}
      BY KeyProvisioningAssumption DEF IInv, TypeOK
    <2>2. s \in Saves /\ Alg(s) = a
      BY <2>1, SaveParts
    <2>3. save[s].pc = "ok"
      BY DEF IInv, RegInv
    <2>4. SaveInv(s)
      BY <2>2 DEF IInv
    <2>5. k # NoKey => k \in Saves /\ Alg(k) = a /\ SaveInv(k)
      BY <2>1 DEF IInv, TypeOK
    <2>6. CASE backend = "memory"
      <3>1. keyState[s] = "enabled" /\ s # NoKey
        BY <2>2, <2>3, <2>4, <2>6, SaveParts DEF SaveInv, MemoryInv
      <3>2. k = s \/ \E x \in Saves \ {s} : save[x].pc # "none"
        BY <2>2, <2>3, <2>4, <2>6 DEF SaveInv, MemoryInv
      <3>3. QED
        BY <2>6, <3>1, <3>2 DEF Usable
    <2>7. CASE backend = "aws"
      <3>1. k # NoKey
        BY <2>2, <2>3, <2>4, <2>7 DEF SaveInv, AwsInv
      <3>2. keyState[k] = "enabled" \/ k \in lost
        BY <2>5, <2>7, <3>1 DEF SaveInv, AwsInv
      <3>3. QED
        BY <2>7, <3>1, <3>2 DEF Usable
    <2>8. CASE backend = "gcp"
      <3>1. a \in cryptoKey
        BY <2>2, <2>3, <2>4, <2>8 DEF SaveInv, GcpInv
      <3>2. k # NoKey => keyState[k] = "enabled"
        BY <2>5, <2>8 DEF SaveInv, GcpInv
      <3>3. k = NoKey => \E d \in Calls : reg[d].pair /\ save[<<d, a>>].pc # "ok"
        BY <2>8, <3>1 DEF IInv, CryptoKeyInv
      <3>4. QED
        BY <2>8, <3>2, <3>3 DEF Usable
    <2>9. QED
      BY <2>1, <2>6, <2>7, <2>8
  <1>2. QED
    BY <1>1, InvariantHolds, PTL

\* "A key that never got its alias ... has to be discarded": every key made in AWS
\* KMS is an algorithm's, was given up with a trace, or is still being worked on.
THEOREM NoOrphanKeysHolds == Spec => []NoOrphanKeys
  <1>1. IInv => NoOrphanKeys
    BY DEF IInv, SaveInv, AwsInv, NoOrphanKeys
  <1>2. QED
    BY <1>1, InvariantHolds, PTL

\* In a KMS, a step that replaces a key has an imported one in its place.
LEMMA StepKeepsGenerated ==
    ASSUME IInv, [Next]_vars, NEW a \in Algs, backend # "memory", key[a] # NoKey,
           key'[a] # key[a]
    PROVE  key'[a] # NoKey /\ Pair(key'[a])
  <1> DEFINE repoints(s) == CreateAlias(s) \/ UpdateAlias(s) \/ AliasUnanswered(s)
                            \/ CreateCryptoKey(s) \/ ImportVersion(s)
  <1>1. PICK s \in Saves : Write(s) \/ repoints(s)
    <2>1. key' # key
      OBVIOUS
    <2>2. ASSUME NEW c \in Calls PROVE ~RegistrationStep(c)
      BY <2>1 DEF RegistrationStep, Register, Duplicate, Begin, KeysSaved,
         SaveMetadata, RegistrationFails, Crash, storeVars
    <2>3. ASSUME NEW s \in Saves, SaveStep(s) PROVE Write(s) \/ repoints(s)
      BY <2>1, <2>3 DEF SaveStep, SaveFails, Describe, CreateKey, CreateKeyUnanswered,
         ImportMaterial, AliasExists, KeyUnreachable, Discard, DiscardFails,
         EnsureKeyRing, EnsureImportJob, GetCryptoKey, storeVars
    <2>4. vars' # vars
      BY <2>1 DEF vars, storeVars
    <2>5. QED
      BY <2>2, <2>3, <2>4 DEF Next
  <1>2. TypeOK /\ StepInv(s) /\ GcpInv(s) /\ Alg(s) \in Algs /\ s # NoKey
    BY SaveParts DEF IInv, SaveInv
  <1>3. repoints(s)
    BY <1>1, <1>2 DEF Write, StepInv
  <1>4. Bind(s)
    BY <1>3 DEF CreateAlias, UpdateAlias, AliasUnanswered, CreateCryptoKey, ImportVersion
  <1>5. key'[a] = s /\ a = Alg(s)
    BY <1>2, <1>4, Bound DEF TypeOK
  <1>6. Pair(s)
    <2>1. CASE CreateAlias(s) \/ UpdateAlias(s) \/ AliasUnanswered(s)
      BY <1>2, <1>5, <2>1 DEF CreateAlias, UpdateAlias, AliasUnanswered, StepInv
    <2>2. CASE CreateCryptoKey(s)
      <3>1. backend = "gcp"
        BY <1>2, <2>2 DEF CreateCryptoKey, StepInv, GcpLabels
      <3>2. key[a] \in Saves /\ Alg(key[a]) = a
        BY <1>2 DEF TypeOK
      <3>3. a \in cryptoKey
        BY <3>1, <3>2 DEF IInv, SaveInv, GcpInv
      <3>4. QED
        BY <1>5, <2>2, <3>3 DEF CreateCryptoKey
    <2>3. CASE ImportVersion(s)
      BY <1>2, <2>3 DEF ImportVersion, StepInv
    <2>4. QED
      BY <1>3, <2>1, <2>2, <2>3
  <1>7. QED
    BY <1>2, <1>5, <1>6

\* "Without a key pair, the key is created once": only an imported pair ever
\* replaces an algorithm's key in a KMS, however many registrations race.
THEOREM GeneratedKeyStaysHolds == Spec => GeneratedKeyStays
  <1> DEFINE A == \A a \in Algs :
                     backend # "memory" /\ key[a] # NoKey /\ key'[a] # key[a] =>
                         key'[a] # NoKey /\ Pair(key'[a])
  <1>1. IInv /\ [Next]_vars => A
    BY StepKeepsGenerated
  <1>2. QED
    BY <1>1, InvariantHolds, PTL DEF Spec, GeneratedKeyStays

=============================================================================
