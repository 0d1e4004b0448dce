-------------------------- MODULE ReplayGuardProofs --------------------------
(***************************************************************************)
(* Proofs about ReplayGuard, for any number of JWTs and requests, any      *)
(* lifetimes and tolerances, any of the stores and any clock: what is      *)
(* accepted stays remembered for as long as it could be accepted again.    *)
(***************************************************************************)
EXTENDS ReplayGuard, TLAPS

\* Whatever was presented had been signed.
SignedInv == \A r \in Requests : pc[r] # "idle" => claim[jwt[r]] # NoTime

\* A write under way read the clock at most MaxRoundTrip ago, when its JWT had
\* lifetime left.
WriteInv ==
    \A r \in Requests : pc[r] = "saving" =>
        /\ stamp[r] \in 0 .. now
        /\ now - stamp[r] <= MaxRoundTrip
        /\ OutlivesSave(jwt[r], stamp[r])

\* Of an accepted request, the clock it read is known.
StampInv == \A r \in Requests : pc[r] = "accepted" => stamp[r] \in Nat

\* Until when the jti of p is kept by a write that read the clock at t.
KeptUntil(p, t) == t + JtiTtl(p, t)

\* The last request to be accepted with p decides about the entry: it is there,
\* or it was deleted long after it had expired.
EntryOf(p, r) ==
    /\ \A r1 \in accepted[p] : stamp[r1] <= stamp[r]
    /\ \/ expiresAt[p] = KeptUntil(p, stamp[r])
       \/ expiresAt[p] = NoTime /\ now >= KeptUntil(p, stamp[r]) + SweepLag

RetainedInv ==
    \A p \in Jwts : accepted[p] # {} => \E r \in accepted[p] : EntryOf(p, r)

IInv ==
    /\ TypeOK
    /\ SignedInv
    /\ WriteInv
    /\ StampInv
    /\ RetainedInv
    /\ AssertionAcceptedOnce
    /\ ReplayRefusedInWindow

-----------------------------------------------------------------------------
(* Times *)

\* DynamoDB's ttl, rounded up to seconds, is never before the expiry.
LEMMA TtlNotEarly ==
    ASSUME NEW e \in Nat
    PROVE  ((e + Second - 1) \div Second) * Second >= e
  <1> Second \in Nat \ {0}
    BY ReplayAssumption
  <1> DEFINE n == e + Second - 1
             q == n \div Second
  <1>1. n \in Nat /\ n >= e
    OBVIOUS
  <1>2. q \in Nat /\ n = Second * q + (n % Second) /\ n % Second \in 0 .. (Second - 1)
    OBVIOUS
  <1>3. q * Second >= e
    BY <1>1, <1>2
  <1>4. QED
    BY <1>3

\* The seconds of a clock are a natural number.
LEMMA SecondsType ==
    ASSUME NEW t \in Nat
    PROVE  Seconds(t) \in Nat
  <1> Second \in Nat \ {0}
    BY ReplayAssumption
  <1> QED
    BY DEF Seconds

\* What a client puts into a JWT is a natural number.
LEMMA ClaimsType == TypeOK => Claims \subseteq Nat
  <1> SUFFICES ASSUME TypeOK, NEW c \in Claims
               PROVE  c \in Nat
    OBVIOUS
  <1>1. Seconds(now) \in Nat
    BY SecondsType DEF TypeOK
  <1>2. ClockTolerance \in Nat /\ MaxLifetime \in Nat
    BY ReplayAssumption
  <1>3. QED
    BY <1>1, <1>2 DEF Claims

\* The end of the retention of a signed JWT is a time, of an assertion its exp.
LEMMA KeptUntilType ==
    ASSUME TypeOK, NEW p \in Jwts, claim[p] # NoTime, NEW t \in Nat
    PROVE  /\ KeptUntil(p, t) \in Nat
           /\ kind = "dpop_proof" => KeptUntil(p, t) = t + ProofJtiTtl
           /\ kind = "client_assertion" => KeptUntil(p, t) = claim[p] * Second
  <1>1. ProofJtiTtl \in Nat
    BY ReplayAssumption DEF ProofJtiTtl
  <1>2. claim[p] \in Nat /\ Second \in Nat
    BY ReplayAssumption DEF TypeOK
  <1>3. claim[p] * Second \in Nat
    BY <1>2
  <1>4. kind \in {"dpop_proof", "client_assertion"}
    BY ReplayAssumption DEF TypeOK
  <1>5. CASE kind = "dpop_proof"
    BY <1>1, <1>5 DEF KeptUntil, JtiTtl
  <1>6. CASE kind = "client_assertion"
    <2>1. KeptUntil(p, t) = t + (claim[p] * Second - t)
      BY <1>6 DEF KeptUntil, JtiTtl, AssertionTtl
    <2>2. KeptUntil(p, t) = claim[p] * Second
      BY <1>3, <2>1
    <2>3. QED
      BY <1>3, <1>6, <2>2
  <1>7. QED
    BY <1>4, <1>5, <1>6

\* Every store takes a jti for new only when its entry is gone or has expired.
LEMMA FreeMeansExpired ==
    ASSUME TypeOK, NEW p \in Jwts, NEW t \in Nat, JtiFree(p, t)
    PROVE  expiresAt[p] = NoTime \/ t > expiresAt[p]
  <1>1. expiresAt[p] \in Int /\ backend \in {"in-memory", "dynamodb", "firestore"}
    BY ReplayAssumption DEF TypeOK
  <1>2. CASE backend = "in-memory"
    BY <1>1, <1>2 DEF JtiFree, InMemoryDpopFree, InMemoryAssertionFree
  <1>3. CASE backend = "dynamodb"
    BY <1>1, <1>3 DEF JtiFree, DynamoDpopFree, DynamoAssertionFree
  <1>4. CASE backend = "firestore"
    <2>1. ~(expiresAt[p] # NoTime /\ t <= expiresAt[p])
      BY <1>4 DEF JtiFree, FirestoreDpopFree, FirestoreAssertionFree
    <2>2. QED
      BY <1>1, <2>1
  <1>5. QED
    BY <1>1, <1>2, <1>3, <1>4

-----------------------------------------------------------------------------
(* Type correctness *)

\* The outcome of a write keeps the types.
LEMMA SaveEffectType ==
    ASSUME TypeOK, SignedInv,
           NEW r \in Requests, NEW t \in Nat,
           pc[r] \in {"verified", "saving"},
           stamp' = [stamp EXCEPT ![r] = t],
           SaveEffect(r, t),
           UNCHANGED <<now, kind, backend, claim, jwt>>
    PROVE  TypeOK'
  <1>1. jwt[r] \in Jwts /\ claim[jwt[r]] # NoTime
    BY DEF TypeOK, SignedInv
  <1>2. KeptUntil(jwt[r], t) \in Int
    BY <1>1, KeptUntilType
  <1>3. CASE JtiFree(jwt[r], t)
    <2>1. /\ expiresAt' = [expiresAt EXCEPT ![jwt[r]] = KeptUntil(jwt[r], t)]
          /\ accepted' = [accepted EXCEPT ![jwt[r]] = @ \cup {r}]
          /\ pc' = [pc EXCEPT ![r] = "accepted"]
      BY <1>3 DEF SaveEffect, KeptUntil
    <2>2. QED
      BY <1>1, <1>2, <2>1 DEF TypeOK
  <1>4. CASE ~JtiFree(jwt[r], t)
    <2>1. pc' = [pc EXCEPT ![r] = "rejected"] /\ UNCHANGED <<expiresAt, accepted>>
      BY <1>4 DEF SaveEffect
    <2>2. QED
      BY <2>1 DEF TypeOK
  <1>5. QED
    BY <1>3, <1>4

\* The initial state satisfies the invariant: nothing was signed.
LEMMA InitInductive == Init => IInv
  BY DEF Init, IInv, TypeOK, SignedInv, WriteInv, StampInv, RetainedInv,
         AssertionAcceptedOnce, ReplayRefusedInWindow, NoTime

-----------------------------------------------------------------------------
(* The step that matters *)

\* A jti that was accepted is free again only after it can be accepted no more,
\* or after the window of its retention: an entry that is there would have to
\* have expired, and one that was deleted had expired before the write began.
LEMMA FreeIsLate ==
    ASSUME IInv, NEW p \in Jwts, NEW r \in accepted[p], EntryOf(p, r),
           NEW t \in Nat, now - t <= MaxRoundTrip, JtiFree(p, t)
    PROVE  KeptUntil(p, stamp[r]) < t
  <1>1. r \in Requests /\ pc[r] = "accepted" /\ jwt[r] = p
    BY DEF IInv, TypeOK
  <1>2. stamp[r] \in Nat /\ claim[p] # NoTime
    BY <1>1 DEF IInv, StampInv, SignedInv
  <1>3. PICK e \in Nat : e = KeptUntil(p, stamp[r])
    BY <1>2, KeptUntilType DEF IInv
  <1>4. now \in Nat /\ MaxRoundTrip \in Nat /\ SweepLag \in Nat /\ MaxRoundTrip < SweepLag
    BY ReplayAssumption DEF IInv, TypeOK
  <1>5. CASE expiresAt[p] = e
    <2>1. expiresAt[p] = NoTime \/ t > expiresAt[p]
      BY FreeMeansExpired DEF IInv
    <2>2. QED
      BY <1>3, <1>5, <2>1 DEF NoTime
  <1>6. CASE now >= e + SweepLag
    BY <1>3, <1>4, <1>6
  <1>7. QED
    BY <1>3, <1>5, <1>6 DEF EntryOf

\* The outcome of a write keeps the invariant: whoever is accepted after others
\* read the clock after their entry had expired, which an assertion does not
\* outlive.
LEMMA SaveEffectStep ==
    ASSUME IInv,
           NEW r \in Requests, NEW t \in Nat,
           pc[r] \in {"verified", "saving"},
           t <= now, now - t <= MaxRoundTrip, OutlivesSave(jwt[r], t),
           stamp' = [stamp EXCEPT ![r] = t],
           SaveEffect(r, t),
           UNCHANGED <<now, kind, backend, claim, jwt>>
    PROVE  IInv'
  <1> DEFINE p == jwt[r]
  <1>1. TypeOK /\ TypeOK'
    BY SaveEffectType DEF IInv
  <1>2. p \in Jwts /\ claim[p] # NoTime
    BY DEF IInv, TypeOK, SignedInv
  <1>3. pc'[r] \in {"accepted", "rejected"} /\ \A q \in Requests \ {r} : pc'[q] = pc[q]
    BY DEF IInv, TypeOK, SaveEffect
  <1>4. stamp'[r] = t /\ \A q \in Requests \ {r} : stamp'[q] = stamp[q]
    BY DEF IInv, TypeOK
  <1>5. SignedInv' /\ WriteInv' /\ StampInv'
    BY <1>3, <1>4
       DEF IInv, SignedInv, WriteInv, StampInv, OutlivesSave, AssertionTtl
  <1>6. \A x \in Jwts : r \notin accepted[x]
    BY DEF IInv, TypeOK
  <1>7. CASE ~JtiFree(p, t)
    <2>1. UNCHANGED <<expiresAt, accepted>>
      BY <1>7 DEF SaveEffect
    <2>2. \A x \in Jwts : \A q \in accepted[x] : stamp'[q] = stamp[q]
      BY <1>1, <1>4, <1>6 DEF TypeOK
    <2>3. RetainedInv'
      BY <2>1, <2>2 DEF IInv, RetainedInv, EntryOf, KeptUntil, JtiTtl, ProofJtiTtl, AssertionTtl
    <2>4. AssertionAcceptedOnce' /\ ReplayRefusedInWindow'
      BY <2>1, <2>2 DEF IInv, AssertionAcceptedOnce, ReplayRefusedInWindow
    <2>5. QED
      BY <1>1, <1>5, <2>3, <2>4 DEF IInv
  <1>8. CASE JtiFree(p, t)
    <2>1. /\ expiresAt' = [expiresAt EXCEPT ![p] = KeptUntil(p, t)]
          /\ accepted' = [accepted EXCEPT ![p] = @ \cup {r}]
      BY <1>8 DEF SaveEffect, KeptUntil
    <2>2. /\ expiresAt'[p] = KeptUntil(p, t) /\ accepted'[p] = accepted[p] \cup {r}
          /\ \A x \in Jwts \ {p} : expiresAt'[x] = expiresAt[x] /\ accepted'[x] = accepted[x]
      BY <1>1, <1>2, <2>1 DEF TypeOK
    <2>3. \A x \in Jwts : \A q \in accepted[x] : stamp'[q] = stamp[q] /\ stamp[q] \in Nat
      BY <1>1, <1>4, <1>6 DEF IInv, TypeOK, StampInv
    \* Everybody before lies a whole retention back.
    <2>4. ASSUME NEW q \in accepted[p]
          PROVE  /\ kind = "dpop_proof"
                 /\ t - stamp[q] > ProofJtiTtl
                 /\ stamp[q] <= t
      <3>1. PICK last \in accepted[p] : EntryOf(p, last)
        BY <1>2, <2>4 DEF IInv, RetainedInv
      <3>2. KeptUntil(p, stamp[last]) < t
        BY <1>2, <1>8, <3>1, FreeIsLate
      <3>3. stamp[last] \in Nat /\ stamp[q] \in Nat /\ stamp[q] <= stamp[last]
        BY <1>2, <2>3, <3>1 DEF EntryOf
      <3>4. kind \in {"dpop_proof", "client_assertion"}
        BY <1>1, ReplayAssumption DEF TypeOK
      <3>5. kind # "client_assertion"
        <4> SUFFICES ASSUME kind = "client_assertion"
                     PROVE  FALSE
          OBVIOUS
        <4>1. claim[p] * Second < t
          BY <1>1, <1>2, <3>2, <3>3, KeptUntilType
        <4>2. claim[p] * Second - t >= 1
          BY DEF OutlivesSave, AssertionTtl
        <4>3. claim[p] * Second \in Int
          BY <1>1, <1>2, ReplayAssumption DEF TypeOK
        <4>4. QED
          BY <4>1, <4>2, <4>3
      <3>6. stamp[last] + ProofJtiTtl < t
        BY <1>1, <1>2, <3>2, <3>3, <3>4, <3>5, KeptUntilType
      <3>7. ProofJtiTtl \in Nat
        BY ReplayAssumption DEF ProofJtiTtl
      <3>8. QED
        BY <3>3, <3>4, <3>5, <3>6, <3>7
    <2>5. RetainedInv'
      <3> SUFFICES ASSUME NEW x \in Jwts, accepted'[x] # {}
                   PROVE  \E q \in accepted'[x] : EntryOf(x, q)'
        BY DEF RetainedInv
      <3>1. CASE x = p
        <4>1. \A q \in accepted'[p] : stamp'[q] <= stamp'[r]
          BY <1>4, <2>2, <2>3, <2>4
        <4>2. expiresAt'[p] = KeptUntil(p, stamp'[r])
          BY <1>4, <2>2
        <4>3. EntryOf(p, r)'
          BY <4>1, <4>2 DEF EntryOf, KeptUntil, JtiTtl, ProofJtiTtl, AssertionTtl
        <4>4. QED
          BY <2>2, <3>1, <4>3
      <3>2. CASE x # p
        <4>1. PICK q \in accepted[x] : EntryOf(x, q)
          BY <2>2, <3>2 DEF IInv, RetainedInv
        <4>2. EntryOf(x, q)'
          BY <2>2, <2>3, <3>2, <4>1 DEF EntryOf, KeptUntil, JtiTtl, ProofJtiTtl, AssertionTtl
        <4>3. QED
          BY <2>2, <3>2, <4>2
      <3>3. QED
        BY <3>1, <3>2
    <2>6. AssertionAcceptedOnce'
      BY <2>2, <2>4 DEF IInv, AssertionAcceptedOnce
    <2>7. ReplayRefusedInWindow'
      <3> SUFFICES ASSUME kind = "dpop_proof", NEW x \in Jwts,
                          NEW r1 \in accepted'[x], NEW r2 \in accepted'[x],
                          r1 # r2, stamp'[r1] <= stamp'[r2]
                   PROVE  stamp'[r2] - stamp'[r1] > ProofJtiTtl
        BY DEF ReplayRefusedInWindow, ProofJtiTtl
      <3>1. CASE r1 \in accepted[x] /\ r2 \in accepted[x]
        BY <2>3, <3>1 DEF IInv, ReplayRefusedInWindow, ProofJtiTtl
      <3>2. CASE x = p /\ r2 = r /\ r1 \in accepted[p]
        BY <1>4, <2>3, <2>4, <3>2
      <3>3. CASE x = p /\ r1 = r /\ r2 \in accepted[p]
        <4>1. t <= stamp[r2] /\ t - stamp[r2] > ProofJtiTtl /\ stamp[r2] \in Nat
          BY <1>2, <1>4, <2>3, <2>4, <3>3
        <4>2. ProofJtiTtl \in Nat
          BY ReplayAssumption DEF ProofJtiTtl
        <4>3. QED
          BY <4>1, <4>2
      <3>4. QED
        BY <2>2, <3>1, <3>2, <3>3
    <2>8. QED
      BY <1>1, <1>5, <2>5, <2>6, <2>7 DEF IInv
  <1>9. QED
    BY <1>7, <1>8

-----------------------------------------------------------------------------
(* The other steps *)

\* Signing a JWT says nothing about those that were signed before.
LEMMA SignStep ==
    ASSUME IInv, NEW p \in Jwts, NEW c \in Claims, Sign(p, c)
    PROVE  IInv'
  <1> USE DEF Sign
  <1>1. c \in Nat
    BY ClaimsType DEF IInv
  <1>2. TypeOK'
    BY <1>1 DEF IInv, TypeOK
  <1>3. \A r \in Requests : pc[r] # "idle" => claim'[jwt[r]] = claim[jwt[r]]
    BY DEF IInv, TypeOK, SignedInv
  <1>4. SignedInv'
    BY <1>3 DEF IInv, SignedInv
  <1>5. WriteInv'
    BY <1>3 DEF IInv, WriteInv, OutlivesSave, AssertionTtl
  <1>6. RetainedInv'
    <2> SUFFICES ASSUME NEW x \in Jwts, accepted[x] # {}
                 PROVE  \E r \in accepted[x] : EntryOf(x, r)'
      BY DEF RetainedInv
    <2>1. PICK r \in accepted[x] : EntryOf(x, r)
      BY DEF IInv, RetainedInv
    <2>2. r \in Requests /\ pc[r] = "accepted" /\ jwt[r] = x
      BY DEF IInv, TypeOK
    <2>3. claim'[x] = claim[x]
      BY <1>3, <2>2
    <2>4. EntryOf(x, r)'
      BY <2>1, <2>3 DEF EntryOf, KeptUntil, JtiTtl, ProofJtiTtl, AssertionTtl
    <2>5. QED
      BY <2>4
  <1>7. QED
    BY <1>2, <1>4, <1>5, <1>6
       DEF IInv, StampInv, AssertionAcceptedOnce, ReplayRefusedInWindow

\* Time only makes a deleted entry older.
LEMMA TickStep == IInv /\ Tick => IInv'
  <1> SUFFICES ASSUME IInv, Tick
               PROVE  IInv'
    OBVIOUS
  <1> USE DEF Tick
  <1>1. now \in Nat /\ now' = now + 1 /\ now' \in Nat /\ {MaxRoundTrip, SweepLag} \subseteq Nat
    BY ReplayAssumption DEF IInv, TypeOK
  <1>2. TypeOK'
    BY <1>1 DEF IInv, TypeOK
  <1>3. WriteInv'
    <2> SUFFICES ASSUME NEW r \in Requests, pc[r] = "saving"
                 PROVE  /\ stamp[r] \in 0 .. now'
                        /\ now' - stamp[r] <= MaxRoundTrip
                        /\ OutlivesSave(jwt[r], stamp[r])
      BY DEF WriteInv, OutlivesSave, AssertionTtl
    <2>1. /\ stamp[r] \in 0 .. now /\ now - stamp[r] < MaxRoundTrip
          /\ OutlivesSave(jwt[r], stamp[r])
      BY DEF IInv, WriteInv
    <2>2. QED
      BY <1>1, <2>1
  <1>4. RetainedInv'
    <2> SUFFICES ASSUME NEW p \in Jwts, accepted[p] # {}
                 PROVE  \E r \in accepted[p] : EntryOf(p, r)'
      BY DEF RetainedInv
    <2>1. PICK r \in accepted[p] : EntryOf(p, r)
      BY DEF IInv, RetainedInv
    <2>2. r \in Requests /\ pc[r] = "accepted" /\ jwt[r] = p
      BY DEF IInv, TypeOK
    <2>3. stamp[r] \in Nat /\ claim[p] # NoTime
      BY <2>2 DEF IInv, StampInv, SignedInv
    <2>4. PICK e \in Nat : e = KeptUntil(p, stamp[r])
      BY <2>3, KeptUntilType DEF IInv
    <2>5. now >= e + SweepLag => now' >= e + SweepLag
      BY <1>1
    <2>6. EntryOf(p, r)'
      BY <2>1, <2>4, <2>5 DEF EntryOf, KeptUntil, JtiTtl, ProofJtiTtl, AssertionTtl
    <2>7. QED
      BY <2>6
  <1>5. QED
    BY <1>2, <1>3, <1>4
       DEF IInv, SignedInv, StampInv, AssertionAcceptedOnce, ReplayRefusedInWindow

\* DynamoDB deletes an entry when it has been expired for SweepLag.
LEMMA SweepStep ==
    ASSUME IInv, NEW p \in Jwts, TtlSweep(p)
    PROVE  IInv'
  <1> USE DEF TtlSweep
  <1>1. TypeOK'
    BY DEF IInv, TypeOK, NoTime
  <1>2. RetainedInv'
    <2> SUFFICES ASSUME NEW x \in Jwts, accepted[x] # {}
                 PROVE  \E r \in accepted[x] : EntryOf(x, r)'
      BY DEF RetainedInv
    <2>1. PICK r \in accepted[x] : EntryOf(x, r)
      BY DEF IInv, RetainedInv
    <2>2. CASE x # p
      <3>1. expiresAt'[x] = expiresAt[x]
        BY <2>2 DEF IInv, TypeOK
      <3>2. EntryOf(x, r)'
        BY <2>1, <3>1 DEF EntryOf, KeptUntil, JtiTtl, ProofJtiTtl, AssertionTtl
      <3>3. QED
        BY <3>2
    <2>3. CASE x = p
      <3>1. r \in Requests /\ pc[r] = "accepted" /\ jwt[r] = p
        BY <2>3 DEF IInv, TypeOK
      <3>2. stamp[r] \in Nat /\ claim[p] # NoTime
        BY <3>1 DEF IInv, StampInv, SignedInv
      <3>3. PICK e \in Nat : e = KeptUntil(p, stamp[r])
        BY <3>2, KeptUntilType DEF IInv
      <3>4. expiresAt[p] = e
        BY <2>1, <2>3, <3>3 DEF EntryOf
      <3>5. PICK up : up = ((e + Second - 1) \div Second) * Second
        OBVIOUS
      <3>6. now >= up + SweepLag
        BY <3>4, <3>5
      <3>7. up >= e /\ up \in Int
        BY <3>5, TtlNotEarly, ReplayAssumption
      <3>8. now >= e + SweepLag
        BY <3>6, <3>7, ReplayAssumption DEF IInv, TypeOK
      <3>9. expiresAt'[p] = NoTime
        BY DEF IInv, TypeOK
      <3>10. EntryOf(p, r)'
        BY <2>1, <2>3, <3>3, <3>8, <3>9
           DEF EntryOf, KeptUntil, JtiTtl, ProofJtiTtl, AssertionTtl
      <3>11. QED
        BY <2>3, <3>10
    <2>4. QED
      BY <2>2, <2>3
  <1>3. QED
    BY <1>1, <1>2
       DEF IInv, SignedInv, WriteInv, StampInv, OutlivesSave, AssertionTtl,
           AssertionAcceptedOnce, ReplayRefusedInWindow

\* A step that accepts nobody and leaves the entries alone keeps the invariant
\* if it keeps what is known of the requests.
LEMMA QuietStep ==
    ASSUME IInv, TypeOK', SignedInv', WriteInv', StampInv',
           UNCHANGED <<now, kind, backend, claim, expiresAt, accepted>>,
           \A p \in Jwts : \A r \in accepted[p] : stamp'[r] = stamp[r]
    PROVE  IInv'
  <1>1. RetainedInv'
    BY DEF IInv, RetainedInv, EntryOf, KeptUntil, JtiTtl, ProofJtiTtl, AssertionTtl
  <1>2. AssertionAcceptedOnce' /\ ReplayRefusedInWindow'
    BY DEF IInv, AssertionAcceptedOnce, ReplayRefusedInWindow
  <1>3. QED
    BY <1>1, <1>2 DEF IInv

\* The steps of a request before its write and after it keep the invariant.
LEMMA RequestStep ==
    ASSUME IInv, NEW r \in Requests,
           Verify(r) \/ RefuseExpired(r) \/ StartSave(r) \/ Fail(r)
    PROVE  IInv'
  <1> USE DEF IInv, TypeOK, SignedInv, WriteInv, StampInv
  <1>1. CASE Verify(r)
    <2>1. TypeOK' /\ SignedInv' /\ WriteInv' /\ StampInv'
      BY <1>1 DEF Verify, OutlivesSave, AssertionTtl
    <2>2. QED
      BY <1>1, <2>1, QuietStep DEF Verify
  <1>2. CASE RefuseExpired(r)
    <2>1. TypeOK' /\ SignedInv' /\ WriteInv' /\ StampInv'
      BY <1>2 DEF RefuseExpired, OutlivesSave, AssertionTtl
    <2>2. QED
      BY <1>2, <2>1, QuietStep DEF RefuseExpired
  <1>3. CASE StartSave(r)
    <2> USE <1>3 DEF StartSave
    <2>1. TypeOK' /\ SignedInv' /\ StampInv'
      OBVIOUS
    <2>2. WriteInv'
      <3> SUFFICES ASSUME NEW q \in Requests, pc'[q] = "saving"
                   PROVE  /\ stamp'[q] \in 0 .. now
                          /\ now - stamp'[q] <= MaxRoundTrip
                          /\ OutlivesSave(jwt[q], stamp'[q])
        BY DEF OutlivesSave, AssertionTtl
      <3>1. CASE q = r
        <4>1. stamp'[q] = now /\ OutlivesSave(jwt[q], now)
          BY <3>1
        <4>2. QED
          BY <4>1, ReplayAssumption
      <3>2. CASE q # r
        BY <3>2
      <3>3. QED
        BY <3>1, <3>2
    <2>3. \A p \in Jwts : \A q \in accepted[p] : stamp'[q] = stamp[q]
      OBVIOUS
    <2>4. QED
      BY <2>1, <2>2, <2>3, QuietStep
  <1>4. CASE Fail(r)
    <2>1. TypeOK' /\ SignedInv' /\ WriteInv' /\ StampInv'
      BY <1>4 DEF Fail, OutlivesSave, AssertionTtl
    <2>2. QED
      BY <1>4, <2>1, QuietStep DEF Fail
  <1>5. QED
    BY <1>1, <1>2, <1>3, <1>4

\* A write, in memory or on a database, keeps the invariant.
LEMMA SaveStep ==
    ASSUME IInv, NEW r \in Requests, SaveInMemory(r) \/ FinishSave(r)
    PROVE  IInv'
  <1>1. now \in Nat /\ MaxRoundTrip \in Nat
    BY ReplayAssumption DEF IInv, TypeOK
  <1>2. CASE SaveInMemory(r)
    <2>1. now - now <= MaxRoundTrip
      BY <1>1
    <2>2. /\ now \in Nat /\ now <= now /\ pc[r] = "verified"
          /\ OutlivesSave(jwt[r], now)
          /\ stamp' = [stamp EXCEPT ![r] = now]
          /\ SaveEffect(r, now)
          /\ UNCHANGED <<now, kind, backend, claim, jwt>>
      BY <1>1, <1>2 DEF SaveInMemory
    <2>3. QED
      BY <2>1, <2>2, SaveEffectStep
  <1>3. CASE FinishSave(r)
    <2>1. /\ stamp[r] \in Nat /\ stamp[r] <= now /\ now - stamp[r] <= MaxRoundTrip
          /\ OutlivesSave(jwt[r], stamp[r])
      BY <1>1, <1>3 DEF FinishSave, IInv, WriteInv
    <2>2. stamp' = [stamp EXCEPT ![r] = stamp[r]]
      BY <1>3 DEF FinishSave, IInv, TypeOK
    <2>3. QED
      BY <1>3, <2>1, <2>2, SaveEffectStep DEF FinishSave
  <1>4. QED
    BY <1>2, <1>3

\* Every step keeps the invariant.
LEMMA InductiveStep == IInv /\ [Next]_vars => IInv'
  <1> SUFFICES ASSUME IInv, [Next]_vars
               PROVE  IInv'
    OBVIOUS
  <1>1. CASE Tick
    BY <1>1, TickStep
  <1>2. ASSUME NEW p \in Jwts, TtlSweep(p)
        PROVE  IInv'
    BY <1>2, SweepStep
  <1>3. ASSUME NEW p \in Jwts, NEW c \in Claims, Sign(p, c)
        PROVE  IInv'
    BY <1>3, SignStep
  <1>4. ASSUME NEW r \in Requests,
               Verify(r) \/ RefuseExpired(r) \/ StartSave(r) \/ Fail(r)
        PROVE  IInv'
    BY <1>4, RequestStep
  <1>5. ASSUME NEW r \in Requests, SaveInMemory(r) \/ FinishSave(r)
        PROVE  IInv'
    BY <1>5, SaveStep
  <1>6. CASE UNCHANGED vars
    BY <1>6, QuietStep
       DEF vars, IInv, TypeOK, SignedInv, WriteInv, StampInv, OutlivesSave, AssertionTtl
  <1>7. QED
    BY <1>1, <1>2, <1>3, <1>4, <1>5, <1>6 DEF Next

-----------------------------------------------------------------------------
\* The invariant holds in every reachable state.
THEOREM InvariantHolds == Spec => []IInv
  BY InitInductive, InductiveStep, PTL DEF Spec

\* Type correctness, the history of acceptances included: it is what the
\* requests' program counters say.
THEOREM TypeCorrect == Spec => []TypeOK
  <1>1. IInv => TypeOK
    BY DEF IInv
  <1>2. QED
    BY <1>1, InvariantHolds, PTL

\* A client assertion authenticates one token request, whatever its lifetime,
\* the skew and the store (saveIfAbsent() of the assertion jti stores).
THEOREM AssertionAcceptedOnceHolds == Spec => []AssertionAcceptedOnce
  <1>1. IInv => AssertionAcceptedOnce
    BY DEF IInv
  <1>2. QED
    BY <1>1, InvariantHolds, PTL

\* A DPoP proof is refused for maxTokenAge + clockTolerance after it was
\* accepted (saveIfAbsent() of the DPoP proof jti stores).
THEOREM ReplayRefusedInWindowHolds == Spec => []ReplayRefusedInWindow
  <1>1. IInv => ReplayRefusedInWindow
    BY DEF IInv
  <1>2. QED
    BY <1>1, InvariantHolds, PTL

=============================================================================
