---------------------------- MODULE ReplayGuard -----------------------------
(***************************************************************************)
(* Replay protection of the two signed JWTs the authorization server takes *)
(* at its endpoints: the private_key_jwt client assertion and the DPoP     *)
(* proof.  Each carries a jti that a shared store remembers for a while    *)
(* (saveIfAbsent); a JWT is accepted when it passes its time checks and    *)
(* its jti is not remembered.                                              *)
(*                                                                         *)
(* The time check, the start of saveIfAbsent() (which reads the clock) and *)
(* the effect of its write are three moments, with an await before each of *)
(* the last two.  Time is counted in ticks; Second ticks make the second   *)
(* that iat and exp are rounded to.                                        *)
(***************************************************************************)
EXTENDS Integers, FiniteSets

CONSTANTS Jwts,           \* the JWTs in circulation, each with its own jti
          Requests,       \* presentations of a JWT to the server
          Kinds,          \* the JWTs looked at: client assertions, DPoP proofs
          Backends,       \* the stores the server may be configured with
          Second,         \* ticks per second
          MaxTokenAge,    \* DPoP: seconds
          ClockTolerance, \* seconds
          MaxLifetime,    \* seconds a client puts between now and exp
          MaxRoundTrip,   \* ticks a write may be under way
          SweepLag,       \* ticks DynamoDB's TTL deletion lags at least
          MaxNow          \* bound on the clock

\* A write is over before DynamoDB gets round to deleting an expired item.
ASSUME ReplayAssumption ==
    /\ Kinds \subseteq {"client_assertion", "dpop_proof"}
    /\ Backends \subseteq {"in-memory", "dynamodb", "firestore"}
    /\ Second \in Nat \ {0}
    /\ {MaxTokenAge, ClockTolerance, MaxLifetime} \subseteq Nat
    /\ {MaxRoundTrip, SweepLag, MaxNow} \subseteq Nat
    /\ MaxRoundTrip < SweepLag

NoTime == -1

VARIABLES now,        \* Date.now()
          kind,       \* which of the two JWTs
          backend,    \* the configured store
          claim,      \* JWT -> its iat (DPoP) or exp (assertion); NoTime: unsigned yet
          expiresAt,  \* JWT -> expires_at of its jti's entry; NoTime: no entry
          pc,         \* request -> where it is
          jwt,        \* request -> the JWT presented
          stamp,      \* request -> the clock read by saveIfAbsent()
          accepted    \* history: JWT -> requests that were accepted with it

vars == <<now, kind, backend, claim, expiresAt, pc, jwt, stamp, accepted>>

-----------------------------------------------------------------------------
(* Time checks *)

Seconds(t) == t \div Second

\* jwtVerify with maxTokenAge and clockTolerance.
IatValid(iat, t) ==
    LET age == Seconds(t) - iat
    IN  /\ age - ClockTolerance <= MaxTokenAge
        /\ age >= -ClockTolerance

\* jwtVerify with clockTolerance: exp > now - tolerance.
ExpValid(exp, t) == exp > Seconds(t) - ClockTolerance

\* The check of a presented JWT.
TimeValid(p, t) == IF kind = "dpop_proof" THEN IatValid(claim[p], t)
                                          ELSE ExpValid(claim[p], t)

\* Mutant: the tolerance is left out of the retention.
ProofJtiTtlShort == MaxTokenAge * Second

\* proofJtiTtlMs
ProofJtiTtl == (MaxTokenAge + ClockTolerance) * Second

\* verification.exp * 1000 - Date.now()
AssertionTtl(p, t) == claim[p] * Second - t

JtiTtl(p, t) == IF kind = "dpop_proof" THEN ProofJtiTtl ELSE AssertionTtl(p, t)

\* Mutant: jwtVerify's own exp check is relied on.
OutlivesSaveAlways(p, t) == TRUE

\* An assertion whose remaining lifetime is below one tick is refused.
OutlivesSave(p, t) == kind = "client_assertion" => AssertionTtl(p, t) >= 1

-----------------------------------------------------------------------------
(* When saveIfAbsent() treats a jti as new *)

\* cleanupExpired() drops the entry when now > expiresAt.
InMemoryDpopFree(e, t)      == e = NoTime \/ t > e
InMemoryAssertionFree(e, t) == e = NoTime \/ t > e

\* attribute_not_exists(id) OR expires_at < :now
DynamoDpopFree(e, t)      == e = NoTime \/ e < t
DynamoAssertionFree(e, t) == e = NoTime \/ e < t

\* doc.exists and now <= expires_at means used.
FirestoreDpopFree(e, t)      == ~(e # NoTime /\ t <= e)
FirestoreAssertionFree(e, t) == ~(e # NoTime /\ t <= e)

JtiFree(p, t) ==
    LET e == expiresAt[p]
    IN  CASE backend = "in-memory" /\ kind = "dpop_proof" -> InMemoryDpopFree(e, t)
          [] backend = "in-memory" /\ kind # "dpop_proof" -> InMemoryAssertionFree(e, t)
          [] backend = "dynamodb"  /\ kind = "dpop_proof" -> DynamoDpopFree(e, t)
          [] backend = "dynamodb"  /\ kind # "dpop_proof" -> DynamoAssertionFree(e, t)
          [] backend = "firestore" /\ kind = "dpop_proof" -> FirestoreDpopFree(e, t)
          [] backend = "firestore" /\ kind # "dpop_proof" -> FirestoreAssertionFree(e, t)

-----------------------------------------------------------------------------
Init ==
    /\ now = 0
    /\ kind \in Kinds
    /\ backend \in Backends
    /\ claim = [p \in Jwts |-> NoTime]
    /\ expiresAt = [p \in Jwts |-> NoTime]
    /\ pc = [r \in Requests |-> "idle"]
    /\ jwt \in [Requests -> Jwts]
    /\ stamp = [r \in Requests |-> NoTime]
    /\ accepted = [p \in Jwts |-> {}]

\* Time passes, but no write stays under way longer than MaxRoundTrip.
Tick ==
    /\ now < MaxNow
    /\ \A r \in Requests : pc[r] = "saving" => now - stamp[r] < MaxRoundTrip
    /\ now' = now + 1
    /\ UNCHANGED <<kind, backend, claim, expiresAt, pc, jwt, stamp, accepted>>

\* A client signs a JWT.  Its clock may differ from the server's: a DPoP
\* proof's iat lies anywhere in the tolerated skew.
Sign(p, c) ==
    /\ claim[p] = NoTime
    /\ claim' = [claim EXCEPT ![p] = c]
    /\ UNCHANGED <<now, kind, backend, expiresAt, pc, jwt, stamp, accepted>>

\* The JWT arrives and its signature and claims are verified.
Verify(r) ==
    /\ pc[r] = "idle"
    /\ claim[jwt[r]] # NoTime
    /\ pc' = [pc EXCEPT ![r] = IF TimeValid(jwt[r], now) THEN "verified"
                                                         ELSE "rejected"]
    /\ UNCHANGED <<now, kind, backend, claim, expiresAt, jwt, stamp, accepted>>

\* Mutant: a write whose response was lost is sent again.
SaveEffectRetried(r, t) ==
    LET p == jwt[r]
    IN  IF JtiFree(p, t)
        THEN /\ expiresAt' = [expiresAt EXCEPT ![p] = t + JtiTtl(p, t)]
             /\ accepted' = [accepted EXCEPT ![p] = @ \cup {r}]
             /\ pc' = [pc EXCEPT ![r] = "saving"]
        ELSE /\ pc' = [pc EXCEPT ![r] = "rejected"]
             /\ UNCHANGED <<expiresAt, accepted>>

\* The outcome of the write: the jti is remembered, or it already was.
SaveEffect(r, t) ==
    LET p == jwt[r]
    IN  IF JtiFree(p, t)
        THEN /\ expiresAt' = [expiresAt EXCEPT ![p] = t + JtiTtl(p, t)]
             /\ accepted' = [accepted EXCEPT ![p] = @ \cup {r}]
             /\ pc' = [pc EXCEPT ![r] = "accepted"]
        ELSE /\ pc' = [pc EXCEPT ![r] = "rejected"]
             /\ UNCHANGED <<expiresAt, accepted>>

\* The assertion has no lifetime left by now: client_assertion has expired.
RefuseExpired(r) ==
    /\ pc[r] = "verified"
    /\ ~OutlivesSave(jwt[r], now)
    /\ pc' = [pc EXCEPT ![r] = "rejected"]
    /\ UNCHANGED <<now, kind, backend, claim, expiresAt, jwt, stamp, accepted>>

\* saveIfAbsent() on the in-memory map: no await in it.
SaveInMemory(r) ==
    /\ pc[r] = "verified"
    /\ backend = "in-memory"
    /\ OutlivesSave(jwt[r], now)
    /\ stamp' = [stamp EXCEPT ![r] = now]
    /\ SaveEffect(r, now)
    /\ UNCHANGED <<now, kind, backend, claim, jwt>>

\* saveIfAbsent() on a database reads the clock and sends the write.
StartSave(r) ==
    /\ pc[r] = "verified"
    /\ backend # "in-memory"
    /\ OutlivesSave(jwt[r], now)
    /\ stamp' = [stamp EXCEPT ![r] = now]
    /\ pc' = [pc EXCEPT ![r] = "saving"]
    /\ UNCHANGED <<now, kind, backend, claim, expiresAt, jwt, accepted>>

\* The conditional put, or the transaction, takes effect.
FinishSave(r) ==
    /\ pc[r] = "saving"
    /\ SaveEffect(r, stamp[r])
    /\ UNCHANGED <<now, kind, backend, claim, jwt, stamp>>

\* The process dies or the write is never applied; the client sees an error.
Fail(r) ==
    /\ pc[r] \in {"verified", "saving"}
    /\ pc' = [pc EXCEPT ![r] = "rejected"]
    /\ UNCHANGED <<now, kind, backend, claim, expiresAt, jwt, stamp, accepted>>

\* DynamoDB's TTL deletion of the item with ttl = ceil(expires_at).
TtlSweep(p) ==
    /\ backend = "dynamodb"
    /\ expiresAt[p] # NoTime
    /\ now >= ((expiresAt[p] + Second - 1) \div Second) * Second + SweepLag
    /\ expiresAt' = [expiresAt EXCEPT ![p] = NoTime]
    /\ UNCHANGED <<now, kind, backend, claim, pc, jwt, stamp, accepted>>

\* The iat or exp a client may put into a JWT it signs now.
Claims ==
    IF kind = "dpop_proof"
    THEN {c \in 0 .. Seconds(now) + ClockTolerance : c >= Seconds(now) - ClockTolerance}
    ELSE {Seconds(now) + k : k \in 1 .. MaxLifetime}

Next ==
    \/ Tick
    \/ \E p \in Jwts : TtlSweep(p) \/ \E c \in Claims : Sign(p, c)
    \/ \E r \in Requests : \/ Verify(r)
                           \/ RefuseExpired(r)
                           \/ SaveInMemory(r)
                           \/ StartSave(r)
                           \/ FinishSave(r)
                           \/ Fail(r)

Spec == Init /\ [][Next]_vars

-----------------------------------------------------------------------------
(* Properties *)

TypeOK ==
    /\ now \in Nat
    /\ kind \in Kinds
    /\ backend \in Backends
    /\ claim \in [Jwts -> Nat \cup {NoTime}]
    /\ expiresAt \in [Jwts -> Int]
    /\ pc \in [Requests -> {"idle", "verified", "saving", "accepted", "rejected"}]
    /\ jwt \in [Requests -> Jwts]
    /\ stamp \in [Requests -> Nat \cup {NoTime}]
    /\ accepted = [p \in Jwts |->
                      {r \in Requests : pc[r] = "accepted" /\ jwt[r] = p}]

\* A client assertion authenticates one token request, ever: its jti is
\* remembered for as long as the assertion itself can pass, although the exp
\* check tolerates skew, runs earlier than the save, and the database deletes
\* expired entries on its own.
AssertionAcceptedOnce ==
    kind = "client_assertion" =>
        \A p \in Jwts : \A r1, r2 \in accepted[p] : r1 = r2

\* A DPoP proof presented again within maxTokenAge + clockTolerance of its
\* first acceptance is refused, whatever the order of the two writes.  (A proof
\* stays valid for longer than its jti is kept: by up to a second, as ages are
\* rounded down, and another clockTolerance if its iat lies in the future.)
ReplayRefusedInWindow ==
    kind = "dpop_proof" =>
        \A p \in Jwts : \A r1, r2 \in accepted[p] :
            (r1 # r2 /\ stamp[r1] <= stamp[r2]) =>
                stamp[r2] - stamp[r1] > (MaxTokenAge + ClockTolerance) * Second

=============================================================================
