-------------------------- MODULE PreAuthCodeStore --------------------------
(***************************************************************************)
(* The pre-authorized code store on a shared database: the DynamoDB and    *)
(* the Firestore provider.  Both run consume() as the same protocol, a     *)
(* conditional increment of `attempts` (the admission gate), a local       *)
(* evaluation of the returned item, and a delete, each of the three a      *)
(* separate round trip.  Any number of server processes call consume() on  *)
(* the same code, and a process or a round trip may fail at any of them.   *)
(* When only the answer of a round trip is lost, the client library (the   *)
(* SDK's retry of UpdateItem, Firestore's re-run of a transaction) sends   *)
(* the same write again, and neither provider makes it idempotent.         *)
(*                                                                         *)
(* Time is counted in ticks; Second is the number of ticks the database's  *)
(* own TTL attribute, which is kept in seconds, cannot tell apart.         *)
(***************************************************************************)
EXTENDS CodeStore

CONSTANTS Texts,              \* the texts a tx_code may consist of
          InputModes,         \* the tx_code_input_modes that occur
          Second              \* ticks per second

ASSUME CodeStoreAssumption ==
    /\ Codes # {}
    /\ MaxTxCodeAttempts \in Nat \ {0}
    /\ TtlSec \in Nat \ {0}
    /\ Second \in Nat \ {0}
    /\ MaxNow \in Nat
    /\ Digits \subseteq Texts
    /\ TxInput \subseteq [type : {"string", "number"}, text : Texts]
    /\ InputModes \subseteq {"numeric", "text"}
    /\ NoText \notin Texts
    /\ Backends \subseteq {"memory", "dynamodb", "firestore"}
    /\ IsFiniteSet(Requests)

VARIABLES pc,        \* request -> where consume() is
          seen,      \* request -> attempts in the item the gate returned
          unanswered \* history: code -> attempts counted whose answer was lost

vars == <<backend, now, issued, stored, entry, attempts, unanswered, pc, call, seen,
          reply, admitted, redeemed>>

storeVars == <<backend, issued, stored, entry, attempts, unanswered>>

-----------------------------------------------------------------------------
(* Data *)

\* An HMAC under the server's pepper: equal exactly for equal texts.
hashTxCode(text) == [hmac |-> text]

\* The tx_code_hash attribute save() writes; NoTxCode is its absence.
TxHash(mode, tx) ==
    IF tx = NoTxCode THEN NoTxCode
    ELSE IF mode # "text" THEN hashTxCode(toDigitString(tx))
                          ELSE hashTxCode(tx.text)

Hashes == {hashTxCode(t) : t \in Texts} \cup {NoTxCode}

Entry == [mode : {"numeric", "text"}, tx_code_hash : Hashes,
          expires_at : Nat, ttl : Nat]

NoEntry == [mode |-> "numeric", tx_code_hash |-> NoTxCode,
            expires_at |-> 0, ttl |-> 0]

Call == [code : Codes, tx : TxCode, at : Nat]

Labels == {"idle", "gate", "evaluate", "expire", "lockout", "redeem", "done"}

\* Places where a round trip to the database is under way or about to start.
InFlight == {"gate", "evaluate", "expire", "lockout", "redeem"}

Replies == {"none", "ok", "invalid_grant", "invalid_request", "failure"}

\* Mutant: Math.floor(expires_at / 1000).
TtlOfFloor(t) == t \div Second

\* Math.ceil(expires_at / 1000)
TtlOf(t) == (t + Second - 1) \div Second

-----------------------------------------------------------------------------
(* Guards of the database operations *)

\* Mutant: #attempts <= :max.
DynamoGateOffByOne(c) == c \in stored /\ attempts[c] <= MaxTxCodeAttempts

\* attribute_exists(id) AND (attribute_not_exists(#attempts) OR #attempts < :max)
DynamoGate(c) == c \in stored /\ attempts[c] < MaxTxCodeAttempts

\* The transaction reads the document, then merges attempts + 1 into it.
FirestoreGate(c) == c \in stored /\ ~(attempts[c] >= MaxTxCodeAttempts)

Admits(c) == IF backend = "dynamodb" THEN DynamoGate(c) ELSE FirestoreGate(c)

DynamoExpired(c)    == now > entry[c].expires_at
FirestoreExpired(c) == entry[c].expires_at <= now

Expired(c) == IF backend = "dynamodb" THEN DynamoExpired(c)
                                      ELSE FirestoreExpired(c)

\* The comparison of the submitted tx_code with the stored hash.
Verdict(e, tx) ==
    IF e.tx_code_hash # NoTxCode
    THEN IF tx = NoTxCode THEN "missing"
         ELSE IF e.mode # "text"
         THEN IF \/ toDigitString(tx) = NoText
                 \/ e.tx_code_hash # hashTxCode(toDigitString(tx))
              THEN "mismatch" ELSE "match"
         ELSE IF \/ tx.type # "string"
                 \/ e.tx_code_hash # hashTxCode(tx.text)
              THEN "mismatch" ELSE "match"
    ELSE IF tx # NoTxCode THEN "unexpected" ELSE "match"

-----------------------------------------------------------------------------
Init ==
    /\ backend \in Backends \ {"memory"}
    /\ now = 0
    /\ issued = {}
    /\ stored = {}
    /\ entry = [c \in Codes |-> NoEntry]
    /\ attempts = [c \in Codes |-> 0]
    /\ unanswered = [c \in Codes |-> 0]
    /\ pc = [r \in Requests |-> "idle"]
    /\ call = [r \in Requests |-> NoCall]
    /\ seen = [r \in Requests |-> 0]
    /\ reply = [r \in Requests |-> "none"]
    /\ admitted = [c \in Codes |-> {}]
    /\ redeemed = [c \in Codes |-> {}]

Tick ==
    /\ now < MaxNow
    /\ now' = now + 1
    /\ UNCHANGED <<storeVars, pc, call, seen, reply, admitted, redeemed>>

\* Mutant: toDigitString() === null is not refused.
SaveUnchecked(c, mode, tx) ==
    /\ c \notin issued
    /\ LET expires_at == now + TtlSec * Second
       IN  entry' = [entry EXCEPT ![c] =
                        [mode |-> mode, tx_code_hash |-> TxHash(mode, tx),
                         expires_at |-> expires_at, ttl |-> TtlOf(expires_at)]]
    /\ issued' = issued \cup {c}
    /\ stored' = stored \cup {c}
    /\ UNCHANGED <<backend, now, attempts, unanswered, pc, call, seen, reply,
                   admitted, redeemed>>

\* save(): a numeric tx_code that is not a digit string raises invalid_tx_code
\* before anything is written.
Save(c, mode, tx) ==
    /\ c \notin issued
    /\ (tx # NoTxCode /\ mode # "text") => toDigitString(tx) # NoText
    /\ LET expires_at == now + TtlSec * Second
       IN  entry' = [entry EXCEPT ![c] =
                        [mode |-> mode, tx_code_hash |-> TxHash(mode, tx),
                         expires_at |-> expires_at, ttl |-> TtlOf(expires_at)]]
    /\ issued' = issued \cup {c}
    /\ stored' = stored \cup {c}
    /\ UNCHANGED <<backend, now, attempts, unanswered, pc, call, seen, reply,
                   admitted, redeemed>>

\* consume(code, tx_code) is called; the gate's round trip begins.
Consume(r, c, tx) ==
    /\ pc[r] = "idle"
    /\ pc' = [pc EXCEPT ![r] = "gate"]
    /\ call' = [call EXCEPT ![r] = [code |-> c, tx |-> tx, at |-> now]]
    /\ UNCHANGED <<now, storeVars, seen, reply, admitted, redeemed>>

Finish(r, answer) ==
    /\ pc' = [pc EXCEPT ![r] = "done"]
    /\ reply' = [reply EXCEPT ![r] = answer]

\* The conditional update succeeds and returns the new item.
GateAdmit(r) ==
    LET c == call[r].code
    IN  /\ pc[r] = "gate"
        /\ Admits(c)
        /\ attempts' = [attempts EXCEPT ![c] = @ + 1]
        /\ seen' = [seen EXCEPT ![r] = attempts[c] + 1]
        /\ admitted' = [admitted EXCEPT ![c] = @ \cup {r}]
        /\ pc' = [pc EXCEPT ![r] = "evaluate"]
        /\ UNCHANGED <<backend, now, issued, stored, entry, unanswered, call, reply,
                       redeemed>>

\* The update takes effect but its answer is lost: ADD #attempts :one is sent again,
\* or the transaction run again, and may count another attempt of the same call,
\* find the limit reached, or give up.
GateUnanswered(r) ==
    LET c == call[r].code
    IN  /\ pc[r] = "gate"
        /\ Admits(c)
        /\ attempts' = [attempts EXCEPT ![c] = @ + 1]
        /\ unanswered' = [unanswered EXCEPT ![c] = @ + 1]
        /\ UNCHANGED <<backend, now, issued, stored, entry, pc, call, seen, reply,
                       admitted,
                       redeemed>>

\* The condition fails: not found, consumed, or locked.
GateReject(r) ==
    /\ pc[r] = "gate"
    /\ ~Admits(call[r].code)
    /\ Finish(r, "invalid_grant")
    /\ UNCHANGED <<now, storeVars, call, seen, admitted, redeemed>>

\* The item is past its expiry: delete it, then raise.
EvaluateExpired(r) ==
    /\ pc[r] = "evaluate"
    /\ Expired(call[r].code)
    /\ pc' = [pc EXCEPT ![r] = "expire"]
    /\ UNCHANGED <<now, storeVars, call, seen, reply, admitted, redeemed>>

\* Mutant: any refused tx_code deletes the code.
EvaluateLockoutAtOnce(r) ==
    /\ pc[r] = "evaluate"
    /\ ~Expired(call[r].code)
    /\ Verdict(entry[call[r].code], call[r].tx) # "match"
    /\ pc' = [pc EXCEPT ![r] = "lockout"]
    /\ UNCHANGED <<now, storeVars, call, seen, reply, admitted, redeemed>>

\* The tx_code is refused and this was the last attempt: lockoutIfExhausted()
\* deletes the code before it raises.
EvaluateLockout(r) ==
    /\ pc[r] = "evaluate"
    /\ ~Expired(call[r].code)
    /\ Verdict(entry[call[r].code], call[r].tx) # "match"
    /\ seen[r] >= MaxTxCodeAttempts
    /\ pc' = [pc EXCEPT ![r] = "lockout"]
    /\ UNCHANGED <<now, storeVars, call, seen, reply, admitted, redeemed>>

\* The tx_code is refused and attempts remain.
EvaluateRefuse(r) ==
    /\ pc[r] = "evaluate"
    /\ ~Expired(call[r].code)
    /\ Verdict(entry[call[r].code], call[r].tx) # "match"
    /\ seen[r] < MaxTxCodeAttempts
    /\ Finish(r, Refusal(Verdict(entry[call[r].code], call[r].tx)))
    /\ UNCHANGED <<now, storeVars, call, seen, admitted, redeemed>>

\* Mutant: the manual expiry check is left to the database's TTL.
EvaluateMatchAnytime(r) ==
    /\ pc[r] = "evaluate"
    /\ Verdict(entry[call[r].code], call[r].tx) = "match"
    /\ pc' = [pc EXCEPT ![r] = "redeem"]
    /\ UNCHANGED <<now, storeVars, call, seen, reply, admitted, redeemed>>

EvaluateMatch(r) ==
    /\ pc[r] = "evaluate"
    /\ ~Expired(call[r].code)
    /\ Verdict(entry[call[r].code], call[r].tx) = "match"
    /\ pc' = [pc EXCEPT ![r] = "redeem"]
    /\ UNCHANGED <<now, storeVars, call, seen, reply, admitted, redeemed>>

\* deleteCode(code): unconditional, for an expired or a locked code.
DeleteUnconditional(r) ==
    /\ pc[r] \in {"expire", "lockout"}
    /\ stored' = stored \ {call[r].code}
    /\ Finish(r, "invalid_grant")
    /\ UNCHANGED <<backend, now, issued, entry, attempts, unanswered, call, seen,
                   admitted,
                   redeemed>>

\* Mutant: deleteCode(code) without its condition.
DeleteBlind(r) ==
    LET c == call[r].code
    IN  /\ pc[r] = "redeem"
        /\ stored' = stored \ {c}
        /\ redeemed' = [redeemed EXCEPT ![c] = @ \cup {r}]
        /\ Finish(r, "ok")
        /\ UNCHANGED <<backend, now, issued, entry, attempts, unanswered, call, seen,
                       admitted>>

\* deleteCode(code, true) finds the item: the code is this request's.
DeleteWon(r) ==
    LET c == call[r].code
    IN  /\ pc[r] = "redeem"
        /\ c \in stored
        /\ stored' = stored \ {c}
        /\ redeemed' = [redeemed EXCEPT ![c] = @ \cup {r}]
        /\ Finish(r, "ok")
        /\ UNCHANGED <<backend, now, issued, entry, attempts, unanswered, call, seen,
                       admitted>>

\* deleteCode(code, true) finds no item: another request consumed it.
DeleteLost(r) ==
    /\ pc[r] = "redeem"
    /\ call[r].code \notin stored
    /\ Finish(r, "invalid_grant")
    /\ UNCHANGED <<now, storeVars, call, seen, admitted, redeemed>>

\* A delete takes effect but its answer never arrives.  The client library sends
\* it again (and finds no item) or gives up.
DeleteUnanswered(r) ==
    LET c == call[r].code
    IN  /\ pc[r] \in {"expire", "lockout", "redeem"}
        /\ c \in stored
        /\ stored' = stored \ {c}
        /\ redeemed' = [redeemed EXCEPT ![c] = IF pc[r] = "redeem" THEN @ \cup {r} ELSE @]
        /\ UNCHANGED <<backend, now, issued, entry, attempts, unanswered, pc, call,
                       seen, reply,
                       admitted>>

\* The process dies or the client library throws; nothing is undone.
Fail(r) ==
    /\ pc[r] \in InFlight
    /\ Finish(r, "failure")
    /\ UNCHANGED <<now, storeVars, call, seen, admitted, redeemed>>

\* DynamoDB's own TTL deletion, at any time after the ttl attribute.
TtlSweep(c) ==
    /\ backend = "dynamodb"
    /\ c \in stored
    /\ now >= entry[c].ttl * Second
    /\ stored' = stored \ {c}
    /\ UNCHANGED <<backend, now, issued, entry, attempts, unanswered, pc, call, seen,
                   reply,
                   admitted, redeemed>>

Next ==
    \/ Tick
    \/ \E c \in Codes : TtlSweep(c)
    \/ \E c \in Codes, mode \in InputModes, tx \in TxCode : Save(c, mode, tx)
    \/ \E r \in Requests, c \in Codes, tx \in TxCode : Consume(r, c, tx)
    \/ \E r \in Requests :
        \/ GateAdmit(r) \/ GateUnanswered(r) \/ GateReject(r)
        \/ EvaluateExpired(r) \/ EvaluateLockout(r)
        \/ EvaluateRefuse(r) \/ EvaluateMatch(r)
        \/ DeleteUnconditional(r) \/ DeleteWon(r) \/ DeleteLost(r)
        \/ DeleteUnanswered(r) \/ Fail(r)

Spec == Init /\ [][Next]_vars

-----------------------------------------------------------------------------
(* Properties *)

TypeOK ==
    /\ backend \in {"dynamodb", "firestore"}
    /\ now \in Nat
    /\ issued \subseteq Codes
    /\ stored \subseteq issued
    /\ entry \in [Codes -> Entry]
    /\ attempts \in [Codes -> Nat]
    /\ unanswered \in [Codes -> Nat]
    /\ pc \in [Requests -> Labels]
    /\ call \in [Requests -> Call]
    /\ seen \in [Requests -> Nat]
    /\ reply \in [Requests -> Replies]
    /\ admitted \in [Codes -> SUBSET Requests]
    /\ redeemed \in [Codes -> SUBSET Requests]

\* A code is handed out once: no two consume() calls on one code both return
\* its credential configurations, however their round trips interleave
\* (conditional delete, "prevent the code from being consumed twice").
RedeemedOnce ==
    \A r1, r2 \in Requests :
        /\ reply[r1] = "ok"
        /\ reply[r2] = "ok"
        /\ call[r1].code = call[r2].code
        => r1 = r2

\* Brute-force bound: of all the calls ever made on a code, at most
\* maxTxCodeAttempts get past the gate to have their tx_code compared, in any
\* burst and whatever calls fail in between.
AttemptsBounded ==
    \A c \in Codes : Cardinality(admitted[c]) <= MaxTxCodeAttempts

\* Whoever obtains a code sent the tx_code it was saved with and called before
\* the code expired: the copy of the item evaluated after the gate is not
\* outdated by the time the delete takes effect.
RedemptionLegitimate ==
    backend # "memory" =>
      \A r \in Requests : reply[r] = "ok" =>
        /\ Verdict(entry[call[r].code], call[r].tx) = "match"
        /\ call[r].at <= entry[call[r].code].expires_at

\* A code disappears only for a reason: it was redeemed, its life is over, or
\* all its attempts were used and a call that passed the gate was refused.  An
\* attempt is used by a call that passes the gate, or by an increment whose answer
\* was lost: the call behind it is counted again when it is sent again.  An
\* unconditional delete of one request never destroys a code under another
\* request otherwise, and the database's TTL never fires early.
NoCodeLostWithoutCause ==
    backend # "memory" =>
      \A c \in issued \ stored :
        \/ redeemed[c] # {}
        \/ now >= entry[c].expires_at
        \/ /\ Cardinality(admitted[c]) + unanswered[c] = MaxTxCodeAttempts
           /\ \E r \in admitted[c] : Verdict(entry[c], call[r].tx) # "match"

=============================================================================
