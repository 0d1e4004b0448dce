-------------------------- MODULE CodeStoreProofs ---------------------------
(***************************************************************************)
(* Proofs about the stores for pre-authorized codes, for any number of     *)
(* codes and requests, any limit and any clock.  Of PreAuthCodeStore: the  *)
(* type invariant, the safety invariants and the refinement of             *)
(* CodeRedemption.  Of InMemoryCodeStore, whose names begin with Memory:   *)
(* the safety invariants and the same refinement, restarts included.       *)
(***************************************************************************)
EXTENDS PreAuthCodeStore, InMemoryCodeStore, FiniteSetTheorems, TLAPS

PastGate == {"evaluate", "expire", "lockout", "redeem"}

\* A request that is past the gate is accounted for in the code's history.
GateInv ==
    /\ \A r \in Requests : pc[r] \in PastGate =>
          /\ call[r].code \in issued
          /\ r \in admitted[call[r].code]
          /\ seen[r] <= attempts[call[r].code]
    /\ \A c \in Codes : \A r \in admitted[c] :
          /\ call[r].code = c
          /\ pc[r] \in PastGate \cup {"done"}
    /\ \A r \in Requests : call[r].at <= now

\* The attempts attribute counts the admissions and the increments whose answer
\* was lost, also of a deleted item.
CountInv ==
    \A c \in Codes : /\ attempts[c] = Cardinality(admitted[c]) + unanswered[c]
                     /\ attempts[c] <= MaxTxCodeAttempts

\* What a request knows when it is about to delete.
BranchInv ==
    \A r \in Requests :
        LET e == entry[call[r].code]
        IN  /\ pc[r] = "expire" => now >= e.expires_at
            /\ pc[r] = "lockout" => /\ Verdict(e, call[r].tx) # "match"
                                    /\ seen[r] >= MaxTxCodeAttempts
            /\ pc[r] = "redeem" => /\ Verdict(e, call[r].tx) = "match"
                                   /\ call[r].at <= e.expires_at

\* A stored code has not been redeemed, and a redeemed one has one owner, who may
\* still be waiting for the answer to the delete.
OwnerInv ==
    /\ \A c \in stored : redeemed[c] = {}
    /\ \A c \in Codes : \A r \in redeemed[c] :
          /\ redeemed[c] = {r}
          /\ c \in issued
          /\ r \in admitted[c]
          /\ pc[r] \in {"redeem", "done"}
    /\ \A r \in Requests : reply[r] = "ok" => /\ r \in redeemed[call[r].code]
                                              /\ pc[r] = "done"
                                              /\ call[r].code \in issued
    /\ \A r \in Requests : pc[r] # "done" => reply[r] = "none"

\* The TTL attribute never lies before the expiry.
TtlInv == \A c \in Codes : entry[c].ttl * Second >= entry[c].expires_at

\* RedemptionLegitimate and NoCodeLostWithoutCause, of a database.
LegitimateInv ==
    \A r \in Requests : reply[r] = "ok" =>
        /\ Verdict(entry[call[r].code], call[r].tx) = "match"
        /\ call[r].at <= entry[call[r].code].expires_at

CauseInv ==
    \A c \in issued \ stored :
        \/ redeemed[c] # {}
        \/ now >= entry[c].expires_at
        \/ /\ Cardinality(admitted[c]) + unanswered[c] = MaxTxCodeAttempts
           /\ \E r \in admitted[c] : Verdict(entry[c], call[r].tx) # "match"

IInv ==
    /\ TypeOK
    /\ GateInv
    /\ CountInv
    /\ BranchInv
    /\ OwnerInv
    /\ TtlInv
    /\ LegitimateInv
    /\ CauseInv

-----------------------------------------------------------------------------
\* The hash of a tx_code that save() accepts is one of Hashes.
LEMMA TxHashType ==
    ASSUME NEW mode \in {"numeric", "text"}, NEW tx \in TxCode,
           (tx # NoTxCode /\ mode # "text") => toDigitString(tx) # NoText
    PROVE  TxHash(mode, tx) \in Hashes
  BY CodeStoreAssumption
     DEF TxHash, Hashes, hashTxCode, toDigitString, TxCode

\* Rounding the expiry up to seconds and back never yields an earlier time.
LEMMA TtlNotEarly ==
    ASSUME NEW t \in Nat
    PROVE  TtlOf(t) \in Nat /\ TtlOf(t) * Second >= t
  <1> Second \in Nat \ {0}
    BY CodeStoreAssumption
  <1> DEFINE n == t + Second - 1
             q == n \div Second
  <1>1. n \in Nat /\ n >= t
    OBVIOUS
  <1>2. q \in Nat /\ n = Second * q + (n % Second) /\ n % Second \in 0 .. (Second - 1)
    OBVIOUS
  <1>3. QED
    BY <1>1, <1>2 DEF TtlOf

-----------------------------------------------------------------------------
(* Type correctness *)

\* The initial state has its type.
LEMMA InitType == Init => TypeOK
  BY CodeStoreAssumption
     DEF Init, TypeOK, Entry, NoEntry, Hashes, NoCall, Call, TxCode, Labels, Replies

\* save() writes a well-formed item.
LEMMA SaveType ==
    ASSUME TypeOK,
           NEW c \in Codes, NEW mode \in InputModes, NEW tx \in TxCode,
           Save(c, mode, tx)
    PROVE  TypeOK'
  <1> DEFINE x == now + TtlSec * Second
             e == [mode |-> mode, tx_code_hash |-> TxHash(mode, tx),
                   expires_at |-> x, ttl |-> TtlOf(x)]
  <1>1. mode \in {"numeric", "text"}
    BY CodeStoreAssumption
  <1>2. TxHash(mode, tx) \in Hashes
    BY <1>1, TxHashType DEF Save
  <1>3. x \in Nat
    BY CodeStoreAssumption DEF TypeOK
  <1>4. TtlOf(x) \in Nat
    BY <1>3, TtlNotEarly
  <1>5. e \in Entry
    BY <1>1, <1>2, <1>3, <1>4 DEF Entry
  <1>6. entry' = [entry EXCEPT ![c] = e]
    BY DEF Save
  <1>7. entry' \in [Codes -> Entry]
    BY <1>5, <1>6 DEF TypeOK
  <1>8. QED
    BY <1>7 DEF Save, TypeOK

\* Every step keeps the types.
LEMMA TypeStep == TypeOK /\ [Next]_vars => TypeOK'
  <1> SUFFICES ASSUME TypeOK, [Next]_vars
               PROVE  TypeOK'
    OBVIOUS
  <1> USE DEF TypeOK
  <1>1. CASE Tick
    BY <1>1 DEF Tick, storeVars
  <1>2. ASSUME NEW c \in Codes, TtlSweep(c)
        PROVE  TypeOK'
    BY <1>2 DEF TtlSweep
  <1>3. ASSUME NEW c \in Codes, NEW mode \in InputModes, NEW tx \in TxCode,
               Save(c, mode, tx)
        PROVE  TypeOK'
    BY <1>3, SaveType
  <1>4. ASSUME NEW r \in Requests, NEW c \in Codes, NEW tx \in TxCode,
               Consume(r, c, tx)
        PROVE  TypeOK'
    BY <1>4 DEF Consume, Call, Labels, storeVars
  <1>5. ASSUME NEW r \in Requests, GateAdmit(r)
        PROVE  TypeOK'
    BY <1>5 DEF GateAdmit, Finish, Refusal, Call, Labels, Replies, storeVars
  <1>6. ASSUME NEW r \in Requests, GateReject(r)
        PROVE  TypeOK'
    BY <1>6 DEF GateReject, Finish, Refusal, Call, Labels, Replies, storeVars
  <1>7. ASSUME NEW r \in Requests, EvaluateExpired(r)
        PROVE  TypeOK'
    BY <1>7 DEF EvaluateExpired, Finish, Refusal, Call, Labels, Replies, storeVars
  <1>8. ASSUME NEW r \in Requests, EvaluateLockout(r)
        PROVE  TypeOK'
    BY <1>8 DEF EvaluateLockout, Finish, Refusal, Call, Labels, Replies, storeVars
  <1>9. ASSUME NEW r \in Requests, EvaluateRefuse(r)
        PROVE  TypeOK'
    BY <1>9 DEF EvaluateRefuse, Finish, Refusal, Call, Labels, Replies, storeVars
  <1>10. ASSUME NEW r \in Requests, EvaluateMatch(r)
        PROVE  TypeOK'
    BY <1>10 DEF EvaluateMatch, Finish, Refusal, Call, Labels, Replies, storeVars
  <1>11. ASSUME NEW r \in Requests, DeleteUnconditional(r)
        PROVE  TypeOK'
    BY <1>11 DEF DeleteUnconditional, Finish, Refusal, Call, Labels, Replies, storeVars
  <1>12. ASSUME NEW r \in Requests, DeleteWon(r)
        PROVE  TypeOK'
    BY <1>12 DEF DeleteWon, Finish, Refusal, Call, Labels, Replies, storeVars
  <1>13. ASSUME NEW r \in Requests, DeleteLost(r)
        PROVE  TypeOK'
    BY <1>13 DEF DeleteLost, Finish, Refusal, Call, Labels, Replies, storeVars
  <1>14. ASSUME NEW r \in Requests, DeleteUnanswered(r)
        PROVE  TypeOK'
    BY <1>14 DEF DeleteUnanswered, Finish, Refusal, Call, Labels, Replies, storeVars
  <1>15. ASSUME NEW r \in Requests, Fail(r)
        PROVE  TypeOK'
    BY <1>15 DEF Fail, Finish, Refusal, Call, Labels, Replies, storeVars
  <1>16. CASE UNCHANGED vars
    BY <1>16 DEF vars
  <1>17. ASSUME NEW r \in Requests, GateUnanswered(r)
        PROVE  TypeOK'
    <2>1. call[r].code \in Codes
      BY DEF Call
    <2>2. QED
      BY <1>17, <2>1 DEF GateUnanswered
  <1>18. QED
    BY <1>1, <1>2, <1>3, <1>4, <1>5, <1>6, <1>7, <1>8, <1>9, <1>10, <1>11, <1>12, <1>13, <1>14, <1>15, <1>16, <1>17
       DEF Next

\* Type correctness: every stored item, counter and reply has its type, and
\* only codes that save() wrote are in the table.
THEOREM TypeCorrect == Spec => []TypeOK
  BY InitType, TypeStep, PTL DEF Spec

-----------------------------------------------------------------------------
(* The inductive invariant *)

\* IInv holds initially: no code is issued and no request made.
LEMMA InitInductive == Init => IInv
  <1> SUFFICES ASSUME Init
               PROVE  IInv
    OBVIOUS
  <1>1. TypeOK
    BY InitType
  <1>2. Cardinality({}) = 0
    BY FS_EmptySet
  <1>3. GateInv /\ CountInv /\ BranchInv /\ OwnerInv
    BY <1>2, CodeStoreAssumption
       DEF Init, GateInv, CountInv, BranchInv, OwnerInv, PastGate, NoCall
  <1>4. LegitimateInv /\ CauseInv
    BY DEF Init, LegitimateInv, CauseInv
  <1>5. TtlInv
    BY CodeStoreAssumption DEF Init, NoEntry, TtlInv
  <1>6. QED
    BY <1>1, <1>3, <1>4, <1>5 DEF IInv

\* A request past the gate stays accounted for.
LEMMA GateStep == IInv /\ [Next]_vars => GateInv'
  <1> SUFFICES ASSUME IInv, [Next]_vars, TypeOK'
               PROVE  GateInv'
    BY TypeStep DEF IInv
  <1> USE DEF IInv, GateInv, PastGate, Call
  <1>1. CASE Tick
    BY <1>1 DEF Tick, storeVars, TypeOK, Entry
  <1>2. ASSUME NEW c \in Codes, TtlSweep(c)
        PROVE  GateInv'
    BY <1>2 DEF TtlSweep, TypeOK
  <1>3. ASSUME NEW c \in Codes, NEW mode \in InputModes, NEW tx \in TxCode,
               Save(c, mode, tx)
        PROVE  GateInv'
    BY <1>3 DEF Save, TypeOK
  <1>4. ASSUME NEW r \in Requests, NEW c \in Codes, NEW tx \in TxCode,
               Consume(r, c, tx)
        PROVE  GateInv'
    BY <1>4 DEF Consume, storeVars, TypeOK
  <1>5. ASSUME NEW r \in Requests, GateAdmit(r)
        PROVE  GateInv'
    BY <1>5 DEF GateAdmit, Admits, DynamoGate, FirestoreGate, TypeOK
  <1>6. ASSUME NEW r \in Requests, GateReject(r)
        PROVE  GateInv'
    BY <1>6 DEF GateReject, Finish, storeVars, TypeOK
  <1>7. ASSUME NEW r \in Requests, EvaluateExpired(r)
        PROVE  GateInv'
    BY <1>7 DEF EvaluateExpired, Finish, storeVars, TypeOK
  <1>8. ASSUME NEW r \in Requests, EvaluateLockout(r)
        PROVE  GateInv'
    BY <1>8 DEF EvaluateLockout, Finish, storeVars, TypeOK
  <1>9. ASSUME NEW r \in Requests, EvaluateRefuse(r)
        PROVE  GateInv'
    BY <1>9 DEF EvaluateRefuse, Finish, storeVars, TypeOK, Refusal
  <1>10. ASSUME NEW r \in Requests, EvaluateMatch(r)
        PROVE  GateInv'
    BY <1>10 DEF EvaluateMatch, Finish, storeVars, TypeOK
  <1>11. ASSUME NEW r \in Requests, DeleteUnconditional(r)
        PROVE  GateInv'
    BY <1>11 DEF DeleteUnconditional, Finish, storeVars, TypeOK
  <1>12. ASSUME NEW r \in Requests, DeleteWon(r)
        PROVE  GateInv'
    BY <1>12 DEF DeleteWon, Finish, storeVars, TypeOK
  <1>13. ASSUME NEW r \in Requests, DeleteLost(r)
        PROVE  GateInv'
    BY <1>13 DEF DeleteLost, Finish, storeVars, TypeOK
  <1>14. ASSUME NEW r \in Requests, DeleteUnanswered(r)
        PROVE  GateInv'
    BY <1>14 DEF DeleteUnanswered, Finish, storeVars, TypeOK
  <1>15. ASSUME NEW r \in Requests, Fail(r)
        PROVE  GateInv'
    BY <1>15 DEF Fail, Finish, storeVars, TypeOK
  <1>16. CASE UNCHANGED vars
    BY <1>16 DEF vars, TypeOK
  <1>17. ASSUME NEW r \in Requests, GateUnanswered(r)
        PROVE  GateInv'
    BY <1>17 DEF GateUnanswered, TypeOK
  <1>18. QED
    BY <1>1, <1>2, <1>3, <1>4, <1>5, <1>6, <1>7, <1>8, <1>9, <1>10, <1>11, <1>12, <1>13, <1>14, <1>15, <1>16, <1>17
       DEF Next

\* Finitely many requests pass the gate.
LEMMA AdmittedFinite ==
    ASSUME TypeOK, NEW c \in Codes
    PROVE  IsFiniteSet(admitted[c]) /\ Cardinality(admitted[c]) \in Nat
  <1>1. admitted[c] \subseteq Requests
    BY DEF TypeOK
  <1>2. QED
    BY <1>1, FS_Subset, FS_CardinalityType, CodeStoreAssumption

\* The attempts attribute keeps counting the admissions and stays in its limit.
LEMMA CountStep == IInv /\ [Next]_vars => CountInv'
  <1> SUFFICES ASSUME IInv, [Next]_vars, TypeOK'
               PROVE  CountInv'
    BY TypeStep DEF IInv
  <1> USE DEF IInv, CountInv
  <1>1. CASE Tick
    BY <1>1 DEF Tick, storeVars, TypeOK, Entry
  <1>2. ASSUME NEW c \in Codes, TtlSweep(c)
        PROVE  CountInv'
    BY <1>2 DEF TtlSweep, TypeOK
  <1>3. ASSUME NEW c \in Codes, NEW mode \in InputModes, NEW tx \in TxCode,
               Save(c, mode, tx)
        PROVE  CountInv'
    BY <1>3 DEF Save, TypeOK
  <1>4. ASSUME NEW r \in Requests, NEW c \in Codes, NEW tx \in TxCode,
               Consume(r, c, tx)
        PROVE  CountInv'
    BY <1>4 DEF Consume, storeVars, TypeOK
  <1>5. ASSUME NEW r \in Requests, GateAdmit(r)
        PROVE  CountInv'
    <2> DEFINE c == call[r].code
    <2>1. c \in Codes /\ r \notin admitted[c]
      BY <1>5 DEF GateAdmit, GateInv, PastGate, TypeOK, Call
    <2>2. attempts[c] < MaxTxCodeAttempts
      BY <1>5, <2>1, CodeStoreAssumption
         DEF GateAdmit, Admits, DynamoGate, FirestoreGate, TypeOK
    <2>3. \A d \in Codes : IsFiniteSet(admitted[d]) /\ Cardinality(admitted[d]) \in Nat
      BY AdmittedFinite
    <2>4. Cardinality(admitted[c] \cup {r}) = Cardinality(admitted[c]) + 1
      BY <2>1, <2>3, FS_AddElement
    <2>5. /\ attempts' = [attempts EXCEPT ![c] = @ + 1]
          /\ admitted' = [admitted EXCEPT ![c] = @ \cup {r}]
          /\ unanswered' = unanswered
      BY <1>5 DEF GateAdmit
    <2>6. QED
      BY <2>1, <2>2, <2>3, <2>4, <2>5, CodeStoreAssumption DEF TypeOK
  <1>6. ASSUME NEW r \in Requests, GateReject(r)
        PROVE  CountInv'
    BY <1>6 DEF GateReject, Finish, storeVars, TypeOK
  <1>7. ASSUME NEW r \in Requests, EvaluateExpired(r)
        PROVE  CountInv'
    BY <1>7 DEF EvaluateExpired, Finish, storeVars, TypeOK
  <1>8. ASSUME NEW r \in Requests, EvaluateLockout(r)
        PROVE  CountInv'
    BY <1>8 DEF EvaluateLockout, Finish, storeVars, TypeOK
  <1>9. ASSUME NEW r \in Requests, EvaluateRefuse(r)
        PROVE  CountInv'
    BY <1>9 DEF EvaluateRefuse, Finish, storeVars, TypeOK, Refusal
  <1>10. ASSUME NEW r \in Requests, EvaluateMatch(r)
        PROVE  CountInv'
    BY <1>10 DEF EvaluateMatch, Finish, storeVars, TypeOK
  <1>11. ASSUME NEW r \in Requests, DeleteUnconditional(r)
        PROVE  CountInv'
    BY <1>11 DEF DeleteUnconditional, Finish, storeVars, TypeOK
  <1>12. ASSUME NEW r \in Requests, DeleteWon(r)
        PROVE  CountInv'
    BY <1>12 DEF DeleteWon, Finish, storeVars, TypeOK
  <1>13. ASSUME NEW r \in Requests, DeleteLost(r)
        PROVE  CountInv'
    BY <1>13 DEF DeleteLost, Finish, storeVars, TypeOK
  <1>14. ASSUME NEW r \in Requests, DeleteUnanswered(r)
        PROVE  CountInv'
    BY <1>14 DEF DeleteUnanswered, Finish, storeVars, TypeOK
  <1>15. ASSUME NEW r \in Requests, Fail(r)
        PROVE  CountInv'
    BY <1>15 DEF Fail, Finish, storeVars, TypeOK
  <1>16. CASE UNCHANGED vars
    BY <1>16 DEF vars, TypeOK
  <1>17. ASSUME NEW r \in Requests, GateUnanswered(r)
        PROVE  CountInv'
    <2> DEFINE c == call[r].code
    <2>1. c \in Codes
      BY DEF TypeOK, Call
    <2>2. attempts[c] < MaxTxCodeAttempts
      BY <1>17, <2>1, CodeStoreAssumption
         DEF GateUnanswered, Admits, DynamoGate, FirestoreGate, TypeOK
    <2>3. /\ attempts' = [attempts EXCEPT ![c] = @ + 1]
          /\ unanswered' = [unanswered EXCEPT ![c] = @ + 1]
          /\ admitted' = admitted
      BY <1>17 DEF GateUnanswered
    <2>4. \A d \in Codes : Cardinality(admitted[d]) \in Nat
      BY AdmittedFinite
    <2>5. QED
      BY <2>1, <2>2, <2>3, <2>4, CodeStoreAssumption DEF TypeOK
  <1>18. QED
    BY <1>1, <1>2, <1>3, <1>4, <1>5, <1>6, <1>7, <1>8, <1>9, <1>10, <1>11, <1>12, <1>13, <1>14, <1>15, <1>16, <1>17
       DEF Next

\* What a request concluded in its evaluation stays true until its delete.
LEMMA BranchStep == IInv /\ [Next]_vars => BranchInv'
  <1> SUFFICES ASSUME IInv, [Next]_vars, TypeOK'
               PROVE  BranchInv'
    BY TypeStep DEF IInv
  <1> USE DEF IInv, BranchInv, GateInv, PastGate, Call
  <1>1. CASE Tick
    BY <1>1 DEF Tick, storeVars, TypeOK, Entry
  <1>2. ASSUME NEW c \in Codes, TtlSweep(c)
        PROVE  BranchInv'
    BY <1>2 DEF TtlSweep, TypeOK
  <1>3. ASSUME NEW c \in Codes, NEW mode \in InputModes, NEW tx \in TxCode,
               Save(c, mode, tx)
        PROVE  BranchInv'
    BY <1>3 DEF Save, TypeOK
  <1>4. ASSUME NEW r \in Requests, NEW c \in Codes, NEW tx \in TxCode,
               Consume(r, c, tx)
        PROVE  BranchInv'
    BY <1>4 DEF Consume, storeVars, TypeOK
  <1>5. ASSUME NEW r \in Requests, GateAdmit(r)
        PROVE  BranchInv'
    BY <1>5 DEF GateAdmit, Finish, storeVars, TypeOK
  <1>6. ASSUME NEW r \in Requests, GateReject(r)
        PROVE  BranchInv'
    BY <1>6 DEF GateReject, Finish, storeVars, TypeOK
  <1>7. ASSUME NEW r \in Requests, EvaluateExpired(r)
        PROVE  BranchInv'
    BY <1>7 DEF EvaluateExpired, storeVars, Expired, DynamoExpired, FirestoreExpired, TypeOK, Entry
  <1>8. ASSUME NEW r \in Requests, EvaluateLockout(r)
        PROVE  BranchInv'
    BY <1>8 DEF EvaluateLockout, Finish, storeVars, TypeOK
  <1>9. ASSUME NEW r \in Requests, EvaluateRefuse(r)
        PROVE  BranchInv'
    BY <1>9 DEF EvaluateRefuse, Finish, storeVars, TypeOK, Refusal
  <1>10. ASSUME NEW r \in Requests, EvaluateMatch(r)
        PROVE  BranchInv'
    BY <1>10 DEF EvaluateMatch, storeVars, Expired, DynamoExpired, FirestoreExpired, TypeOK, Entry
  <1>11. ASSUME NEW r \in Requests, DeleteUnconditional(r)
        PROVE  BranchInv'
    BY <1>11 DEF DeleteUnconditional, Finish, storeVars, TypeOK
  <1>12. ASSUME NEW r \in Requests, DeleteWon(r)
        PROVE  BranchInv'
    BY <1>12 DEF DeleteWon, Finish, storeVars, TypeOK
  <1>13. ASSUME NEW r \in Requests, DeleteLost(r)
        PROVE  BranchInv'
    BY <1>13 DEF DeleteLost, Finish, storeVars, TypeOK
  <1>14. ASSUME NEW r \in Requests, DeleteUnanswered(r)
        PROVE  BranchInv'
    BY <1>14 DEF DeleteUnanswered, Finish, storeVars, TypeOK
  <1>15. ASSUME NEW r \in Requests, Fail(r)
        PROVE  BranchInv'
    BY <1>15 DEF Fail, Finish, storeVars, TypeOK
  <1>16. CASE UNCHANGED vars
    BY <1>16 DEF vars, TypeOK
  <1>17. ASSUME NEW r \in Requests, GateUnanswered(r)
        PROVE  BranchInv'
    BY <1>17 DEF GateUnanswered, TypeOK
  <1>18. QED
    BY <1>1, <1>2, <1>3, <1>4, <1>5, <1>6, <1>7, <1>8, <1>9, <1>10, <1>11, <1>12, <1>13, <1>14, <1>15, <1>16, <1>17
       DEF Next

\* A code keeps its single owner.
LEMMA OwnerStep == IInv /\ [Next]_vars => OwnerInv'
  <1> SUFFICES ASSUME IInv, [Next]_vars, TypeOK'
               PROVE  OwnerInv'
    BY TypeStep DEF IInv
  <1> USE DEF IInv, OwnerInv, GateInv, PastGate, Call
  <1>1. CASE Tick
    BY <1>1 DEF Tick, storeVars, TypeOK, Entry
  <1>2. ASSUME NEW c \in Codes, TtlSweep(c)
        PROVE  OwnerInv'
    BY <1>2 DEF TtlSweep, TypeOK
  <1>3. ASSUME NEW c \in Codes, NEW mode \in InputModes, NEW tx \in TxCode,
               Save(c, mode, tx)
        PROVE  OwnerInv'
    BY <1>3 DEF Save, TypeOK
  <1>4. ASSUME NEW r \in Requests, NEW c \in Codes, NEW tx \in TxCode,
               Consume(r, c, tx)
        PROVE  OwnerInv'
    BY <1>4 DEF Consume, storeVars, TypeOK
  <1>5. ASSUME NEW r \in Requests, GateAdmit(r)
        PROVE  OwnerInv'
    BY <1>5 DEF GateAdmit, Finish, storeVars, TypeOK
  <1>6. ASSUME NEW r \in Requests, GateReject(r)
        PROVE  OwnerInv'
    BY <1>6 DEF GateReject, Finish, storeVars, TypeOK
  <1>7. ASSUME NEW r \in Requests, EvaluateExpired(r)
        PROVE  OwnerInv'
    BY <1>7 DEF EvaluateExpired, Finish, storeVars, TypeOK
  <1>8. ASSUME NEW r \in Requests, EvaluateLockout(r)
        PROVE  OwnerInv'
    BY <1>8 DEF EvaluateLockout, Finish, storeVars, TypeOK
  <1>9. ASSUME NEW r \in Requests, EvaluateRefuse(r)
        PROVE  OwnerInv'
    BY <1>9 DEF EvaluateRefuse, Finish, storeVars, TypeOK, Refusal
  <1>10. ASSUME NEW r \in Requests, EvaluateMatch(r)
        PROVE  OwnerInv'
    BY <1>10 DEF EvaluateMatch, Finish, storeVars, TypeOK
  <1>11. ASSUME NEW r \in Requests, DeleteUnconditional(r)
        PROVE  OwnerInv'
    BY <1>11 DEF DeleteUnconditional, Finish, storeVars, TypeOK
  <1>12. ASSUME NEW r \in Requests, DeleteWon(r)
        PROVE  OwnerInv'
    BY <1>12 DEF DeleteWon, Finish, storeVars, TypeOK
  <1>13. ASSUME NEW r \in Requests, DeleteLost(r)
        PROVE  OwnerInv'
    BY <1>13 DEF DeleteLost, Finish, storeVars, TypeOK
  <1>14. ASSUME NEW r \in Requests, DeleteUnanswered(r)
        PROVE  OwnerInv'
    BY <1>14 DEF DeleteUnanswered, Finish, storeVars, TypeOK
  <1>15. ASSUME NEW r \in Requests, Fail(r)
        PROVE  OwnerInv'
    BY <1>15 DEF Fail, Finish, storeVars, TypeOK
  <1>16. CASE UNCHANGED vars
    BY <1>16 DEF vars, TypeOK
  <1>17. ASSUME NEW r \in Requests, GateUnanswered(r)
        PROVE  OwnerInv'
    BY <1>17 DEF GateUnanswered, TypeOK
  <1>18. QED
    BY <1>1, <1>2, <1>3, <1>4, <1>5, <1>6, <1>7, <1>8, <1>9, <1>10, <1>11, <1>12, <1>13, <1>14, <1>15, <1>16, <1>17
       DEF Next

\* An answered redemption stays legitimate.
LEMMA LegitimateStep == IInv /\ [Next]_vars => LegitimateInv'
  <1> SUFFICES ASSUME IInv, [Next]_vars, TypeOK'
               PROVE  LegitimateInv'
    BY TypeStep DEF IInv
  <1> USE DEF IInv, LegitimateInv, GateInv, OwnerInv, BranchInv, PastGate, Call
  <1>1. CASE Tick
    BY <1>1 DEF Tick, storeVars, TypeOK, Entry
  <1>2. ASSUME NEW c \in Codes, TtlSweep(c)
        PROVE  LegitimateInv'
    BY <1>2 DEF TtlSweep, TypeOK
  <1>3. ASSUME NEW c \in Codes, NEW mode \in InputModes, NEW tx \in TxCode,
               Save(c, mode, tx)
        PROVE  LegitimateInv'
    BY <1>3 DEF Save, TypeOK
  <1>4. ASSUME NEW r \in Requests, NEW c \in Codes, NEW tx \in TxCode,
               Consume(r, c, tx)
        PROVE  LegitimateInv'
    BY <1>4 DEF Consume, storeVars, TypeOK
  <1>5. ASSUME NEW r \in Requests, GateAdmit(r)
        PROVE  LegitimateInv'
    BY <1>5 DEF GateAdmit, Finish, storeVars, TypeOK
  <1>6. ASSUME NEW r \in Requests, GateReject(r)
        PROVE  LegitimateInv'
    BY <1>6 DEF GateReject, Finish, storeVars, TypeOK
  <1>7. ASSUME NEW r \in Requests, EvaluateExpired(r)
        PROVE  LegitimateInv'
    BY <1>7 DEF EvaluateExpired, Finish, storeVars, TypeOK
  <1>8. ASSUME NEW r \in Requests, EvaluateLockout(r)
        PROVE  LegitimateInv'
    BY <1>8 DEF EvaluateLockout, Finish, storeVars, TypeOK
  <1>9. ASSUME NEW r \in Requests, EvaluateRefuse(r)
        PROVE  LegitimateInv'
    BY <1>9 DEF EvaluateRefuse, Finish, storeVars, TypeOK, Refusal
  <1>10. ASSUME NEW r \in Requests, EvaluateMatch(r)
        PROVE  LegitimateInv'
    BY <1>10 DEF EvaluateMatch, Finish, storeVars, TypeOK
  <1>11. ASSUME NEW r \in Requests, DeleteUnconditional(r)
        PROVE  LegitimateInv'
    BY <1>11 DEF DeleteUnconditional, Finish, storeVars, TypeOK
  <1>12. ASSUME NEW r \in Requests, DeleteWon(r)
        PROVE  LegitimateInv'
    BY <1>12 DEF DeleteWon, Finish, storeVars, TypeOK
  <1>13. ASSUME NEW r \in Requests, DeleteLost(r)
        PROVE  LegitimateInv'
    BY <1>13 DEF DeleteLost, Finish, storeVars, TypeOK
  <1>14. ASSUME NEW r \in Requests, DeleteUnanswered(r)
        PROVE  LegitimateInv'
    BY <1>14 DEF DeleteUnanswered, Finish, storeVars, TypeOK
  <1>15. ASSUME NEW r \in Requests, Fail(r)
        PROVE  LegitimateInv'
    BY <1>15 DEF Fail, Finish, storeVars, TypeOK
  <1>16. CASE UNCHANGED vars
    BY <1>16 DEF vars, TypeOK
  <1>17. ASSUME NEW r \in Requests, GateUnanswered(r)
        PROVE  LegitimateInv'
    BY <1>17 DEF GateUnanswered, TypeOK
  <1>18. QED
    BY <1>1, <1>2, <1>3, <1>4, <1>5, <1>6, <1>7, <1>8, <1>9, <1>10, <1>11, <1>12, <1>13, <1>14, <1>15, <1>16, <1>17
       DEF Next

\* The TTL attribute never lies before the expiry.
LEMMA TtlStep == IInv /\ [Next]_vars => TtlInv'
  <1> SUFFICES ASSUME IInv, [Next]_vars, TypeOK'
               PROVE  TtlInv'
    BY TypeStep DEF IInv
  <1> USE DEF IInv, TtlInv
  <1>1. CASE Tick
    BY <1>1 DEF Tick, storeVars, TypeOK, Entry
  <1>2. ASSUME NEW c \in Codes, TtlSweep(c)
        PROVE  TtlInv'
    BY <1>2 DEF TtlSweep, TypeOK
  <1>3. ASSUME NEW c \in Codes, NEW mode \in InputModes, NEW tx \in TxCode,
               Save(c, mode, tx)
        PROVE  TtlInv'
    <2> DEFINE x == now + TtlSec * Second
    <2>1. x \in Nat
      <3>1. now \in Nat
        BY DEF TypeOK
      <3>2. QED
        BY <3>1, CodeStoreAssumption
    <2>2. TtlOf(x) * Second >= x
      BY <2>1, TtlNotEarly
    <2>3. /\ entry'[c].ttl = TtlOf(x)
          /\ entry'[c].expires_at = x
          /\ \A d \in Codes : d # c => entry'[d] = entry[d]
      BY <1>3 DEF Save, TypeOK
    <2>4. QED
      BY <2>2, <2>3
  <1>4. ASSUME NEW r \in Requests, NEW c \in Codes, NEW tx \in TxCode,
               Consume(r, c, tx)
        PROVE  TtlInv'
    BY <1>4 DEF Consume, storeVars, TypeOK
  <1>5. ASSUME NEW r \in Requests, GateAdmit(r)
        PROVE  TtlInv'
    BY <1>5 DEF GateAdmit, Finish, storeVars, TypeOK
  <1>6. ASSUME NEW r \in Requests, GateReject(r)
        PROVE  TtlInv'
    BY <1>6 DEF GateReject, Finish, storeVars, TypeOK
  <1>7. ASSUME NEW r \in Requests, EvaluateExpired(r)
        PROVE  TtlInv'
    BY <1>7 DEF EvaluateExpired, Finish, storeVars, TypeOK
  <1>8. ASSUME NEW r \in Requests, EvaluateLockout(r)
        PROVE  TtlInv'
    BY <1>8 DEF EvaluateLockout, Finish, storeVars, TypeOK
  <1>9. ASSUME NEW r \in Requests, EvaluateRefuse(r)
        PROVE  TtlInv'
    BY <1>9 DEF EvaluateRefuse, Finish, storeVars, TypeOK, Refusal
  <1>10. ASSUME NEW r \in Requests, EvaluateMatch(r)
        PROVE  TtlInv'
    BY <1>10 DEF EvaluateMatch, Finish, storeVars, TypeOK
  <1>11. ASSUME NEW r \in Requests, DeleteUnconditional(r)
        PROVE  TtlInv'
    BY <1>11 DEF DeleteUnconditional, Finish, storeVars, TypeOK
  <1>12. ASSUME NEW r \in Requests, DeleteWon(r)
        PROVE  TtlInv'
    BY <1>12 DEF DeleteWon, Finish, storeVars, TypeOK
  <1>13. ASSUME NEW r \in Requests, DeleteLost(r)
        PROVE  TtlInv'
    BY <1>13 DEF DeleteLost, Finish, storeVars, TypeOK
  <1>14. ASSUME NEW r \in Requests, DeleteUnanswered(r)
        PROVE  TtlInv'
    BY <1>14 DEF DeleteUnanswered, Finish, storeVars, TypeOK
  <1>15. ASSUME NEW r \in Requests, Fail(r)
        PROVE  TtlInv'
    BY <1>15 DEF Fail, Finish, storeVars, TypeOK
  <1>16. CASE UNCHANGED vars
    BY <1>16 DEF vars, TypeOK
  <1>17. ASSUME NEW r \in Requests, GateUnanswered(r)
        PROVE  TtlInv'
    BY <1>17 DEF GateUnanswered, TypeOK
  <1>18. QED
    BY <1>1, <1>2, <1>3, <1>4, <1>5, <1>6, <1>7, <1>8, <1>9, <1>10, <1>11, <1>12, <1>13, <1>14, <1>15, <1>16, <1>17
       DEF Next

\* A code disappears only for a reason.
LEMMA CauseStep == IInv /\ [Next]_vars => CauseInv'
  <1> SUFFICES ASSUME IInv, [Next]_vars, TypeOK'
               PROVE  CauseInv'
    BY TypeStep DEF IInv
  <1> USE DEF IInv, CauseInv, GateInv, CountInv, PastGate, Call
  <1>1. CASE Tick
    <2>1. now' = now + 1 /\ UNCHANGED <<issued, stored, entry, unanswered, call, admitted,
                                      redeemed>>
      BY <1>1 DEF Tick, storeVars
    <2>2. \A c \in Codes : entry[c].expires_at \in Nat /\ now \in Nat
      BY DEF TypeOK, Entry
    <2>3. \A c \in issued \ stored : c \in Codes
      BY DEF TypeOK
    <2>4. QED
      BY <2>1, <2>2, <2>3
  <1>2. ASSUME NEW c \in Codes, TtlSweep(c)
        PROVE  CauseInv'
    <2>1. entry[c].ttl * Second >= entry[c].expires_at
      BY DEF TtlInv
    <2>2. entry[c].expires_at \in Nat /\ entry[c].ttl * Second \in Nat
      BY CodeStoreAssumption DEF TypeOK, Entry
    <2>3. now >= entry[c].expires_at
      BY <1>2, <2>1, <2>2 DEF TtlSweep, TypeOK
    <2>4. QED
      BY <1>2, <2>3 DEF TtlSweep, TypeOK
  <1>3. ASSUME NEW c \in Codes, NEW mode \in InputModes, NEW tx \in TxCode,
               Save(c, mode, tx)
        PROVE  CauseInv'
    BY <1>3 DEF Save, TypeOK
  <1>4. ASSUME NEW r \in Requests, NEW c \in Codes, NEW tx \in TxCode,
               Consume(r, c, tx)
        PROVE  CauseInv'
    BY <1>4 DEF Consume, storeVars, TypeOK
  <1>5. ASSUME NEW r \in Requests, GateAdmit(r)
        PROVE  CauseInv'
    <2> SUFFICES ASSUME NEW d \in issued \ stored
                 PROVE  CauseInv!(d)'
      BY <1>5 DEF GateAdmit
    <2>1. call[r].code \in stored
      BY <1>5 DEF GateAdmit, Admits, DynamoGate, FirestoreGate
    <2>2. admitted'[d] = admitted[d] /\ redeemed' = redeemed
      BY <1>5, <2>1 DEF GateAdmit, TypeOK
    <2>3. QED
      BY <1>5, <2>2 DEF GateAdmit, TypeOK
  <1>6. ASSUME NEW r \in Requests, GateReject(r)
        PROVE  CauseInv'
    BY <1>6 DEF GateReject, Finish, storeVars, TypeOK
  <1>7. ASSUME NEW r \in Requests, EvaluateExpired(r)
        PROVE  CauseInv'
    BY <1>7 DEF EvaluateExpired, Finish, storeVars, TypeOK
  <1>8. ASSUME NEW r \in Requests, EvaluateLockout(r)
        PROVE  CauseInv'
    BY <1>8 DEF EvaluateLockout, Finish, storeVars, TypeOK
  <1>9. ASSUME NEW r \in Requests, EvaluateRefuse(r)
        PROVE  CauseInv'
    BY <1>9 DEF EvaluateRefuse, Finish, storeVars, TypeOK, Refusal
  <1>10. ASSUME NEW r \in Requests, EvaluateMatch(r)
        PROVE  CauseInv'
    BY <1>10 DEF EvaluateMatch, Finish, storeVars, TypeOK
  <1>11. ASSUME NEW r \in Requests, DeleteUnconditional(r)
        PROVE  CauseInv'
    <2> DEFINE c == call[r].code
    <2>1. c \in Codes /\ r \in admitted[c] /\ seen[r] <= attempts[c]
      BY <1>11 DEF DeleteUnconditional, TypeOK
    <2>2. \/ now >= entry[c].expires_at
          \/ /\ Cardinality(admitted[c]) + unanswered[c] = MaxTxCodeAttempts
             /\ Verdict(entry[c], call[r].tx) # "match"
      <3>1. CASE pc[r] = "expire"
        BY <3>1 DEF BranchInv
      <3>2. CASE pc[r] = "lockout"
        <4>1. Verdict(entry[c], call[r].tx) # "match" /\ seen[r] >= MaxTxCodeAttempts
          BY <3>2 DEF BranchInv
        <4>2. attempts[c] \in Nat /\ seen[r] \in Nat
          BY <2>1 DEF TypeOK
        <4>3. QED
          BY <4>1, <4>2, <2>1, CodeStoreAssumption
      <3>3. QED
        BY <1>11, <3>1, <3>2 DEF DeleteUnconditional
    <2>3. QED
      BY <1>11, <2>1, <2>2 DEF DeleteUnconditional, Finish, TypeOK
  <1>12. ASSUME NEW r \in Requests, DeleteWon(r)
        PROVE  CauseInv'
    <2>1. redeemed'[call[r].code] # {}
      BY <1>12 DEF DeleteWon, TypeOK
    <2>2. \A c \in Codes : redeemed[c] \subseteq redeemed'[c]
      BY <1>12 DEF DeleteWon, TypeOK
    <2>3. QED
      <3> SUFFICES ASSUME NEW d \in issued \ stored', redeemed'[d] = {}
                   PROVE  CauseInv!(d)'
        BY <1>12 DEF DeleteWon
      <3>1. d \in issued \ stored /\ redeemed[d] = {}
        BY <1>12, <2>1, <2>2 DEF DeleteWon, TypeOK
      <3>2. QED
        BY <1>12, <3>1 DEF DeleteWon, Finish, TypeOK
  <1>13. ASSUME NEW r \in Requests, DeleteLost(r)
        PROVE  CauseInv'
    BY <1>13 DEF DeleteLost, Finish, storeVars, TypeOK
  <1>14. ASSUME NEW r \in Requests, DeleteUnanswered(r)
        PROVE  CauseInv'
    <2> DEFINE c == call[r].code
    <2>1. /\ c \in Codes /\ r \in admitted[c] /\ seen[r] <= attempts[c]
          /\ stored' = stored \ {c}
          /\ UNCHANGED <<now, issued, entry, unanswered, call, admitted>>
      BY <1>14 DEF DeleteUnanswered, TypeOK
    <2>2. \A d \in Codes : redeemed[d] \subseteq redeemed'[d]
      BY <1>14 DEF DeleteUnanswered, TypeOK
    <2>3. \/ redeemed'[c] # {}
          \/ now >= entry[c].expires_at
          \/ /\ Cardinality(admitted[c]) + unanswered[c] = MaxTxCodeAttempts
             /\ Verdict(entry[c], call[r].tx) # "match"
      <3>1. CASE pc[r] = "expire"
        BY <3>1 DEF BranchInv
      <3>2. CASE pc[r] = "lockout"
        <4>1. Verdict(entry[c], call[r].tx) # "match" /\ seen[r] >= MaxTxCodeAttempts
          BY <3>2 DEF BranchInv
        <4>2. attempts[c] \in Nat /\ seen[r] \in Nat
          BY <2>1 DEF TypeOK
        <4>3. QED
          BY <4>1, <4>2, <2>1, CodeStoreAssumption
      <3>3. CASE pc[r] = "redeem"
        BY <1>14, <2>1, <3>3 DEF DeleteUnanswered, TypeOK
      <3>4. QED
        BY <1>14, <3>1, <3>2, <3>3 DEF DeleteUnanswered
    <2>4. QED
      <3> SUFFICES ASSUME NEW d \in issued \ stored', redeemed'[d] = {}
                   PROVE  CauseInv!(d)'
        BY <2>1
      <3>1. CASE d = c
        BY <2>1, <2>3, <3>1
      <3>2. CASE d # c
        <4>1. d \in issued \ stored /\ redeemed[d] = {}
          BY <2>1, <2>2, <3>2 DEF TypeOK
        <4>2. QED
          BY <2>1, <4>1
      <3>3. QED
        BY <3>1, <3>2
  <1>15. ASSUME NEW r \in Requests, Fail(r)
        PROVE  CauseInv'
    BY <1>15 DEF Fail, Finish, storeVars, TypeOK
  <1>16. CASE UNCHANGED vars
    BY <1>16 DEF vars, TypeOK
  <1>17. ASSUME NEW r \in Requests, GateUnanswered(r)
        PROVE  CauseInv'
    <2> SUFFICES ASSUME NEW d \in issued \ stored
                 PROVE  CauseInv!(d)'
      BY <1>17 DEF GateUnanswered
    <2>1. call[r].code \in stored
      BY <1>17 DEF GateUnanswered, Admits, DynamoGate, FirestoreGate
    <2>2. unanswered'[d] = unanswered[d] /\ admitted' = admitted /\ redeemed' = redeemed
      BY <1>17, <2>1 DEF GateUnanswered, TypeOK
    <2>3. QED
      BY <1>17, <2>2 DEF GateUnanswered, TypeOK
  <1>18. QED
    BY <1>1, <1>2, <1>3, <1>4, <1>5, <1>6, <1>7, <1>8, <1>9, <1>10, <1>11, <1>12, <1>13, <1>14, <1>15, <1>16, <1>17
       DEF Next

\* Every step preserves the inductive invariant.
LEMMA Inductive == IInv /\ [Next]_vars => IInv'
  BY TypeStep, GateStep, CountStep, BranchStep, OwnerStep, TtlStep,
     LegitimateStep, CauseStep DEF IInv

\* The inductive invariant holds throughout.
LEMMA Invariant == Spec => []IInv
  BY InitInductive, Inductive, PTL DEF Spec

-----------------------------------------------------------------------------
(* The safety properties *)

\* No two consume() calls on one code both return, for any number of
\* concurrent calls: the conditional delete has one winner.
THEOREM RedeemedOnceHolds == Spec => []RedeemedOnce
  <1>1. IInv => RedeemedOnce
    BY DEF IInv, OwnerInv, RedeemedOnce, TypeOK, Call
  <1>2. QED
    BY <1>1, Invariant, PTL

\* At most maxTxCodeAttempts calls on a code ever pass the gate, for any
\* number of calls and any limit.
THEOREM AttemptsBoundedHolds == Spec => []AttemptsBounded
  <1>1. IInv => AttemptsBounded
    <2> SUFFICES ASSUME IInv, NEW c \in Codes
                 PROVE  Cardinality(admitted[c]) <= MaxTxCodeAttempts
      BY DEF AttemptsBounded
    <2>1. /\ attempts[c] = Cardinality(admitted[c]) + unanswered[c]
          /\ attempts[c] <= MaxTxCodeAttempts
      BY DEF IInv, CountInv
    <2>2. Cardinality(admitted[c]) \in Nat /\ unanswered[c] \in Nat
      BY AdmittedFinite DEF IInv, TypeOK
    <2>3. QED
      BY <2>1, <2>2, CodeStoreAssumption
  <1>2. QED
    BY <1>1, Invariant, PTL

\* A code is only ever handed to a call that matched its tx_code and was made
\* before it expired.
THEOREM RedemptionLegitimateHolds == Spec => []RedemptionLegitimate
  <1>1. IInv => RedemptionLegitimate
    BY DEF IInv, LegitimateInv, RedemptionLegitimate
  <1>2. QED
    BY <1>1, Invariant, PTL

\* No delete and no TTL sweep destroys a code that could still be redeemed.
THEOREM NoCodeLostHolds == Spec => []NoCodeLostWithoutCause
  <1>1. IInv => NoCodeLostWithoutCause
    BY DEF IInv, CauseInv, NoCodeLostWithoutCause
  <1>2. QED
    BY <1>1, Invariant, PTL

-----------------------------------------------------------------------------
(* The refinement of CodeRedemption *)

\* Initially both levels know no code.
LEMMA RefinementInit == Init => Redemption!Init
  BY DEF Init, Redemption!Init

\* Passing the gate is spending an attempt.
LEMMA GateSpends ==
    ASSUME IInv, NEW r \in Requests, GateAdmit(r)
    PROVE  Redemption!Spend(call[r].code, r) /\ call[r].code \in Codes
  <1> DEFINE c == call[r].code
  <1>1. c \in Codes /\ c \in stored /\ attempts[c] < MaxTxCodeAttempts
    BY CodeStoreAssumption
       DEF IInv, TypeOK, Call, GateAdmit, Admits, DynamoGate, FirestoreGate
  <1>2. \A d \in Codes : r \notin admitted[d]
    BY DEF IInv, GateInv, PastGate, GateAdmit
  <1>3. /\ attempts' = [attempts EXCEPT ![c] = @ + 1]
        /\ admitted' = [admitted EXCEPT ![c] = @ \cup {r}]
        /\ UNCHANGED <<issued, stored, redeemed>>
    BY DEF GateAdmit
  <1>4. QED
    BY <1>1, <1>2, <1>3 DEF Redemption!Spend

\* A step that leaves the mapped variables alone is a stutter.
LEMMA RefinementStutter ==
    ASSUME issued' = issued, stored' = stored, attempts' = attempts,
           admitted' = admitted, redeemed' = redeemed
    PROVE  UNCHANGED Redemption!vars
  BY DEF Redemption!vars

\* Every step of the protocol is a step of the one-shot code or a stutter.
LEMMA RefinementStep == IInv /\ [Next]_vars => [Redemption!Next]_Redemption!vars
  <1> SUFFICES ASSUME IInv, [Next]_vars
               PROVE  [Redemption!Next]_Redemption!vars
    OBVIOUS
  <1> DEFINE Goal == [Redemption!Next]_Redemption!vars
  <1>0. ASSUME UNCHANGED <<issued, stored, attempts, admitted, redeemed>>
        PROVE  Goal
    BY <1>0, RefinementStutter
  <1>1. CASE Tick
    BY <1>0, <1>1 DEF Tick, storeVars
  <1>2. ASSUME NEW c \in Codes, TtlSweep(c)
        PROVE  Goal
    <2>1. Redemption!Withdraw({c})
      BY <1>2 DEF TtlSweep, Redemption!Withdraw
    <2>2. QED
      BY <2>1 DEF Redemption!Next
  <1>3. ASSUME NEW c \in Codes, NEW mode \in InputModes, NEW tx \in TxCode,
               Save(c, mode, tx)
        PROVE  Goal
    <2>1. Redemption!Offer(c)
      BY <1>3 DEF Save, Redemption!Offer
    <2>2. QED
      BY <2>1 DEF Redemption!Next
  <1>4. ASSUME NEW r \in Requests, NEW c \in Codes, NEW tx \in TxCode,
               Consume(r, c, tx)
        PROVE  Goal
    BY <1>0, <1>4 DEF Consume, storeVars
  <1>5. ASSUME NEW r \in Requests, GateAdmit(r)
        PROVE  Goal
    BY <1>5, GateSpends DEF Redemption!Next
  <1>6. ASSUME NEW r \in Requests, DeleteUnconditional(r)
        PROVE  Goal
    <2> DEFINE c == call[r].code
    <2>1. c \in Codes
      BY DEF IInv, TypeOK, Call
    <2>2. CASE c \in stored
      <3>1. Redemption!Withdraw({c})
        BY <1>6, <2>2 DEF DeleteUnconditional, Redemption!Withdraw
      <3>2. QED
        BY <3>1, <2>1 DEF Redemption!Next
    <2>3. CASE c \notin stored
      <3>1. stored' = stored
        BY <1>6, <2>3 DEF DeleteUnconditional
      <3>2. QED
        BY <1>0, <1>6, <3>1 DEF DeleteUnconditional
    <2>4. QED
      BY <2>2, <2>3
  <1>7. ASSUME NEW r \in Requests,
               DeleteWon(r) \/ (DeleteUnanswered(r) /\ pc[r] = "redeem")
        PROVE  Goal
    <2> DEFINE c == call[r].code
    <2>1. c \in Codes /\ c \in stored /\ r \in admitted[c] /\ redeemed[c] = {}
      BY <1>7 DEF IInv, TypeOK, Call, GateInv, PastGate, OwnerInv, DeleteWon,
                  DeleteUnanswered
    <2>2. /\ stored' = stored \ {c}
          /\ redeemed' = [redeemed EXCEPT ![c] = {r}]
          /\ UNCHANGED <<issued, attempts, admitted>>
      BY <1>7, <2>1 DEF DeleteWon, DeleteUnanswered, IInv, TypeOK
    <2>3. Redemption!Redeem(c, r)
      BY <2>1, <2>2 DEF Redemption!Redeem
    <2>4. QED
      BY <2>1, <2>3 DEF Redemption!Next
  <1>8. ASSUME NEW r \in Requests,
               \/ GateReject(r) \/ EvaluateExpired(r) \/ EvaluateLockout(r)
               \/ EvaluateRefuse(r) \/ EvaluateMatch(r) \/ DeleteLost(r)
               \/ Fail(r)
        PROVE  Goal
    BY <1>0, <1>8 DEF GateReject, EvaluateExpired, EvaluateLockout,
       EvaluateRefuse, EvaluateMatch, DeleteLost, Fail, storeVars
  <1>9. CASE UNCHANGED vars
    BY <1>0, <1>9 DEF vars
  <1>10. ASSUME NEW r \in Requests, DeleteUnanswered(r), pc[r] # "redeem"
        PROVE  Goal
    <2> DEFINE c == call[r].code
    <2>1. c \in Codes
      BY DEF IInv, TypeOK, Call
    <2>2. redeemed' = redeemed
      BY <1>10, <2>1 DEF DeleteUnanswered, IInv, TypeOK
    <2>3. Redemption!Withdraw({c})
      BY <1>10, <2>2 DEF DeleteUnanswered, Redemption!Withdraw
    <2>4. QED
      BY <2>1, <2>3 DEF Redemption!Next
  <1>11. ASSUME NEW r \in Requests, GateUnanswered(r)
        PROVE  Goal
    <2> DEFINE c == call[r].code
    <2>1. c \in Codes /\ c \in stored /\ attempts[c] < MaxTxCodeAttempts
      BY <1>11, CodeStoreAssumption
         DEF IInv, TypeOK, Call, GateUnanswered, Admits, DynamoGate, FirestoreGate
    <2>2. Redemption!Waste(c)
      BY <1>11, <2>1 DEF GateUnanswered, Redemption!Waste
    <2>3. QED
      BY <2>1, <2>2 DEF Redemption!Next
  <1>12. QED
    BY <1>1, <1>2, <1>3, <1>4, <1>5, <1>6, <1>7, <1>8, <1>9, <1>10, <1>11 DEF Next

\* The three-round-trip protocol implements the one-shot code.
THEOREM ImplementsRedemption == Spec => RefinesRedemption
  BY RefinementInit, RefinementStep, Invariant, PTL
     DEF Spec, RefinesRedemption, Redemption!Spec

-----------------------------------------------------------------------------
(* The in-memory store *)

MemoryReplies == {"none", "ok", "invalid_grant", "invalid_request"}
MemoryTxCodes == TxCode \cup [type : {"string"}, text : Digits]
MemoryEntries == [tx_code : MemoryTxCodes, mode : {"numeric", "text"}, expires_at : Nat]
MemoryCalls == [code : Codes, tx : TxCode, at : Nat]

MemoryTypeOK ==
    /\ backend = "memory"
    /\ now \in Nat
    /\ issued \subseteq Codes /\ stored \subseteq issued
    /\ entry \in [Codes -> MemoryEntries]
    /\ attempts \in [Codes -> Nat]
    /\ call \in [Requests -> MemoryCalls]
    /\ reply \in [Requests -> MemoryReplies]
    /\ admitted \in [Codes -> SUBSET Requests]
    /\ redeemed \in [Codes -> SUBSET Requests]

\* A code that was not saved has no history, and one in the map is not redeemed.
MemoryCodeInv(c) ==
    /\ c \notin issued => attempts[c] = 0 /\ admitted[c] = {}
    /\ c \notin issued \/ c \in stored => redeemed[c] = {}

\* Only a call that has been answered is in a code's history.
MemoryCallInv(r) == reply[r] = "none" => \A c \in Codes : r \notin admitted[c]

\* LiveCodeHasAttemptsLeft, of the map.
LiveInv ==
    \A c \in stored : /\ attempts[c] < MaxTxCodeAttempts
                      /\ \A r \in admitted[c] :
                            MemoryVerdict(entry[c], call[r].tx) # "match"

MemoryIInv ==
    /\ MemoryTypeOK
    /\ \A c \in Codes : MemoryCodeInv(c)
    /\ \A r \in Requests : MemoryCallInv(r)
    /\ LiveInv

-----------------------------------------------------------------------------
(* The steps of the in-memory store *)

\* Nothing is saved.
LEMMA MemoryInitInv == MemoryInit => MemoryIInv
  <1> SUFFICES ASSUME MemoryInit PROVE MemoryIInv
    OBVIOUS
  <1>1. (CHOOSE c \in Codes : TRUE) \in Codes
    BY InMemoryCodeStoreAssumption
  <1>2. NoCall \in MemoryCalls
    BY <1>1 DEF NoCall, MemoryCalls, TxCode
  <1>3. MemoryNoEntry \in MemoryEntries
    BY DEF MemoryNoEntry, MemoryEntries, MemoryTxCodes, TxCode
  <1>4. MemoryTypeOK
    BY <1>2, <1>3 DEF MemoryInit, MemoryTypeOK, MemoryReplies
  <1>5. QED
    BY <1>4 DEF MemoryInit, MemoryIInv, MemoryCodeInv, MemoryCallInv, LiveInv

\* What save() keeps of a tx_code it accepts.
LEMMA MemoryStoredType ==
    ASSUME NEW mode \in {"numeric", "text"}, NEW tx \in TxCode,
           (tx # NoTxCode /\ mode # "text") => toDigitString(tx) # NoText
    PROVE  StoredTxCode(mode, tx) \in MemoryTxCodes
  <1>1. CASE tx # NoTxCode /\ mode # "text"
    <2>1. toDigitString(tx) \in Digits
      BY <1>1 DEF toDigitString
    <2>2. QED
      BY <1>1, <2>1 DEF StoredTxCode, MemoryTxCodes
  <1>2. CASE ~(tx # NoTxCode /\ mode # "text")
    BY <1>2 DEF StoredTxCode, MemoryTxCodes
  <1>3. QED
    BY <1>1, <1>2

\* A code is saved with all its attempts, and nobody has tried it.
LEMMA MemorySaveKeeps ==
    ASSUME MemoryIInv,
           NEW c \in Codes, NEW mode \in {"numeric", "text"}, NEW tx \in TxCode,
           MemorySave(c, mode, tx)
    PROVE  MemoryIInv'
  <1> DEFINE e == [tx_code |-> StoredTxCode(mode, tx), mode |-> mode,
                   expires_at |-> now + TtlSec]
  <1>1. MemoryTypeOK /\ MemoryCodeInv(c) /\ c \notin issued
    BY DEF MemoryIInv, MemorySave
  <1>2. e \in MemoryEntries
    BY <1>1, MemoryStoredType, InMemoryCodeStoreAssumption DEF MemorySave, MemoryEntries, MemoryTypeOK
  <1>3. /\ entry' = [entry EXCEPT ![c] = e]
        /\ issued' = issued \cup {c} /\ stored' = stored \cup {c}
        /\ UNCHANGED <<backend, now, attempts, call, reply, admitted, redeemed>>
    BY DEF MemorySave
  <1>4. \A d \in Codes \ {c} : entry'[d] = entry[d]
    BY <1>1, <1>3 DEF MemoryTypeOK
  <1>5. MemoryTypeOK'
    BY <1>1, <1>2, <1>3 DEF MemoryTypeOK
  <1>6. attempts[c] = 0 /\ admitted[c] = {} /\ redeemed[c] = {}
    BY <1>1 DEF MemoryCodeInv
  <1>7. \A d \in Codes : MemoryCodeInv(d)'
    BY <1>3, <1>6 DEF MemoryIInv, MemoryCodeInv
  <1>8. \A r \in Requests : MemoryCallInv(r)'
    BY <1>3 DEF MemoryIInv, MemoryCallInv
  <1>9. LiveInv'
    <2>1. attempts'[c] < MaxTxCodeAttempts /\ admitted'[c] = {}
      BY <1>3, <1>6, InMemoryCodeStoreAssumption
    <2>2. \A d \in stored : d # c /\ d \in Codes
      BY <1>1 DEF MemoryTypeOK
    <2>3. QED
      BY <1>3, <1>4, <2>1, <2>2 DEF MemoryIInv, LiveInv, MemoryVerdict
  <1>10. QED
    BY <1>5, <1>7, <1>8, <1>9 DEF MemoryIInv

\* A call that does not pass the gate leaves no trace but its answer.
LEMMA MemoryRejectedKeeps ==
    ASSUME MemoryIInv, NEW r \in Requests, NEW c \in Codes, NEW tx \in TxCode,
           reply[r] = "none",
           call' = [call EXCEPT ![r] = [code |-> c, tx |-> tx, at |-> now]],
           reply' = [reply EXCEPT ![r] = "invalid_grant"],
           UNCHANGED <<backend, now, issued, stored, entry, attempts, admitted, redeemed>>
    PROVE  MemoryIInv'
  <1>1. MemoryTypeOK /\ MemoryCallInv(r)
    BY DEF MemoryIInv
  <1>2. [code |-> c, tx |-> tx, at |-> now] \in MemoryCalls
    BY <1>1 DEF MemoryTypeOK, MemoryCalls
  <1>3. MemoryTypeOK'
    BY <1>1, <1>2 DEF MemoryTypeOK, MemoryReplies
  <1>4. \A x \in Requests \ {r} : call'[x] = call[x] /\ reply'[x] = reply[x]
    BY <1>1 DEF MemoryTypeOK
  <1>5. reply'[r] = "invalid_grant"
    BY <1>1 DEF MemoryTypeOK
  <1>6. \A d \in Codes : MemoryCodeInv(d)'
    BY DEF MemoryIInv, MemoryCodeInv
  <1>7. \A x \in Requests : MemoryCallInv(x)'
    BY <1>4, <1>5 DEF MemoryIInv, MemoryCallInv
  <1>8. LiveInv'
    <2>1. \A d \in stored : d \in Codes /\ r \notin admitted[d] /\ admitted[d] \subseteq Requests
      BY <1>1 DEF MemoryTypeOK, MemoryCallInv
    <2>2. QED
      BY <1>4, <2>1 DEF MemoryIInv, LiveInv, MemoryVerdict
  <1>9. QED
    BY <1>3, <1>6, <1>7, <1>8 DEF MemoryIInv

\* A call that passes the gate, by how it is settled.
MemorySettled(r, c, tx, delete, winner, answer) ==
    /\ call' = [call EXCEPT ![r] = [code |-> c, tx |-> tx, at |-> now]]
    /\ attempts' = [attempts EXCEPT ![c] = @ + 1]
    /\ admitted' = [admitted EXCEPT ![c] = @ \cup {r}]
    /\ Settle(r, c, delete, winner, answer)
    /\ UNCHANGED <<backend, now, issued, entry>>

\* A settled call deletes the entry, or leaves attempts after a tx_code that did
\* not match.
LEMMA MemorySettledKeeps ==
    ASSUME MemoryIInv, NEW r \in Requests, NEW c \in stored, NEW tx \in TxCode,
           reply[r] = "none",
           NEW delete \in BOOLEAN, NEW winner \in BOOLEAN,
           NEW answer \in MemoryReplies \ {"none"},
           MemorySettled(r, c, tx, delete, winner, answer),
           delete \/ (MemoryVerdict(entry[c], tx) # "match"
                      /\ attempts[c] + 1 < MaxTxCodeAttempts),
           winner => delete
    PROVE  MemoryIInv'
  <1> DEFINE a == [code |-> c, tx |-> tx, at |-> now]
  <1>1. MemoryTypeOK /\ MemoryCallInv(r) /\ c \in Codes /\ c \in issued
    BY DEF MemoryIInv, MemoryTypeOK
  <1>2. a \in MemoryCalls
    BY <1>1 DEF MemoryTypeOK, MemoryCalls
  <1>3. /\ call' = [call EXCEPT ![r] = a]
        /\ attempts' = [attempts EXCEPT ![c] = attempts[c] + 1]
        /\ admitted' = [admitted EXCEPT ![c] = admitted[c] \cup {r}]
        /\ stored' = IF delete THEN stored \ {c} ELSE stored
        /\ redeemed' = [redeemed EXCEPT ![c] =
                           IF winner THEN redeemed[c] \cup {r} ELSE redeemed[c]]
        /\ reply' = [reply EXCEPT ![r] = answer]
        /\ UNCHANGED <<backend, now, issued, entry>>
    BY DEF MemorySettled, Settle
  <1>4. /\ call' \in [Requests -> MemoryCalls] /\ call'[r] = a
        /\ \A x \in Requests \ {r} : call'[x] = call[x]
    BY <1>1, <1>2, <1>3 DEF MemoryTypeOK
  <1>5. /\ attempts' \in [Codes -> Nat] /\ attempts'[c] = attempts[c] + 1
        /\ \A d \in Codes \ {c} : attempts'[d] = attempts[d]
    BY <1>1, <1>3 DEF MemoryTypeOK
  <1>6. /\ admitted' \in [Codes -> SUBSET Requests] /\ admitted'[c] = admitted[c] \cup {r}
        /\ \A d \in Codes \ {c} : admitted'[d] = admitted[d]
    BY <1>1, <1>3 DEF MemoryTypeOK
  <1>7. /\ redeemed' \in [Codes -> SUBSET Requests]
        /\ \A d \in Codes \ {c} : redeemed'[d] = redeemed[d]
        /\ ~winner => redeemed'[c] = redeemed[c]
    BY <1>1, <1>3 DEF MemoryTypeOK
  <1>8. /\ reply' \in [Requests -> MemoryReplies] /\ reply'[r] = answer
        /\ \A x \in Requests \ {r} : reply'[x] = reply[x]
    BY <1>1, <1>3 DEF MemoryTypeOK
  <1>9. MemoryTypeOK'
    BY <1>1, <1>3, <1>4, <1>5, <1>6, <1>7, <1>8 DEF MemoryTypeOK
  <1>10. ASSUME NEW d \in Codes PROVE MemoryCodeInv(d)'
    <2>1. MemoryCodeInv(d)
      BY DEF MemoryIInv
    <2>2. CASE d = c
      BY <1>1, <1>3, <1>7, <2>1, <2>2 DEF MemoryCodeInv
    <2>3. CASE d # c
      BY <1>3, <1>5, <1>6, <1>7, <2>1, <2>3 DEF MemoryCodeInv
    <2>4. QED
      BY <2>2, <2>3
  <1>11. ASSUME NEW x \in Requests PROVE MemoryCallInv(x)'
    <2>1. MemoryCallInv(x)
      BY DEF MemoryIInv
    <2>2. CASE x = r
      BY <1>1, <1>3, <1>4, <1>8, <2>2 DEF MemoryCallInv
    <2>3. CASE x # r
      BY <1>3, <1>4, <1>6, <1>8, <2>1, <2>3 DEF MemoryCallInv
    <2>4. QED
      BY <2>2, <2>3
  <1>12. LiveInv'
    <2> SUFFICES ASSUME NEW d \in stored'
                 PROVE  /\ attempts'[d] < MaxTxCodeAttempts
                        /\ \A x \in admitted'[d] : MemoryVerdict(entry[d], call'[x].tx) # "match"
      BY <1>3 DEF LiveInv, MemoryVerdict
    <2>1. d \in stored /\ d \in Codes /\ (d = c => ~delete)
      BY <1>1, <1>3 DEF MemoryTypeOK
    <2>2. /\ attempts[d] < MaxTxCodeAttempts
          /\ \A x \in admitted[d] : MemoryVerdict(entry[d], call[x].tx) # "match"
      BY <2>1 DEF MemoryIInv, LiveInv
    <2>3. r \notin admitted[d] /\ admitted[d] \subseteq Requests
      BY <1>1, <2>1 DEF MemoryCallInv, MemoryTypeOK
    <2>4. \A x \in admitted[d] : call'[x] = call[x]
      BY <1>4, <2>3
    <2>5. CASE d = c
      <3>1. MemoryVerdict(entry[c], call'[r].tx) # "match"
        BY <1>4, <2>1, <2>5
      <3>2. QED
        BY <1>5, <1>6, <2>1, <2>2, <2>4, <2>5, <3>1
    <2>6. CASE d # c
      BY <1>5, <1>6, <2>1, <2>2, <2>4, <2>6
    <2>7. QED
      BY <2>5, <2>6
  <1>13. QED
    BY <1>9, <1>10, <1>11, <1>12 DEF MemoryIInv

\* How consume() settles a call that passes the gate.
LEMMA MemoryHowSettled ==
    ASSUME MemoryIInv, NEW r \in Requests, NEW c \in stored, NEW tx \in TxCode,
           MemoryConsume(r, c, tx), attempts[c] < MaxTxCodeAttempts
    PROVE  \E delete \in BOOLEAN, winner \in BOOLEAN, answer \in MemoryReplies \ {"none"} :
             /\ MemorySettled(r, c, tx, delete, winner, answer)
             /\ \/ delete
                \/ MemoryVerdict(entry[c], tx) # "match" /\ attempts[c] + 1 < MaxTxCodeAttempts
             /\ winner => delete
  <1> DEFINE exhausted == attempts'[c] >= MaxTxCodeAttempts
  <1>1. c \in Codes /\ attempts[c] \in Nat /\ now \in Nat /\ entry[c].expires_at \in Nat
        /\ attempts \in [Codes -> Nat]
    BY DEF MemoryIInv, MemoryTypeOK, MemoryEntries
  <1>2. ~(c \notin stored \/ attempts[c] >= MaxTxCodeAttempts)
    BY <1>1, InMemoryCodeStoreAssumption
  <1>3. /\ call' = [call EXCEPT ![r] = [code |-> c, tx |-> tx, at |-> now]]
        /\ attempts' = [attempts EXCEPT ![c] = @ + 1]
        /\ admitted' = [admitted EXCEPT ![c] = @ \cup {r}]
        /\ UNCHANGED <<backend, now, issued, entry>>
    BY <1>2 DEF MemoryConsume
  <1>4. IF MemoryExpired(c) THEN Settle(r, c, TRUE, FALSE, "invalid_grant")
        ELSE IF MemoryVerdict(entry[c], tx) = "match" THEN Settle(r, c, TRUE, TRUE, "ok")
        ELSE IF exhausted THEN Settle(r, c, TRUE, FALSE, "invalid_grant")
        ELSE Settle(r, c, FALSE, FALSE, Refusal(MemoryVerdict(entry[c], tx)))
    BY <1>2 DEF MemoryConsume
  <1>5. attempts'[c] = attempts[c] + 1
    BY <1>1, <1>3
  <1>6. CASE MemoryExpired(c)
    <2>1. MemorySettled(r, c, tx, TRUE, FALSE, "invalid_grant")
      BY <1>3, <1>4, <1>6 DEF MemorySettled
    <2>2. "invalid_grant" \in MemoryReplies \ {"none"} /\ "invalid_grant" # "ok"
      BY DEF MemoryReplies
    <2> USE <2>2
    <2> WITNESS TRUE \in BOOLEAN, FALSE \in BOOLEAN, "invalid_grant" \in MemoryReplies \ {"none"}
    <2>3. QED
      BY <2>1, <2>2
  <1>7. CASE ~MemoryExpired(c) /\ MemoryVerdict(entry[c], tx) = "match"
    <2>1. MemorySettled(r, c, tx, TRUE, TRUE, "ok")
      BY <1>3, <1>4, <1>7 DEF MemorySettled
    <2>2. now <= entry[c].expires_at
      BY <1>1, <1>7 DEF MemoryExpired
    <2>3. QED
      BY <1>7, <2>1, <2>2 DEF MemoryReplies
  <1>8. CASE ~MemoryExpired(c) /\ MemoryVerdict(entry[c], tx) # "match" /\ exhausted
    <2>1. MemorySettled(r, c, tx, TRUE, FALSE, "invalid_grant")
      BY <1>3, <1>4, <1>8 DEF MemorySettled
    <2>2. "invalid_grant" \in MemoryReplies \ {"none"} /\ "invalid_grant" # "ok"
      BY DEF MemoryReplies
    <2> USE <2>2
    <2> WITNESS TRUE \in BOOLEAN, FALSE \in BOOLEAN, "invalid_grant" \in MemoryReplies \ {"none"}
    <2>3. QED
      BY <2>1, <2>2
  <1>9. CASE ~MemoryExpired(c) /\ MemoryVerdict(entry[c], tx) # "match" /\ ~exhausted
    <2>1. PICK a \in {"invalid_grant", "invalid_request"} :
             a = Refusal(MemoryVerdict(entry[c], tx))
      BY DEF Refusal
    <2>2. MemorySettled(r, c, tx, FALSE, FALSE, a)
      BY <1>3, <1>4, <1>9, <2>1 DEF MemorySettled
    <2>3. attempts[c] + 1 < MaxTxCodeAttempts
      BY <1>1, <1>5, <1>9, InMemoryCodeStoreAssumption
    <2>4. a \in MemoryReplies \ {"none"} /\ a # "ok"
      BY DEF MemoryReplies
    <2> USE <2>4
    <2> WITNESS FALSE \in BOOLEAN, FALSE \in BOOLEAN, a \in MemoryReplies \ {"none"}
    <2>5. QED
      BY <1>9, <2>2, <2>3, <2>4
  <1>10. QED
    BY <1>6, <1>7, <1>8, <1>9

\* A call of consume(), whole.
LEMMA MemoryConsumeKeeps ==
    ASSUME MemoryIInv, NEW r \in Requests, NEW c \in Codes, NEW tx \in TxCode,
           MemoryConsume(r, c, tx)
    PROVE  MemoryIInv'
  <1>1. reply[r] = "none"
    BY DEF MemoryConsume
  <1>2. CASE c \notin stored \/ attempts[c] >= MaxTxCodeAttempts
    <2>1. /\ call' = [call EXCEPT ![r] = [code |-> c, tx |-> tx, at |-> now]]
          /\ reply' = [reply EXCEPT ![r] = "invalid_grant"]
          /\ UNCHANGED <<backend, now, issued, stored, entry, attempts, admitted, redeemed>>
      BY <1>2 DEF MemoryConsume
    <2>2. QED
      BY <1>1, <2>1, MemoryRejectedKeeps
  <1>3. CASE c \in stored /\ attempts[c] < MaxTxCodeAttempts
    BY <1>1, <1>3, MemoryHowSettled, MemorySettledKeeps
  <1>4. QED
    BY <1>2, <1>3, InMemoryCodeStoreAssumption DEF MemoryIInv, MemoryTypeOK

\* Time passing, and a lost map, leave the rest as it was.
LEMMA MemoryOthersKeep ==
    ASSUME MemoryIInv, MemoryTick \/ Restart \/ UNCHANGED memoryVars
    PROVE  MemoryIInv'
  <1>1. /\ UNCHANGED <<backend, issued, entry, attempts, call, reply, admitted, redeemed>>
        /\ stored' \subseteq stored
        /\ now' \in Nat
    BY DEF MemoryIInv, MemoryTypeOK, MemoryTick, Restart, memoryVars
  <1>2. MemoryTypeOK'
    BY <1>1 DEF MemoryIInv, MemoryTypeOK
  <1>3. LiveInv'
    BY <1>1 DEF MemoryIInv, LiveInv, MemoryVerdict
  <1>4. QED
    BY <1>1, <1>2, <1>3 DEF MemoryIInv, MemoryCodeInv, MemoryCallInv

\* The invariant holds throughout.
THEOREM MemoryInvariantHolds == MemorySpec => []MemoryIInv
  <1>1. MemoryIInv /\ [MemoryNext]_memoryVars => MemoryIInv'
    BY MemorySaveKeeps, MemoryConsumeKeeps, MemoryOthersKeep DEF MemoryNext
  <1>2. QED
    BY <1>1, MemoryInitInv, PTL DEF MemorySpec

\* While a code is in the map its attempts were refusals, with attempts to spare:
\* no call that matched, and no last attempt, leaves it there.
THEOREM LiveCodeHasAttemptsLeftHolds == MemorySpec => []LiveCodeHasAttemptsLeft
  <1>1. MemoryIInv => LiveCodeHasAttemptsLeft
    BY DEF MemoryIInv, LiveInv, LiveCodeHasAttemptsLeft
  <1>2. QED
    BY <1>1, MemoryInvariantHolds, PTL

-----------------------------------------------------------------------------
(* The in-memory store refines CodeRedemption *)

\* A call that passes the gate spends an attempt, and with it redeems or withdraws
\* the code or leaves it.
LEMMA MemorySettledRefines ==
    ASSUME MemoryIInv, NEW r \in Requests, NEW c \in stored, NEW tx \in TxCode,
           reply[r] = "none", attempts[c] < MaxTxCodeAttempts,
           NEW delete \in BOOLEAN, NEW winner \in BOOLEAN,
           NEW answer \in MemoryReplies, MemorySettled(r, c, tx, delete, winner, answer),
           winner => delete
    PROVE  Redemption!Next
  <1>1. c \in Codes /\ \A d \in Codes : r \notin admitted[d]
    BY DEF MemoryIInv, MemoryTypeOK, MemoryCallInv
  <1>2. redeemed \in [Codes -> SUBSET Requests] /\ redeemed[c] = {}
    BY <1>1 DEF MemoryIInv, MemoryTypeOK, MemoryCodeInv
  <1>3. /\ attempts' = [attempts EXCEPT ![c] = @ + 1]
        /\ admitted' = [admitted EXCEPT ![c] = @ \cup {r}]
        /\ stored' = IF delete THEN stored \ {c} ELSE stored
        /\ redeemed' = [redeemed EXCEPT ![c] =
                           IF winner THEN redeemed[c] \cup {r} ELSE redeemed[c]]
        /\ issued' = issued
    BY DEF MemorySettled, Settle
  <1>4. redeemed' = IF winner THEN [redeemed EXCEPT ![c] = {r}] ELSE redeemed
    BY <1>2, <1>3
  <1>5. CASE winner
    <2>1. Redemption!SpendAndRedeem(c, r)
      BY <1>1, <1>3, <1>4, <1>5 DEF Redemption!SpendAndRedeem
    <2>2. QED
      BY <1>1, <2>1 DEF Redemption!Next
  <1>6. CASE delete /\ ~winner
    <2>1. Redemption!SpendAndWithdraw(c, r)
      BY <1>1, <1>3, <1>4, <1>6 DEF Redemption!SpendAndWithdraw
    <2>2. QED
      BY <1>1, <2>1 DEF Redemption!Next
  <1>7. CASE ~delete
    <2>1. Redemption!Spend(c, r)
      BY <1>1, <1>3, <1>4, <1>7 DEF Redemption!Spend
    <2>2. QED
      BY <1>1, <2>1 DEF Redemption!Next
  <1>8. QED
    BY <1>5, <1>6, <1>7

\* Every step of the map is a step of the one-shot code or a stutter.
LEMMA MemoryRefinementStep ==
    MemoryIInv /\ [MemoryNext]_memoryVars
        => [Redemption!Next]_Redemption!vars
  <1> SUFFICES ASSUME MemoryIInv, [MemoryNext]_memoryVars
               PROVE  [Redemption!Next]_Redemption!vars
    OBVIOUS
  <1>1. ASSUME UNCHANGED <<issued, stored, attempts, admitted, redeemed>>
        PROVE  UNCHANGED Redemption!vars
    BY <1>1 DEF Redemption!vars
  <1>2. CASE MemoryTick \/ UNCHANGED memoryVars
    BY <1>1, <1>2 DEF MemoryTick, memoryVars
  <1>3. CASE Restart
    <2>1. Redemption!Withdraw(Codes)
      BY <1>3 DEF Restart, Redemption!Withdraw, MemoryIInv, MemoryTypeOK
    <2>2. QED
      BY <2>1 DEF Redemption!Next
  <1>4. ASSUME NEW c \in Codes, NEW mode \in {"numeric", "text"}, NEW tx \in TxCode,
               MemorySave(c, mode, tx)
        PROVE  Redemption!Next
    <2>1. Redemption!Offer(c)
      BY <1>4 DEF MemorySave, Redemption!Offer
    <2>2. QED
      BY <2>1 DEF Redemption!Next
  <1>5. ASSUME NEW r \in Requests, NEW c \in Codes, NEW tx \in TxCode,
               MemoryConsume(r, c, tx)
        PROVE  [Redemption!Next]_Redemption!vars
    <2>1. CASE c \notin stored \/ attempts[c] >= MaxTxCodeAttempts
      BY <1>1, <1>5, <2>1 DEF MemoryConsume
    <2>2. CASE c \in stored /\ attempts[c] < MaxTxCodeAttempts
      <3>1. reply[r] = "none"
        BY <1>5 DEF MemoryConsume
      <3>2. QED
        BY <1>5, <2>2, <3>1, MemoryHowSettled, MemorySettledRefines
    <2>3. QED
      BY <2>1, <2>2, InMemoryCodeStoreAssumption DEF MemoryIInv, MemoryTypeOK
  <1>6. QED
    BY <1>2, <1>3, <1>4, <1>5 DEF MemoryNext

\* The single-turn consume() implements the one-shot code, restarts included.
THEOREM MemoryImplementsRedemption == MemorySpec => RefinesRedemption
  <1>1. MemoryInit => Redemption!Init
    BY DEF MemoryInit, Redemption!Init
  <1>2. QED
    BY <1>1, MemoryRefinementStep, MemoryInvariantHolds, PTL
       DEF MemorySpec, RefinesRedemption, Redemption!Spec

=============================================================================
