------------------------- MODULE InMemoryCodeStore --------------------------
(***************************************************************************)
(* The in-memory pre-authorized code store.  Its consume() has no await in *)
(* it, so each call runs in one turn of the event loop: one action.  The   *)
(* map is lost when the process restarts.  Names that PreAuthCodeStore has *)
(* too begin with Memory here.                                             *)
(***************************************************************************)
EXTENDS CodeStore

ASSUME InMemoryCodeStoreAssumption ==
    /\ Codes # {}
    /\ MaxTxCodeAttempts \in Nat \ {0}
    /\ {TtlSec, MaxNow} \subseteq Nat

memoryVars == <<backend, now, issued, stored, entry, attempts, call, reply,
                admitted, redeemed>>

\* The tx_code as kept in the map: numeric codes as their digit string.
StoredTxCode(mode, tx) ==
    IF tx # NoTxCode /\ mode # "text"
    THEN [type |-> "string", text |-> toDigitString(tx)]
    ELSE tx

MemoryNoEntry == [tx_code |-> NoTxCode, mode |-> "numeric", expires_at |-> 0]

MemoryExpired(c) == entry[c].expires_at < now

MemoryVerdict(e, tx) ==
    IF e.tx_code # NoTxCode
    THEN IF tx = NoTxCode THEN "missing"
         ELSE IF e.mode # "text"
         THEN IF \/ toDigitString(e.tx_code) = NoText
                 \/ toDigitString(tx) = NoText
                 \/ toDigitString(e.tx_code) # toDigitString(tx)
              THEN "mismatch" ELSE "match"
         ELSE IF e.tx_code # tx THEN "mismatch" ELSE "match"
    ELSE IF tx # NoTxCode THEN "unexpected" ELSE "match"

MemoryInit ==
    /\ backend = "memory"
    /\ now = 0
    /\ issued = {}
    /\ stored = {}
    /\ entry = [c \in Codes |-> MemoryNoEntry]
    /\ attempts = [c \in Codes |-> 0]
    /\ call = [r \in Requests |-> NoCall]
    /\ reply = [r \in Requests |-> "none"]
    /\ admitted = [c \in Codes |-> {}]
    /\ redeemed = [c \in Codes |-> {}]

MemoryTick ==
    /\ now < MaxNow
    /\ now' = now + 1
    /\ UNCHANGED <<backend, issued, stored, entry, attempts, call, reply, admitted,
                   redeemed>>

MemorySave(c, mode, tx) ==
    /\ c \notin issued
    /\ (tx # NoTxCode /\ mode # "text") => toDigitString(tx) # NoText
    /\ entry' = [entry EXCEPT ![c] = [tx_code |-> StoredTxCode(mode, tx),
                                      mode |-> mode,
                                      expires_at |-> now + TtlSec]]
    /\ issued' = issued \cup {c}
    /\ stored' = stored \cup {c}
    /\ UNCHANGED <<backend, now, attempts, call, reply, admitted, redeemed>>

\* Mutant: the entry is kept when the call succeeds.
SettleKeep(r, c, delete, winner, answer) ==
    /\ stored' = IF delete /\ ~winner THEN stored \ {c} ELSE stored
    /\ redeemed' = [redeemed EXCEPT ![c] = IF winner THEN @ \cup {r} ELSE @]
    /\ reply' = [reply EXCEPT ![r] = answer]

\* The end of a call on a code that passed the gate: whether the entry is
\* deleted, who redeemed it, and the answer.
Settle(r, c, delete, winner, answer) ==
    /\ stored' = IF delete THEN stored \ {c} ELSE stored
    /\ redeemed' = [redeemed EXCEPT ![c] = IF winner THEN @ \cup {r} ELSE @]
    /\ reply' = [reply EXCEPT ![r] = answer]

MemoryConsume(r, c, tx) ==
    /\ reply[r] = "none"
    /\ call' = [call EXCEPT ![r] = [code |-> c, tx |-> tx, at |-> now]]
    /\ IF c \notin stored \/ attempts[c] >= MaxTxCodeAttempts
       THEN /\ reply' = [reply EXCEPT ![r] = "invalid_grant"]
            /\ UNCHANGED <<stored, attempts, admitted, redeemed>>
       ELSE /\ attempts' = [attempts EXCEPT ![c] = @ + 1]
            /\ admitted' = [admitted EXCEPT ![c] = @ \cup {r}]
            /\ LET verdict == MemoryVerdict(entry[c], tx)
                   exhausted == attempts'[c] >= MaxTxCodeAttempts
               IN  IF MemoryExpired(c) THEN Settle(r, c, TRUE, FALSE, "invalid_grant")
                   ELSE IF verdict = "match" THEN Settle(r, c, TRUE, TRUE, "ok")
                   ELSE IF exhausted THEN Settle(r, c, TRUE, FALSE, "invalid_grant")
                   ELSE Settle(r, c, FALSE, FALSE, Refusal(verdict))
    /\ UNCHANGED <<backend, now, issued, entry>>

\* The process restarts: the map starts empty.
Restart ==
    /\ stored # {}
    /\ stored' = {}
    /\ UNCHANGED <<backend, now, issued, entry, attempts, call, reply, admitted,
                   redeemed>>

MemoryNext ==
    \/ MemoryTick
    \/ Restart
    \/ \E c \in Codes, mode \in {"numeric", "text"}, tx \in TxCode : MemorySave(c, mode, tx)
    \/ \E r \in Requests, c \in Codes, tx \in TxCode : MemoryConsume(r, c, tx)

MemorySpec == MemoryInit /\ [][MemoryNext]_memoryVars

-----------------------------------------------------------------------------
(* Properties *)

\* An attempt is charged before anything else is looked at, a refused last
\* attempt or an expired entry takes the code with it, and nothing else does:
\* while an entry is in the map its attempts were all refusals with attempts
\* to spare.
LiveCodeHasAttemptsLeft ==
    backend = "memory" =>
      \A c \in stored : /\ attempts[c] < MaxTxCodeAttempts
                        /\ \A r \in admitted[c] :
                              MemoryVerdict(entry[c], call[r].tx) # "match"

=============================================================================
