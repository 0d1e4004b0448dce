--------------------------- MODULE CodeRedemption ---------------------------
(***************************************************************************)
(* What a pre-authorized code store promises, whatever the backend.        *)
(*                                                                         *)
(* A code that was offered is live until it is redeemed or withdrawn.  A   *)
(* consume request spends one of the MaxTxCodeAttempts attempts of a live  *)
(* code before it may redeem it, and a redeemed or withdrawn code is gone  *)
(* for good.  An attempt may also be wasted: counted for a request that is *)
(* never told.  The backends (in-memory, DynamoDB, Firestore) refine this. *)
(***************************************************************************)
EXTENDS Naturals

CONSTANTS Codes,              \* pre-authorized codes
          Requests,           \* calls of consume()
          MaxTxCodeAttempts   \* the brute-force limit

VARIABLES offered,   \* codes that save() stored at some time
          live,      \* codes that can still be redeemed
          tries,     \* code -> attempts used up
          spent,     \* code -> requests that spent an attempt of it
          winners    \* code -> requests that redeemed it

vars == <<offered, live, tries, spent, winners>>

Init ==
    /\ offered = {}
    /\ live = {}
    /\ tries = [c \in Codes |-> 0]
    /\ spent = [c \in Codes |-> {}]
    /\ winners = [c \in Codes |-> {}]

Offer(c) ==
    /\ c \notin offered
    /\ offered' = offered \cup {c}
    /\ live' = live \cup {c}
    /\ UNCHANGED <<tries, spent, winners>>

Spend(c, r) ==
    /\ c \in live
    /\ \A d \in Codes : r \notin spent[d]
    /\ tries[c] < MaxTxCodeAttempts
    /\ tries' = [tries EXCEPT ![c] = @ + 1]
    /\ spent' = [spent EXCEPT ![c] = @ \cup {r}]
    /\ UNCHANGED <<offered, live, winners>>

\* An attempt is counted and nobody learns of it.
Waste(c) ==
    /\ c \in live
    /\ tries[c] < MaxTxCodeAttempts
    /\ tries' = [tries EXCEPT ![c] = @ + 1]
    /\ UNCHANGED <<offered, live, spent, winners>>

Redeem(c, r) ==
    /\ c \in live
    /\ r \in spent[c]
    /\ live' = live \ {c}
    /\ winners' = [winners EXCEPT ![c] = {r}]
    /\ UNCHANGED <<offered, tries, spent>>

\* Codes end unredeemed: expired, locked out, or lost with their store.
Withdraw(C) ==
    /\ live' = live \ C
    /\ UNCHANGED <<offered, tries, spent, winners>>

\* One consume() call that both spends an attempt and ends the code's life,
\* as a backend does that runs the whole call in one turn.
SpendAndRedeem(c, r) ==
    /\ c \in live
    /\ \A d \in Codes : r \notin spent[d]
    /\ tries[c] < MaxTxCodeAttempts
    /\ tries' = [tries EXCEPT ![c] = @ + 1]
    /\ spent' = [spent EXCEPT ![c] = @ \cup {r}]
    /\ live' = live \ {c}
    /\ winners' = [winners EXCEPT ![c] = {r}]
    /\ UNCHANGED offered

SpendAndWithdraw(c, r) ==
    /\ c \in live
    /\ \A d \in Codes : r \notin spent[d]
    /\ tries[c] < MaxTxCodeAttempts
    /\ tries' = [tries EXCEPT ![c] = @ + 1]
    /\ spent' = [spent EXCEPT ![c] = @ \cup {r}]
    /\ live' = live \ {c}
    /\ UNCHANGED <<offered, winners>>

Next ==
    \/ \E C \in SUBSET Codes : Withdraw(C)
    \/ \E c \in Codes :
        \/ Offer(c)
        \/ Waste(c)
        \/ \E r \in Requests : \/ Spend(c, r)
                               \/ Redeem(c, r)
                               \/ SpendAndRedeem(c, r)
                               \/ SpendAndWithdraw(c, r)

Spec == Init /\ [][Next]_vars

=============================================================================
