----------------------------- MODULE CodeStore ------------------------------
(***************************************************************************)
(* What the stores for pre-authorized codes have in common: the codes that *)
(* are saved and their attempts, the calls of consume(), and the promise   *)
(* all of them make, that of CodeRedemption.                               *)
(***************************************************************************)
EXTENDS Naturals, FiniteSets

CONSTANTS Codes,              \* pre-authorized codes (random, never reused)
          Requests,           \* calls of consume()
          Digits,             \* the texts that match /^\d+$/
          TxInput,            \* the tx_codes that occur: a JSON string or a JSON
                              \* number, with the text toString() yields for it
          NoTxCode,           \* tx_code === undefined
          NoText,             \* toDigitString() === null
          Backends,           \* stores looked at: "memory", "dynamodb", "firestore"
          MaxTxCodeAttempts,  \* maxTxCodeAttempts after clamping
          TtlSec,             \* ttlSec after clamping
          MaxNow              \* bound on the clock

VARIABLES backend,   \* the store the server is configured with
          now,       \* the clock
          issued,    \* history: codes that were saved
          stored,    \* codes whose entry is in the store
          entry,     \* code -> what save() wrote (kept as a history when it is
                     \*         deleted: requests hold copies of it)
          attempts,  \* code -> the attempts counted in its entry
          call,      \* request -> its arguments and when it was made
          reply,     \* request -> how consume() ended
          admitted,  \* history: code -> requests that passed the gate
          redeemed   \* history: code -> requests that got the code

TxCode == TxInput \cup {NoTxCode}

toDigitString(value) == IF value.text \in Digits THEN value.text ELSE NoText

\* The arguments of a request that has not been made.
NoCall == [code |-> CHOOSE c \in Codes : TRUE, tx |-> NoTxCode, at |-> 0]

\* The error raised for a verdict when attempts remain.
Refusal(verdict) == IF verdict = "mismatch" THEN "invalid_grant"
                                            ELSE "invalid_request"

Redemption == INSTANCE CodeRedemption WITH
    offered <- issued, live <- stored, tries <- attempts,
    spent <- admitted, winners <- redeemed

\* consume() implements the one-shot code of CodeRedemption, as three round trips
\* on a shared database or in one turn of the event loop; there, a restart loses
\* the map: that withdraws its codes and revives none.
RefinesRedemption == Redemption!Spec

=============================================================================
