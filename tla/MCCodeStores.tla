---------------------------- MODULE MCCodeStores -----------------------------
(***************************************************************************)
(* The code stores for TLC: the databases of PreAuthCodeStore and the map  *)
(* of InMemoryCodeStore, of which a server uses one.                       *)
(***************************************************************************)
EXTENDS PreAuthCodeStore, InMemoryCodeStore, TLC

CONSTANTS d, t   \* a digit text and another text

\* Requests are interchangeable: no definition names one of them.
RequestSymmetry == Permutations(Requests)

\* For the interleavings: one tx_code that may match and one that never does.
TwoInputs == {[type |-> "string", text |-> d], [type |-> "string", text |-> t]}

\* For the comparison: both JSON types of the same text as well.
ThreeInputs == TwoInputs \cup {[type |-> "number", text |-> d]}

\* A call on the map has no round trips.
NoRoundTrips ==
    /\ pc = [r \in Requests |-> "idle"]
    /\ seen = [r \in Requests |-> 0]
    /\ unanswered = [c \in Codes |-> 0]

EitherInit == Init \/ ("memory" \in Backends /\ MemoryInit /\ NoRoundTrips)

EitherNext ==
    \/ backend # "memory" /\ Next
    \/ backend = "memory" /\ MemoryNext /\ UNCHANGED <<pc, seen, unanswered>>

EitherSpec == EitherInit /\ [][EitherNext]_vars

=============================================================================
