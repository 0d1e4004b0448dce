------------------------ MODULE PresentationExchange ------------------------
(***************************************************************************)
(* What a verifier promises of its presentation requests, whatever its     *)
(* stores expire, its processes forget and its callers cancel.             *)
(*                                                                         *)
(* A request is sent with a state.  While it is open it takes responses    *)
(* under that state, whose presentations are made over its nonce or over   *)
(* none.  The first one that is accepted closes it: responses taken before *)
(* may still be accepted, none is taken afterwards.                        *)
(***************************************************************************)
CONSTANTS Txs, Callbacks,  \* requests and responses
          States, NoTx     \* values of `state`; no nonce

VARIABLES sent,     \* request -> the state it was sent with; {}: not sent
          open,     \* requests that can be answered
          taken,    \* response -> what it was taken for, {} if for nothing
          accepted  \* response -> what it was accepted for, {} if for nothing

vars == <<sent, open, taken, accepted>>

Init ==
    /\ sent = [q \in Txs |-> {}]
    /\ open = {}
    /\ taken = [k \in Callbacks |-> {}]
    /\ accepted = [k \in Callbacks |-> {}]

\* Its transaction may have expired before the request is on its way.
Send(q, s) ==
    /\ sent[q] = {}
    /\ sent' = [sent EXCEPT ![q] = {s}]
    /\ open' \in {open, open \cup {q}}
    /\ UNCHANGED <<taken, accepted>>

\* The request expires or is cancelled.
Close(q) ==
    /\ open' = open \ {q}
    /\ UNCHANGED <<sent, taken, accepted>>

Take(k, q, n) ==
    /\ taken[k] = {} /\ accepted[k] = {}
    /\ q \in open
    /\ n \in {q, NoTx}
    /\ \E s \in sent[q] :
          taken' = [taken EXCEPT ![k] = {[tx |-> q, state |-> s, nonce |-> n]}]
    /\ UNCHANGED <<sent, open, accepted>>

\* The responses in K are refused after all, or fail.
GiveUp(K) ==
    /\ taken' = [k \in Callbacks |-> IF k \in K THEN {} ELSE taken[k]]
    /\ UNCHANGED <<sent, open, accepted>>

Accept(k) ==
    \E response \in taken[k] :
        /\ accepted[k] = {}
        /\ accepted' = [accepted EXCEPT ![k] = {response}]
        /\ taken' = [taken EXCEPT ![k] = {}]
        /\ open' = open \ {response.tx}
        /\ UNCHANGED sent

Next ==
    \/ \E q \in Txs :
          \/ \E s \in States : Send(q, s)
          \/ Close(q)
    \/ \E k \in Callbacks :
          \/ \E q \in Txs, n \in Txs \cup {NoTx} : Take(k, q, n)
          \/ Accept(k)
    \/ \E K \in SUBSET Callbacks : GiveUp(K)

Spec == Init /\ [][Next]_vars

=============================================================================
