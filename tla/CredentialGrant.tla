-------------------------- MODULE CredentialGrant ---------------------------
(***************************************************************************)
(* What an issuer promises with the pre-authorized code grant, whatever    *)
(* its stores hold and forget.                                             *)
(*                                                                         *)
(* A code that was offered is redeemed by one request, or withdrawn.  That *)
(* request may be sent one token, bound to one key or to none.  With it    *)
(* credentials are issued of the configurations the code was offered with, *)
(* to requests that show the token's key.  The two endpoints refine this.  *)
(***************************************************************************)
CONSTANTS Codes, Configs,     \* pre-authorized codes, credential configurations
          TokenRequests, CredentialRequests,
          Keys, NoKey,        \* the keys tokens are bound to
          Clients,            \* how clients identify themselves,
          Assertions          \*   some by an assertion that can be used once

VARIABLES offered,     \* code -> configurations of its offer; {}: no offer yet
          live,        \* codes that can still be redeemed
          winners,     \* code -> requests that redeemed it
          tokens,      \* token request -> the token it was sent, if any
          credentials  \* credential request -> the credential it got, if any

vars == <<offered, live, winners, tokens, credentials>>

Init ==
    /\ offered = [c \in Codes |-> {}]
    /\ live = {}
    /\ winners = [c \in Codes |-> {}]
    /\ tokens = [t \in TokenRequests |-> {}]
    /\ credentials = [r \in CredentialRequests |-> {}]

Offer(c, configs) ==
    /\ offered[c] = {} /\ configs # {}
    /\ offered' = [offered EXCEPT ![c] = configs]
    /\ live' = live \cup {c}
    /\ UNCHANGED <<winners, tokens, credentials>>

Withdraw(c) ==
    /\ c \in live
    /\ live' = live \ {c}
    /\ UNCHANGED <<offered, winners, tokens, credentials>>

\* Nobody redeems a second code with the request he redeemed one with.
Redeem(c, t) ==
    /\ c \in live
    /\ \A d \in Codes : t \notin winners[d]
    /\ live' = live \ {c}
    /\ winners' = [winners EXCEPT ![c] = {t}]
    /\ UNCHANGED <<offered, tokens, credentials>>

\* An assertion yields one token.
Send(t, client, key) ==
    /\ tokens[t] = {}
    /\ client \in Assertions =>
          \A u \in TokenRequests : \A token \in tokens[u] : token.client # client
    /\ \E c \in Codes :
          /\ t \in winners[c]
          /\ tokens' = [tokens EXCEPT ![t] =
                           {[code |-> c, client |-> client, key |-> key]}]
    /\ UNCHANGED <<offered, live, winners, credentials>>

\* The credential is of a configuration the token's code was offered with, and
\* the request shows the token's key.
Issue(r, t) ==
    /\ credentials[r] = {}
    /\ \E token \in tokens[t] : \E config \in offered[token.code] :
          credentials' = [credentials EXCEPT ![r] =
                            {[token |-> t, config |-> config, key |-> token.key]}]
    /\ UNCHANGED <<offered, live, winners, tokens>>

Next ==
    \/ \E c \in Codes :
          \/ \E configs \in SUBSET Configs : Offer(c, configs)
          \/ Withdraw(c)
          \/ \E t \in TokenRequests : Redeem(c, t)
    \/ \E t \in TokenRequests, client \in Clients, key \in Keys \cup {NoKey} :
          Send(t, client, key)
    \/ \E r \in CredentialRequests, t \in TokenRequests : Issue(r, t)

Spec == Init /\ [][Next]_vars

=============================================================================
