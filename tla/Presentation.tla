---------------------------- MODULE Presentation ----------------------------
(***************************************************************************)
(* Requesting and verifying a presentation over direct_post: POST /request *)
(* and /request-object, GET /request.jwt, POST /callback and               *)
(* DELETE /presentation-transaction.                                       *)
(*                                                                         *)
(* The transaction, its nonce and its request object live in stores that   *)
(* the processes of a deployment share; the binding of the OAuth `state`   *)
(* to the transaction lives in the memory of the process that made the     *)
(* request.  The operations on the binding run in one turn of the event    *)
(* loop; every access to a store is a round trip.                          *)
(***************************************************************************)

CONSTANTS Processes,  \* server processes
          Txs,        \* calls that create a request; names its transaction,
                      \* nonce and request object, which are random values
          States,     \* `state` values; chosen by the caller
          Fetches,    \* calls of GET /request.jwt/:id
          Callbacks,  \* calls of POST /callback or /callback-kbjwt
          Cancels,    \* calls of DELETE /presentation-transaction/:id
          Workloads,  \* the mixes of calls looked at, see Workload
          Free,       \* no binding, or an expired one
          Reserved,   \* a binding whose transactionId is ''
          NoTx

\* Besides creations: the calls that are made, how requests are delivered (TRUE
\* for a request_uri, FALSE for a request by value), and whether reads of the
\* nonce and request object stores may miss the latest writes (DynamoDB).
Workload == [calls : SUBSET (Fetches \cup Callbacks \cup Cancels),
             byReference : SUBSET BOOLEAN, staleReads : BOOLEAN]

ASSUME PresentationAssumption ==
    /\ Processes # {} /\ States # {}
    /\ Free # Reserved /\ Reserved # NoTx /\ NoTx # Free
    /\ {Free, Reserved, NoTx} \cap Txs = {}
    /\ Txs \cap Fetches = {} /\ Txs \cap Callbacks = {} /\ Txs \cap Cancels = {}
    /\ Fetches \cap Callbacks = {} /\ Fetches \cap Cancels = {}
    /\ Callbacks \cap Cancels = {}
    /\ Workloads \subseteq Workload

VARIABLES
    workload,
    byState,   \* process -> state -> Free, Reserved or a transaction
    txs,       \* transactions in the store, not expired
    nonces,    \* nonces in the store, not expired
    objects,   \* request objects in the store, not expired
    sent,      \* history: transactions whose request the caller was given
    request,   \* creation -> [pc, at, state, uri]
    fetch,     \* GET /request.jwt -> [pc, id, late (history)]
    callback,  \* callback -> [pc, at, state, nonce, tx,
               \*   late (history: the transactions answered before it began)]
    cancel,    \* cancellation -> [pc, at, tx]
    reply,     \* call -> how it ended
    answered,  \* history: transactions with an accepted response
    dropped    \* history: transactions that expired, were cancelled, or whose
               \* binding the caller's process lost

Calls == Txs \cup Fetches \cup Callbacks \cup Cancels

storeVars == <<byState, txs, nonces, objects>>
callVars  == <<request, fetch, callback, cancel>>
histVars  == <<sent, answered, dropped>>
vars      == <<workload, storeVars, callVars, reply, histVars>>

-----------------------------------------------------------------------------
(* The binding of a state, createDirectPostVpAudTransactionStore() *)

\* reserve() succeeds.
Reserve(at, s) ==
    /\ byState[at][s] = Free
    /\ byState' = [byState EXCEPT ![at][s] = Reserved]

\* register(): a binding of another transaction stays, and the caller does not
\* look at the result.
Register(at, s, tx) ==
    byState' = IF byState[at][s] \in {Free, Reserved}
               THEN [byState EXCEPT ![at][s] = tx] ELSE byState

\* resolve()
Resolves(at, s) == byState[at][s] \in Txs

\* consume(): whatever the state is bound to.
Consume(at, s) == byState' = [byState EXCEPT ![at][s] = Free]

-----------------------------------------------------------------------------
AnyState == CHOOSE s \in States : TRUE
AnyProcess == CHOOSE p \in Processes : TRUE

\* A callback before it arrives, and one that failed.
NoCallback == [pc |-> "idle", at |-> AnyProcess, state |-> AnyState,
               nonce |-> NoTx, tx |-> NoTx, late |-> {}]
Failed == [NoCallback EXCEPT !.pc = "done"]

NoCancel == [pc |-> "idle", at |-> AnyProcess, tx |-> NoTx]

Init ==
    /\ workload \in Workloads
    /\ byState = [p \in Processes |-> [s \in States |-> Free]]
    /\ txs = {} /\ nonces = {} /\ objects = {} /\ sent = {}
    /\ request = [q \in Txs |-> [pc |-> "idle", at |-> AnyProcess,
                                 state |-> AnyState, uri |-> FALSE]]
    /\ fetch = [f \in Fetches |-> [pc |-> "idle", id |-> NoTx, late |-> FALSE]]
    /\ callback = [k \in Callbacks |-> NoCallback]
    /\ cancel = [d \in Cancels |-> NoCancel]
    /\ reply = [c \in Calls |-> "none"]
    /\ answered = {}
    /\ dropped = {}

Answer(c, a) == reply' = [reply EXCEPT ![c] = a]

-----------------------------------------------------------------------------
(* POST /request and POST /request-object *)

\* The state is reserved; uri says that the request is delivered by reference.
RequestPresentation(q, at, s, uri) ==
    /\ request[q].pc = "idle"
    /\ Reserve(at, s)
    /\ request' = [request EXCEPT ![q] =
                      [pc |-> "create", at |-> at, state |-> s, uri |-> uri]]
    /\ UNCHANGED <<txs, nonces, objects, fetch, callback, cancel, reply, histVars>>

\* reserve() refuses: the state is in use.
RefuseState(q, at, s) ==
    /\ request[q].pc = "idle"
    /\ byState[at][s] # Free
    /\ request' = [request EXCEPT ![q].pc = "done"]
    /\ Answer(q, "invalid_request")
    /\ UNCHANGED <<storeVars, fetch, callback, cancel, histVars>>

\* Mutant: a request object is saved for a request delivered by value, too.
CreateBoth(q) ==
    /\ request[q].pc = "create"
    /\ nonces' = nonces \cup {q}
    /\ txs' = txs \cup {q}
    /\ objects' = objects \cup {q}
    /\ request' = [request EXCEPT ![q].pc = "register"]
    /\ UNCHANGED <<byState, fetch, callback, cancel, reply, histVars>>

\* createAuthzRequest(): nonce, transaction and request object are saved under
\* values nobody knows before the call returns.
CreateAuthzRequest(q) ==
    /\ request[q].pc = "create"
    /\ nonces' = nonces \cup {q}
    /\ txs' = txs \cup {q}
    /\ objects' = IF request[q].uri THEN objects \cup {q} ELSE objects
    /\ request' = [request EXCEPT ![q].pc = "register"]
    /\ UNCHANGED <<byState, fetch, callback, cancel, reply, histVars>>

\* The state is bound and the request returned.
RegisterAndRespond(q) ==
    /\ request[q].pc = "register"
    /\ Register(request[q].at, request[q].state, q)
    /\ request' = [request EXCEPT ![q].pc = "done"]
    /\ Answer(q, "ok")
    /\ sent' = sent \cup {q}
    /\ UNCHANGED <<txs, nonces, objects, fetch, callback, cancel, answered,
                   dropped>>

\* createAuthzRequest() throws, at the latest after its last write: the error
\* path gives the state up.
CreateFails(q) ==
    /\ request[q].pc \in {"create", "register"}
    /\ Consume(request[q].at, request[q].state)
    /\ request' = [request EXCEPT ![q].pc = "done"]
    /\ Answer(q, "failure")
    /\ UNCHANGED <<txs, nonces, objects, fetch, callback, cancel, histVars>>

-----------------------------------------------------------------------------
(* GET /request.jwt/:id, findRequestObject() *)

\* Some call has already been sent the object.
Retrieved(q) == \E f \in Fetches : reply[f] = "ok" /\ fetch[f].id = q

FetchRequestObject(f, q) ==
    /\ fetch[f].pc = "idle"
    /\ q \in objects \/ (workload.staleReads /\ q \in sent /\ request[q].uri)
    /\ fetch' = [fetch EXCEPT ![f] =
                      [pc |-> "sign", id |-> q, late |-> Retrieved(q)]]
    /\ UNCHANGED <<storeVars, request, callback, cancel, reply, histVars>>

RequestObjectNotFound(f, q) ==
    /\ fetch[f].pc = "idle"
    /\ q \notin objects \/ workload.staleReads
    /\ fetch' = [fetch EXCEPT ![f] =
                      [pc |-> "done", id |-> q, late |-> Retrieved(q)]]
    /\ Answer(f, "request_object_not_found")
    /\ UNCHANGED <<storeVars, request, callback, cancel, histVars>>

\* keyStore.sign()
SignRequestObject(f) ==
    /\ fetch[f].pc = "sign"
    /\ fetch' = [fetch EXCEPT ![f].pc = "delete"]
    /\ UNCHANGED <<storeVars, request, callback, cancel, reply, histVars>>

\* Mutant: the object is left to expire.
KeepRequestObject(f) ==
    /\ fetch[f].pc = "delete"
    /\ fetch' = [fetch EXCEPT ![f].pc = "done"]
    /\ Answer(f, "ok")
    /\ UNCHANGED <<storeVars, request, callback, cancel, histVars>>

\* The object is deleted, whether it is still there or not, and the JAR sent.
DeleteRequestObject(f) ==
    /\ fetch[f].pc = "delete"
    /\ objects' = objects \ {fetch[f].id}
    /\ fetch' = [fetch EXCEPT ![f].pc = "done"]
    /\ Answer(f, "ok")
    /\ UNCHANGED <<byState, txs, nonces, request, callback, cancel, histVars>>

\* No signing key, or a round trip throws: the object stays.
FetchFails(f) ==
    /\ fetch[f].pc \in {"sign", "delete"}
    /\ fetch' = [fetch EXCEPT ![f].pc = "done"]
    /\ Answer(f, "failure")
    /\ UNCHANGED <<storeVars, request, callback, cancel, histVars>>

-----------------------------------------------------------------------------
(* POST /callback, verifyPresentations() *)

\* A response with state s whose presentations are made over the nonce of
\* request n arrives at a process that can resolve the state.  NoTx: no nonce
\* is compared, as for a dc+sd-jwt at /callback, whose key binding nobody asks
\* for, or for a response without presentations.
Callback(k, at, s, n) ==
    /\ callback[k].pc = "idle"
    /\ Resolves(at, s)
    /\ callback' = [callback EXCEPT ![k] =
                      [pc |-> "fetch", at |-> at, state |-> s, nonce |-> n,
                       tx |-> byState[at][s], late |-> answered]]
    /\ UNCHANGED <<storeVars, request, fetch, cancel, reply, histVars>>

\* resolve() fails: unknown or expired state.
UnknownState(k, at, s, n) ==
    /\ callback[k].pc = "idle"
    /\ ~Resolves(at, s)
    /\ callback' = [callback EXCEPT ![k] =
                      [pc |-> "done", at |-> at, state |-> s, nonce |-> n,
                       tx |-> NoTx, late |-> {}]]
    /\ Answer(k, "unknown_state")
    /\ UNCHANGED <<storeVars, request, fetch, cancel, histVars>>

\* Mutant: the nonce of the presentations is not compared.
VerifiesAnyNonce(k) ==
    /\ callback[k].tx \in txs
    /\ callback[k].state = request[callback[k].tx].state

\* The transaction is there, the response carries its state, and every
\* presentation that has to be made over a nonce is made over this one.
Verifies(k) ==
    /\ callback[k].tx \in txs
    /\ callback[k].state = request[callback[k].tx].state
    /\ callback[k].nonce \in {callback[k].tx, NoTx}

FetchAndVerify(k) ==
    /\ callback[k].pc = "fetch"
    /\ Verifies(k)
    /\ callback' = [callback EXCEPT ![k].pc = "validate"]
    /\ UNCHANGED <<storeVars, request, fetch, cancel, reply, histVars>>

\* Mutant: a refused response gives the state up.
RefuseAndConsume(k) ==
    /\ callback[k].pc = "fetch"
    /\ Consume(callback[k].at, callback[k].state)
    /\ callback' = [callback EXCEPT ![k] = Failed]
    /\ Answer(k, "refused")
    /\ UNCHANGED <<txs, nonces, objects, request, fetch, cancel, histVars>>

\* Some check fails, the ones on the credentials' own content included.
RefusePresentation(k) ==
    /\ callback[k].pc = "fetch"
    /\ callback' = [callback EXCEPT ![k] = Failed]
    /\ Answer(k, "refused")
    /\ UNCHANGED <<storeVars, request, fetch, cancel, histVars>>

\* nonceStore.validate() finds the transaction's nonce.
ValidateNonce(k) ==
    /\ callback[k].pc = "validate"
    /\ callback[k].tx \in nonces \/ workload.staleReads
    /\ callback' = [callback EXCEPT ![k].pc = "revoke"]
    /\ UNCHANGED <<storeVars, request, fetch, cancel, reply, histVars>>

InvalidNonce(k) ==
    /\ callback[k].pc = "validate"
    /\ callback[k].tx \notin nonces \/ workload.staleReads
    /\ callback' = [callback EXCEPT ![k] = Failed]
    /\ Answer(k, "invalid_nonce")
    /\ UNCHANGED <<storeVars, request, fetch, cancel, histVars>>

\* nonceStore.revoke(), whose result is not looked at.
RevokeNonce(k) ==
    /\ callback[k].pc = "revoke"
    /\ nonces' = nonces \ {callback[k].tx}
    /\ callback' = [callback EXCEPT ![k].pc = "delete"]
    /\ UNCHANGED <<byState, txs, objects, request, fetch, cancel, reply, histVars>>

\* Mutant: the clean-up after a success is left to the ttls.
AcceptWithoutCleanup(k) ==
    /\ callback[k].pc = "delete"
    /\ callback' = [callback EXCEPT ![k].pc = "done"]
    /\ Answer(k, "ok")
    /\ answered' = answered \cup {callback[k].tx}
    /\ UNCHANGED <<storeVars, request, fetch, cancel, sent, dropped>>

\* The transaction is deleted, the state given up, the response accepted.
Accept(k) ==
    /\ callback[k].pc = "delete"
    /\ txs' = txs \ {callback[k].tx}
    /\ Consume(callback[k].at, callback[k].state)
    /\ callback' = [callback EXCEPT ![k].pc = "done"]
    /\ Answer(k, "ok")
    /\ answered' = answered \cup {callback[k].tx}
    /\ UNCHANGED <<nonces, objects, request, fetch, cancel, sent, dropped>>

\* A round trip throws; nothing is undone and the state stays bound.
CallbackFails(k) ==
    /\ callback[k].pc \in {"fetch", "validate", "revoke", "delete"}
    /\ callback' = [callback EXCEPT ![k] = Failed]
    /\ Answer(k, "failure")
    /\ UNCHANGED <<storeVars, request, fetch, cancel, histVars>>

-----------------------------------------------------------------------------
(* DELETE /presentation-transaction/:id *)

\* getTransaction(), then consume() of its state in this process.
CancelTransaction(d, at, q) ==
    /\ cancel[d].pc = "idle"
    /\ q \in sent \cap txs
    /\ Consume(at, request[q].state)
    /\ cancel' = [cancel EXCEPT ![d] = [pc |-> "delete", at |-> at, tx |-> q]]
    /\ dropped' = dropped \cup {q} \cup
          ({byState[at][request[q].state]} \cap Txs)
    /\ UNCHANGED <<txs, nonces, objects, request, fetch, callback, reply, sent,
                   answered>>

TransactionNotFound(d, q) ==
    /\ cancel[d].pc = "idle"
    /\ q \in sent \ txs
    /\ cancel' = [cancel EXCEPT ![d].pc = "done"]
    /\ Answer(d, "transaction_id_not_found")
    /\ UNCHANGED <<storeVars, request, fetch, callback, histVars>>

DeleteTransaction(d) ==
    /\ cancel[d].pc = "delete"
    /\ txs' = txs \ {cancel[d].tx}
    /\ cancel' = [cancel EXCEPT ![d] = [NoCancel EXCEPT !.pc = "done"]]
    /\ Answer(d, "ok")
    /\ UNCHANGED <<byState, nonces, objects, request, fetch, callback, histVars>>

\* deleteTransaction() throws: the state was given up, the transaction stays.
CancelFails(d) ==
    /\ cancel[d].pc = "delete"
    /\ cancel' = [cancel EXCEPT ![d] = [NoCancel EXCEPT !.pc = "done"]]
    /\ Answer(d, "failure")
    /\ UNCHANGED <<storeVars, request, fetch, callback, histVars>>

-----------------------------------------------------------------------------
(* Time and restarts *)

\* A binding or a reservation reaches its ttl.
ExpireBinding(p, s) ==
    /\ byState[p][s] # Free
    /\ Consume(p, s)
    /\ dropped' = dropped \cup ({byState[p][s]} \cap Txs)
    /\ UNCHANGED <<txs, nonces, objects, callVars, reply, sent, answered>>

\* Transaction, nonce and request object have their own ttl each.
ExpireTransaction(q) ==
    /\ q \in txs
    /\ txs' = txs \ {q}
    /\ dropped' = dropped \cup {q}
    /\ UNCHANGED <<byState, nonces, objects, callVars, reply, sent, answered>>

ExpireNonce(q) ==
    /\ q \in nonces
    /\ nonces' = nonces \ {q}
    /\ dropped' = dropped \cup {q}
    /\ UNCHANGED <<byState, txs, objects, callVars, reply, sent, answered>>

ExpireRequestObject(q) ==
    /\ q \in objects
    /\ objects' = objects \ {q}
    /\ UNCHANGED <<byState, txs, nonces, callVars, reply, histVars>>

\* A process restarts and loses its bindings with the calls it was serving;
\* the stores keep what was written.
Restart(p) ==
    /\ byState' = [byState EXCEPT ![p] = [s \in States |-> Free]]
    /\ dropped' = dropped \cup {q \in Txs : \E s \in States : byState[p][s] = q}
    /\ request' = [q \in Txs |->
          IF request[q].pc \in {"create", "register"} /\ request[q].at = p
          THEN [request[q] EXCEPT !.pc = "done"] ELSE request[q]]
    /\ callback' = [k \in Callbacks |->
          IF callback[k].pc \notin {"idle", "done"} /\ callback[k].at = p
          THEN Failed ELSE callback[k]]
    /\ cancel' = [d \in Cancels |->
          IF cancel[d].pc = "delete" /\ cancel[d].at = p
          THEN [NoCancel EXCEPT !.pc = "done"] ELSE cancel[d]]
    /\ UNCHANGED <<txs, nonces, objects, fetch, reply, sent, answered>>

-----------------------------------------------------------------------------
RequestStep ==
    \E q \in Txs :
        \/ \E p \in Processes, s \in States :
              \/ RefuseState(q, p, s)
              \/ \E uri \in workload.byReference : RequestPresentation(q, p, s, uri)
        \/ CreateAuthzRequest(q) \/ RegisterAndRespond(q) \/ CreateFails(q)

FetchStep ==
    \E f \in Fetches \cap workload.calls :
        \/ \E q \in sent : FetchRequestObject(f, q) \/ RequestObjectNotFound(f, q)
        \/ SignRequestObject(f) \/ DeleteRequestObject(f) \/ FetchFails(f)

CallbackStep ==
    \E k \in Callbacks \cap workload.calls :
        \/ \E p \in Processes, s \in States, n \in sent \cup {NoTx} :
              Callback(k, p, s, n) \/ UnknownState(k, p, s, n)
        \/ FetchAndVerify(k) \/ RefusePresentation(k)
        \/ ValidateNonce(k) \/ InvalidNonce(k)
        \/ RevokeNonce(k) \/ Accept(k) \/ CallbackFails(k)

CancelStep ==
    \E d \in Cancels \cap workload.calls :
        \/ \E q \in Txs : \/ TransactionNotFound(d, q)
                          \/ \E p \in Processes : CancelTransaction(d, p, q)
        \/ DeleteTransaction(d) \/ CancelFails(d)

Expire ==
    \/ \E p \in Processes, s \in States : ExpireBinding(p, s)
    \/ \E q \in Txs :
          ExpireTransaction(q) \/ ExpireNonce(q) \/ ExpireRequestObject(q)
    \/ \E p \in Processes : Restart(p)

Next == /\ RequestStep \/ FetchStep \/ CallbackStep \/ CancelStep \/ Expire
        /\ UNCHANGED workload

Spec == Init /\ [][Next]_vars

-----------------------------------------------------------------------------
(* Properties *)

Outcomes == {"none", "ok", "failure", "invalid_request", "request_object_not_found",
             "unknown_state", "refused", "invalid_nonce", "transaction_id_not_found"}

TypeOK ==
    /\ workload \in Workloads
    /\ byState \in [Processes -> [States -> Txs \cup {Free, Reserved}]]
    /\ txs \subseteq Txs /\ nonces \subseteq Txs
    /\ objects \subseteq {q \in Txs : request[q].uri}
    /\ request \in [Txs -> [pc : {"idle", "create", "register", "done"},
                            at : Processes, state : States, uri : BOOLEAN]]
    /\ fetch \in [Fetches -> [pc : {"idle", "sign", "delete", "done"},
                              id : Txs \cup {NoTx}, late : BOOLEAN]]
    /\ callback \in [Callbacks ->
           [pc : {"idle", "fetch", "validate", "revoke", "delete", "done"},
            at : Processes, state : States, nonce : Txs \cup {NoTx},
            tx : Txs \cup {NoTx}, late : SUBSET Txs]]
    /\ cancel \in [Cancels -> [pc : {"idle", "delete", "done"}, at : Processes,
                               tx : Txs \cup {NoTx}]]
    /\ reply \in [Calls -> Outcomes]
    /\ {sent, answered, dropped} \subseteq SUBSET Txs

\* A response is accepted for a request that was sent, under the state of that
\* request, and key-bound presentations for the very request they answer: a
\* state that was given up, reused or bound to another transaction while the
\* response was under way never gets them accepted elsewhere.
AcceptedForItsRequest ==
    \A k \in Callbacks : reply[k] = "ok" =>
        /\ callback[k].nonce # NoTx => callback[k].tx = callback[k].nonce
        /\ callback[k].tx \in sent
        /\ callback[k].state = request[callback[k].tx].state

\* A transaction that was answered takes no response that begins later, even
\* when its state is bound again or its nonce is read from a stale replica.
AnsweredIsClosed ==
    \A k \in Callbacks : reply[k] = "ok" => callback[k].tx \notin callback[k].late

\* While a transaction is open (sent, unanswered, nothing of it expired or was
\* cancelled), and no other request ever used its state, the process that made
\* it resolves its state to it: nobody else's call gives the binding up.
OpenTransactionIsBound ==
    \A q \in sent \ (answered \cup dropped) :
        (\A q2 \in Txs \ {q} : request[q2].pc = "idle"
                                \/ request[q2].state # request[q].state)
        => byState[request[q].at][request[q].state] = q

\* One call after the other, a request object is retrieved once: a GET that
\* begins after another was answered finds it gone (on a store whose reads are
\* consistent).
RetrievedObjectIsClosed ==
    ~workload.staleReads => \A f \in Fetches : reply[f] = "ok" => ~fetch[f].late

\* The DynamoDB transaction store: "The wallet's response can land on a
\* different Lambda instance than the request that saved the transaction".  So
\* the state of an open transaction is known wherever its response arrives.
ResponseFindsTransaction ==
    \A k \in Callbacks : reply[k] = "unknown_state" /\ callback[k].nonce # NoTx =>
        \/ callback[k].state # request[callback[k].nonce].state
        \/ callback[k].nonce \in answered \cup dropped

\* What PresentationExchange sees of a request and of a response.
SentState(q) == IF q \in sent THEN {request[q].state} ELSE {}

Response(k) == [tx |-> callback[k].tx, state |-> callback[k].state,
                nonce |-> callback[k].nonce]

Taken(k) ==
    IF callback[k].pc \in {"validate", "revoke", "delete"} THEN {Response(k)} ELSE {}

Accepted(k) == IF reply[k] = "ok" THEN {Response(k)} ELSE {}

Exchange == INSTANCE PresentationExchange WITH
    sent <- [q \in Txs |-> SentState(q)],
    open <- txs \cap sent,
    taken <- [k \in Callbacks |-> Taken(k)],
    accepted <- [k \in Callbacks |-> Accepted(k)]

\* Each step of the verifier is a step of the exchange or none: whatever is
\* bound, rebound, expired, cancelled or lost between the round trips of a
\* callback, a response is let in only for an open request and over its nonce,
\* and the first one accepted closes the request for those that come later.
RefinesPresentationExchange == Exchange!Spec

=============================================================================
